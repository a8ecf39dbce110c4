-------------------------- MODULE BuildRingProofs --------------------------
(***************************************************************************)
(* For any number of hosts and retries, and whoever is down, crashes or    *)
(* loses a packet: types, that every host finds itself in the list of      *)
(* hosts, that all who begin the transfer have the same list, and that the *)
(* ring is closed then.                                                    *)
(***************************************************************************)
EXTENDS BuildRing, WellFoundedInduction, TLAPS

Packets == [kind : {"RING", "HOST"}, flags : [Node -> Flag]] \cup {FilePacket}

\* One host at a time is called: the one a node connects to, and the one that a RING
\* packet is sent to.  A node that still looks for its next one has tries left.
Calls(flags) == {h \in Node : flags[h] = "CALL"}
Looking(n) ==
  /\ pc[n] \in {"accept", "connect", "send_ring"} => retry[n] < MAXRETRY
  /\ pc[n] \in {"connect", "send_ring"} =>
       IF next[n] = 0 THEN Calls(list[n]) = {}
       ELSE Calls(list[n]) = {ite[n]} /\ ite[n] \in Client
  /\ pc[n] = "send_ring" => next[n] \in {0, ite[n]}
Mail ==
  /\ inbox \in [Node -> Seq(Packets)]
  /\ \A c \in Client : \A i \in DOMAIN inbox[c] :
       inbox[c][i].kind = "RING" => Calls(inbox[c][i].flags) = {c}

Inductive == TypeOK /\ Mail /\ FindsItself /\ \A n \in Node : Looking(n)

LEMMA Hosts ==
  /\ 0 \in Node /\ 1 \in Node /\ Client \subseteq Node /\ NoHosts \in Node
  /\ \A h \in Node : HasEntry(h) <=> h + 1 \in Node
  /\ \A h \in Node : h \in Client <=> h # 0
  /\ NoNode \notin Node /\ NoNode # 0 /\ Node \subseteq 0 .. NoNode
BY RingAssumption DEF Node, Client, HasEntry, NoNode

LEMMA MinOfOne ==
  ASSUME NEW h \in Node
  PROVE  Min({h} \cup {NoHosts}) = h
<1>1. h \in Nat /\ NoHosts \in Nat /\ h <= NoHosts  BY RingAssumption DEF Node
<1> QED BY <1>1 DEF Min

LEMMA InitInductive == Init => Inductive
<1> SUFFICES ASSUME Init PROVE Inductive  OBVIOUS
<1>1. InitialList \in [Node -> Flag]  BY DEF InitialList, Flag
<1>2. \A c \in Client : c \in Node  BY Hosts
<1>3. TypeOK
  <2>1. NoHosts \in Nat \ {0} /\ MAXRETRY \in Nat \ {0}  BY RingAssumption
  <2>2. 0 \in Node /\ 1 \in Node /\ NoNode \in 0 .. NoNode /\ 0 \in 0 .. MAXRETRY
    BY <2>1, Hosts DEF NoNode
  <2> QED BY <1>1, <1>2, <2>2 DEF Init, TypeOK
<1>4. pc[0] = "connect" /\ \A n \in Node : pc[n] \in {"connect", "send_ring"} => n = 0
  BY <1>2, Hosts DEF Init
<1>5. Calls(list[0]) = {1} /\ ite[0] = 1 /\ next[0] = NoNode /\ 1 \in Client
  BY Hosts, RingAssumption DEF Init, Calls, InitialList, Client
<1>6. \A n \in Node : Looking(n)
  BY <1>4, <1>5, Hosts, RingAssumption DEF Init, Looking
<1> QED BY <1>2, <1>3, <1>6 DEF Init, Inductive, FindsItself, Mail

(***************************************************************************)
(* What a step does to the mail                                            *)
(***************************************************************************)
LEMMA MailIsTyped ==
  ASSUME NEW box \in [Node -> Seq(Packets)]
  PROVE  \A n \in Node : \A i \in DOMAIN box[n] : box[n][i].kind \in {"RING", "HOST", "FILE"}
<1> SUFFICES ASSUME NEW n \in Node, NEW i \in DOMAIN box[n]
             PROVE  box[n][i].kind \in {"RING", "HOST", "FILE"}
  OBVIOUS
<1>1. box[n][i] \in Packets  OBVIOUS
<1> QED BY <1>1 DEF Packets, FilePacket

LEMMA Appended ==
  ASSUME NEW S, NEW s \in Seq(S), NEW x \in S
  PROVE  Append(s, x)[Len(s) + 1] = x
OBVIOUS

\* Taking a packet adds none, and sending adds the one that is sent.
LEMMA Taken ==
  ASSUME Mail, NEW n \in Node, inbox[n] # <<>>, Take(n)
  PROVE  /\ inbox' \in [Node -> Seq(Packets)]
         /\ \A k \in Node : \A i \in DOMAIN inbox'[k] : \E j \in DOMAIN inbox[k] : inbox'[k][i] = inbox[k][j]
<1>1. inbox[n] \in Seq(Packets)  BY DEF Mail
<1>2. inbox'[n] = Tail(inbox[n]) /\ \A k \in Node : k # n => inbox'[k] = inbox[k]
  BY DEF Take, Mail
<1>3. \A i \in DOMAIN inbox'[n] : i + 1 \in DOMAIN inbox[n] /\ inbox'[n][i] = inbox[n][i + 1]
  BY <1>1, <1>2
<1>4. inbox' \in [Node -> Seq(Packets)]  BY <1>1 DEF Take, Mail
<1> QED BY <1>2, <1>3, <1>4

LEMMA Sent ==
  ASSUME Mail, NEW n \in Node, NEW packet \in Packets, Deliver(n, packet)
  PROVE  /\ inbox' \in [Node -> Seq(Packets)]
         /\ \A k \in Node : \A i \in DOMAIN inbox'[k] :
              \/ \E j \in DOMAIN inbox[k] : inbox'[k][i] = inbox[k][j]
              \/ k = next[n] /\ inbox'[k][i] = packet
<1> DEFINE m == next[n]
<1>1. CASE inbox' = inbox  BY <1>1 DEF Mail
<1>2. CASE m \in Node /\ inbox' = [inbox EXCEPT ![m] = Append(@, packet)]
  <2> DEFINE s == inbox[m]
  <2>1. s \in Seq(Packets)  BY <1>2 DEF Mail
  <2>2. inbox' \in [Node -> Seq(Packets)]  BY <1>2, <2>1 DEF Mail
  <2>3. inbox'[m] = Append(s, packet) /\ \A k \in Node : k # m => inbox'[k] = inbox[k]
    BY <1>2 DEF Mail
  <2>4. ASSUME NEW i \in DOMAIN Append(s, packet)
        PROVE  Append(s, packet)[i] = packet \/ \E j \in DOMAIN s : Append(s, packet)[i] = s[j]
    <3>1. DOMAIN Append(s, packet) = 1 .. Len(s) + 1 /\ DOMAIN s = 1 .. Len(s) /\ Len(s) \in Nat
      BY <2>1
    <3>2. CASE i = Len(s) + 1
      <4>1. Append(s, packet)[Len(s) + 1] = packet  BY <2>1, Appended
      <4> QED BY <3>2, <4>1
    <3>3. CASE i # Len(s) + 1
      <4>1. i \in DOMAIN s /\ Append(s, packet)[i] = s[i]  BY <2>1, <3>1, <3>3
      <4> QED BY <4>1
    <3> QED BY <3>2, <3>3
  <2>5. ASSUME NEW k \in Node, NEW i \in DOMAIN inbox'[k]
        PROVE  \/ \E j \in DOMAIN inbox[k] : inbox'[k][i] = inbox[k][j]
               \/ k = m /\ inbox'[k][i] = packet
    <3>1. CASE k = m  BY <2>3, <2>4, <3>1
    <3>2. CASE k # m  BY <2>3, <3>2
    <3> QED BY <3>1, <3>2
  <2> QED BY <2>2, <2>5
<1>3. CASE m \notin Node /\ inbox' = [inbox EXCEPT ![m] = Append(@, packet)]
  <2>1. inbox' = inbox  BY <1>3 DEF Mail
  <2> QED BY <1>1, <2>1
<1> QED BY <1>1, <1>2, <1>3 DEF Deliver

LEMMA TakenMail ==
  ASSUME Mail, NEW n \in Node, inbox[n] # <<>>, Take(n)
  PROVE  Mail'
<1>1. ASSUME NEW c \in Client, NEW i \in DOMAIN inbox'[c], inbox'[c][i].kind = "RING"
      PROVE  Calls(inbox'[c][i].flags) = {c}
  <2>1. PICK j \in DOMAIN inbox[c] : inbox'[c][i] = inbox[c][j]  BY <1>1, Taken, Hosts
  <2> QED BY <1>1, <2>1 DEF Mail
<1> QED BY <1>1, Taken DEF Mail, Calls

LEMMA SentMail ==
  ASSUME Mail, NEW n \in Node, NEW packet \in Packets, Deliver(n, packet),
         packet.kind = "RING" /\ next[n] \in Client => Calls(packet.flags) = {next[n]}
  PROVE  Mail'
<1>1. ASSUME NEW c \in Client, NEW i \in DOMAIN inbox'[c], inbox'[c][i].kind = "RING"
      PROVE  Calls(inbox'[c][i].flags) = {c}
  <2>1. \/ \E j \in DOMAIN inbox[c] : inbox'[c][i] = inbox[c][j]
        \/ c = next[n] /\ inbox'[c][i] = packet
    BY <1>1, Sent, Hosts
  <2> QED BY <1>1, <2>1 DEF Mail
<1> QED BY <1>1, Sent DEF Mail, Calls

\* One node's step leaves the other nodes looking as they were.
Others(n) ==
  \A k \in Node : k # n => /\ pc'[k] = pc[k] /\ list'[k] = list[k] /\ ite'[k] = ite[k]
                           /\ retry'[k] = retry[k] /\ next'[k] = next[k]
LEMMA NodeStep ==
  ASSUME Inductive, NEW n \in Node, Others(n), Looking(n)', TypeOK', Mail', FindsItself'
  PROVE  Inductive'
<1>1. ASSUME NEW k \in Node PROVE Looking(k)'
  <2>1. CASE k = n  BY <2>1
  <2>2. CASE k # n  BY <2>2 DEF Others, Inductive, Looking, Calls
  <2> QED BY <2>1, <2>2
<1> QED BY <1>1 DEF Inductive

\* Steps after which a node no longer looks for the next one.
Later == {"recv_ring", "send_host", "recv_host", "send_file", "recv_file", "transfer", "exit", "down"}
LEMMA LaterStep ==
  ASSUME Inductive, NEW n \in Node, NEW l \in Later, Goto(n, l), Mail',
         UNCHANGED <<retry, next, from, myName, faults>>,
         ite' = ite \/ \E h \in Node : ite' = [ite EXCEPT ![n] = h],
         list' = list \/ \E flags \in [Node -> Flag] : list' = [list EXCEPT ![n] = flags]
  PROVE  Inductive'
<1>1. TypeOK /\ FindsItself  BY DEF Inductive
<1>2. pc' = [pc EXCEPT ![n] = l] /\ pc'[n] = l  BY <1>1 DEF Goto, TypeOK
<1>3. Looking(n)'  BY <1>2 DEF Looking, Later
<1>4. Others(n)  BY <1>1, <1>2 DEF Others, TypeOK
<1>5. list' \in [Node -> [Node -> Flag]] /\ ite' \in [Node -> Node]
  <2>1. list \in [Node -> [Node -> Flag]] /\ ite \in [Node -> Node]  BY <1>1 DEF TypeOK
  <2>2. list' \in [Node -> [Node -> Flag]]  BY <2>1
  <2>3. ite' \in [Node -> Node]  BY <2>1
  <2> QED BY <2>2, <2>3
<1>6. TypeOK'  BY <1>1, <1>2, <1>5, MailIsTyped DEF TypeOK, Later, Mail
<1>7. FindsItself'  BY <1>1 DEF FindsItself
<1> QED BY <1>3, <1>4, <1>6, <1>7, NodeStep
-----------------------------------------------------------------------------
(***************************************************************************)
(* The steps                                                               *)
(***************************************************************************)
LEMMA SendStep ==
  ASSUME Inductive, NEW n \in Node, NEW l, NEW packet \in Packets, NEW goto \in Later,
         packet.kind # "RING", Send(n, l, packet, goto)
  PROVE  Inductive'
<1>1. Mail'
  <2>1. CASE Deliver(n, packet)  BY <2>1, SentMail DEF Inductive
  <2>2. CASE inbox' = inbox  BY <2>2 DEF Inductive, Mail, Calls
  <2> QED BY <2>1, <2>2 DEF Send
<1>2. CASE Goto(n, goto)  BY <1>1, <1>2, LaterStep DEF Send
<1>3. CASE Exit(n)
  <2>1. "exit" \in Later  BY DEF Later
  <2> QED BY <1>1, <1>3, <2>1, LaterStep DEF Send, Exit
<1> QED BY <1>2, <1>3 DEF Send

\* Every set of numbers has a smallest one.
LEMMA SmallestExists ==
  ASSUME NEW S, S \subseteq Nat, S # {}
  PROVE  Min(S) \in S /\ \A k \in S : Min(S) <= k
<1>1. \E x \in S : \A y \in S : ~(<<y, x>> \in OpToRel(<, Nat))
  BY NatLessThanWellFounded, WFMin
<1>2. OpToRel(<, Nat) = {p \in Nat \X Nat : p[1] < p[2]}  BY Zenon DEF OpToRel
<1>3. \A x, y \in Nat : y < x => <<y, x>> \in {p \in Nat \X Nat : p[1] < p[2]}  OBVIOUS
<1>4. PICK x \in S : \A y \in S : ~(<<y, x>> \in {p \in Nat \X Nat : p[1] < p[2]})
  BY ONLY <1>1, <1>2, Zenon
<1>5. \A y \in S : x <= y
  <2> SUFFICES ASSUME NEW y \in S PROVE x <= y  OBVIOUS
  <2>1. ~(y < x)  BY <1>3, <1>4
  <2> QED BY <2>1
<1> QED BY <1>5 DEF Min

\* search_name() ends at an entry of the list.
LEMMA Searched ==
  ASSUME NEW h \in Node
  PROVE  SearchName(h) \subseteq Node
<1> DEFINE S == {k \in Node : h \in NamePrefix[k]}
<1>1. h \in S /\ S \subseteq Nat /\ S \subseteq Node  BY RingAssumption DEF Node
<1>2. S # {}  BY <1>1
<1>3. Min(S) \in S  BY <1>1, <1>2, SmallestExists
<1> QED BY <1>1, <1>3, Hosts DEF SearchName

LEMMA SendHostStep ==
  ASSUME Inductive, NEW c \in Client, ClientSendHost(c)
  PROVE  Inductive'
<1>1. c \in Node /\ list[c] \in [Node -> Flag] /\ ite[c] \in Node  BY Hosts DEF Inductive, TypeOK
<1>2. HostPacket(list[c]) \in Packets /\ HostPacket(list[c]).kind # "RING"
  BY <1>1 DEF HostPacket, Packets
<1>3. Mail'
  <2>1. CASE Deliver(c, HostPacket(list[c]))  BY <1>1, <1>2, <2>1, SentMail DEF Inductive
  <2>2. CASE inbox' = inbox  BY <2>2 DEF Inductive, Mail, Calls
  <2> QED BY <2>1, <2>2 DEF ClientSendHost
<1>4. ite' = ite \/ \E h \in Node : ite' = [ite EXCEPT ![c] = h]
  BY <1>1, Searched DEF ClientSendHost
<1>5. PICK l \in Later : Goto(c, l)  BY DEF ClientSendHost, Exit, Later
<1>6. UNCHANGED <<list, retry, next, from, myName, faults>>  BY DEF ClientSendHost
<1> QED BY <1>1, <1>3, <1>4, <1>5, <1>6, LaterStep

LEMMA SendRingStep ==
  ASSUME Inductive, NEW n \in Node, SendRing(n)
  PROVE  Inductive'
<1>1. list[n] \in [Node -> Flag]  BY DEF Inductive, TypeOK
<1>2. RingPacket(list[n]) \in Packets /\ RingPacket(list[n]).flags = list[n]
  BY <1>1 DEF RingPacket, Packets
<1>3. next[n] \in Client => Calls(list[n]) = {next[n]}
  BY Hosts DEF Inductive, Looking, SendRing
<1>4. Mail'  BY <1>2, <1>3, SentMail DEF Inductive, SendRing
<1>5. PICK l \in Later : Goto(n, l)  BY DEF SendRing, Later
<1> QED BY <1>4, <1>5, LaterStep DEF SendRing

LEMMA RecvStep ==
  ASSUME Inductive, NEW n \in Node, NEW l, NEW kind \in {"RING", "HOST"}, NEW goto \in Later,
         RecvList(n, l, kind, goto) \/ RecvFile(n, goto)
  PROVE  Inductive'
<1>1. inbox[n] # <<>> /\ Take(n)  BY DEF RecvList, RecvFile, Receives
<1>2. Mail'  BY <1>1, TakenMail DEF Inductive
<1>3. CASE RecvList(n, l, kind, goto)
  <2>1. Head(inbox[n]) \in Packets  BY <1>1 DEF Inductive, Mail
  <2>2. Received(n) \in [Node -> Flag]
    BY <1>3, <2>1 DEF RecvList, Receives, Received, Packets, FilePacket
  <2> QED BY <1>2, <1>3, <2>2, LaterStep DEF RecvList
<1>4. CASE RecvFile(n, goto)  BY <1>2, <1>4, LaterStep DEF RecvFile
<1> QED BY <1>3, <1>4

LEMMA LeaveStep ==
  ASSUME Inductive, NEW n \in Node,
         \/ RecvFails(n)
         \/ pc[n] = "connect" /\ Exit(n) /\ UNCHANGED <<list, ite, retry, next, from, inbox, myName, faults>>
         \/ n \in Client /\ (ClientSendRingLost(n) \/ Crash(n))
  PROVE  Inductive'
<1>1. PICK l \in Later : Goto(n, l)
  BY DEF RecvFails, ClientSendRingLost, Crash, Exit, Later
<1>2. UNCHANGED <<list, ite, retry, next, from, inbox, myName, faults>>
  BY DEF RecvFails, ClientSendRingLost, Crash
<1>3. Mail'  BY <1>2 DEF Inductive, Mail, Calls
<1> QED BY <1>1, <1>2, <1>3, LaterStep

LEMMA ConnectedStep ==
  ASSUME Inductive, NEW n \in Node, Connected(n)
  PROVE  Inductive'
<1> DEFINE t == Target(n)
<1>1. TypeOK /\ Mail /\ FindsItself /\ Looking(n) /\ pc[n] = "connect"  BY DEF Inductive, Connected
<1>2. t \in Node /\ (next[n] # 0 => t = ite[n]) /\ (next[n] = 0 => t = 0) /\ t \in 0 .. NoNode
  BY <1>1, Hosts DEF Target, TypeOK
<1>3. /\ pc' = [pc EXCEPT ![n] = "send_ring"] /\ next' = [next EXCEPT ![n] = t]
      /\ from' = [from EXCEPT ![t] = n]
      /\ UNCHANGED <<list, ite, retry, inbox, myName, faults>>
  BY DEF Connected, Goto
<1>4. n \in 0 .. NoNode  BY Hosts
<1>5. TypeOK' /\ Mail' /\ FindsItself'
  <2>1. pc' \in [Node -> {"connect", "send_ring", "accept", "recv_ring", "send_host", "recv_host",
                          "send_file", "recv_file", "transfer", "exit", "down"}]
    BY <1>1, <1>3 DEF TypeOK
  <2>2. next' \in [Node -> 0 .. NoNode] /\ from' \in [Node -> 0 .. NoNode]
    BY <1>1, <1>2, <1>3, <1>4 DEF TypeOK
  <2>3. TypeOK'  BY <1>1, <1>3, <2>1, <2>2 DEF TypeOK
  <2> QED BY <1>1, <1>3, <2>3 DEF Mail, FindsItself, Calls
<1>6. pc'[n] = "send_ring" /\ next'[n] = t  BY <1>1, <1>3 DEF TypeOK
<1>7. Looking(n)'  BY <1>1, <1>2, <1>3, <1>6, Hosts DEF Looking, Calls
<1>8. Others(n)  BY <1>1, <1>3 DEF Others, TypeOK
<1> QED BY <1>5, <1>7, <1>8, NodeStep

\* A mark on an entry makes it called, or no longer called.
LEMMA MarkedCalls ==
  ASSUME NEW flags \in [Node -> Flag], NEW h \in Node, NEW flag \in Flag
  PROVE  /\ Marked(flags, h, flag) \in [Node -> Flag]
         /\ Calls(Marked(flags, h, flag)) = IF flag = "CALL" THEN Calls(flags) \cup {h}
                                            ELSE Calls(flags) \ {h}
BY DEF Marked, Calls

\* The next candidate is called when nobody is.
Candidate(n) ==
  /\ list' \in [Node -> [Node -> Flag]] /\ ite' \in [Node -> Node] /\ next' \in [Node -> 0 .. NoNode]
  /\ \A k \in Node : k # n => list'[k] = list[k] /\ ite'[k] = ite[k] /\ next'[k] = next[k]
  /\ IF next'[n] = 0 THEN Calls(list'[n]) = {}
     ELSE Calls(list'[n]) = {ite'[n]} /\ ite'[n] \in Client

LEMMA CalledNext ==
  ASSUME Inductive, NEW n \in Node, NEW flags \in [Node -> Flag], Calls(flags) = {},
         NEW h \in Node, HasEntry(h),
         list' = [list EXCEPT ![n] = Marked(flags, h + 1, "CALL")],
         ite' = [ite EXCEPT ![n] = h + 1], next' = [next EXCEPT ![n] = NoNode]
  PROVE  Candidate(n)
<1>1. list \in [Node -> [Node -> Flag]] /\ ite \in [Node -> Node] /\ next \in [Node -> 0 .. NoNode]
  BY DEF Inductive, TypeOK
<1>2. h + 1 \in Node /\ h + 1 \in Client /\ NoNode \in 0 .. NoNode /\ NoNode # 0
  BY RingAssumption DEF HasEntry, Node, Client, NoNode
<1>3. Marked(flags, h + 1, "CALL") \in [Node -> Flag]
        /\ Calls(Marked(flags, h + 1, "CALL")) = {h + 1}
  BY <1>2, MarkedCalls DEF Flag
<1> QED BY <1>1, <1>2, <1>3 DEF Candidate

LEMMA FindNextCalls ==
  ASSUME Inductive, NEW c \in Client, NEW flags \in [Node -> Flag], Calls(flags) = {},
         NEW h \in Node, FindNext(c, flags, h)
  PROVE  Candidate(c)
<1>1. c \in Node  BY Hosts
<1>2. CASE HasEntry(h)  BY <1>1, <1>2, CalledNext DEF FindNext
<1>3. CASE ~HasEntry(h)
  <2>1. list \in [Node -> [Node -> Flag]] /\ ite \in [Node -> Node] /\ next \in [Node -> 0 .. NoNode]
    BY DEF Inductive, TypeOK
  <2>2. 0 \in 0 .. NoNode  BY Hosts
  <2>3. /\ ite' = [ite EXCEPT ![c] = h] /\ list' = [list EXCEPT ![c] = flags]
        /\ next' = [next EXCEPT ![c] = 0]
    BY <1>3 DEF FindNext
  <2>4. list'[c] = flags /\ next'[c] = 0  BY <1>1, <2>1, <2>3
  <2> QED BY <1>1, <2>1, <2>2, <2>3, <2>4 DEF Candidate
<1> QED BY <1>2, <1>3

\* A step that ends with a candidate: to connect to it, or to give up.
LEMMA CandidateStep ==
  ASSUME Inductive, NEW n \in Node, Candidate(n), Mail', FindsItself',
         NEW l \in {"connect", "exit"}, Goto(n, l), UNCHANGED <<from, faults>>,
         myName' \in [Client -> Node],
         NEW r \in 0 .. MAXRETRY, retry' = [retry EXCEPT ![n] = r], l = "connect" => r < MAXRETRY
  PROVE  Inductive'
<1>1. TypeOK  BY DEF Inductive
<1>2. pc' = [pc EXCEPT ![n] = l] /\ pc'[n] = l /\ retry'[n] = r  BY <1>1 DEF Goto, TypeOK
<1>3. Looking(n)'  BY <1>2 DEF Looking, Candidate
<1>4. Others(n)  BY <1>1, <1>2 DEF Others, Candidate, TypeOK
<1>5. TypeOK'
  <2>1. pc' \in [Node -> {"connect", "send_ring", "accept", "recv_ring", "send_host", "recv_host",
                          "send_file", "recv_file", "transfer", "exit", "down"}]
    BY <1>1, <1>2 DEF TypeOK
  <2>2. retry' \in [Node -> 0 .. MAXRETRY]  BY <1>1 DEF TypeOK
  <2> QED BY <1>1, <2>1, <2>2, MailIsTyped DEF TypeOK, Candidate, Mail
<1> QED BY <1>3, <1>4, <1>5, NodeStep

\* The candidate that failed is no longer called.
LEMMA UncalledFailed ==
  ASSUME Inductive, NEW n \in Node, pc[n] \in {"connect", "send_ring"}
  PROVE  /\ ite[n] \in Node /\ Marked(list[n], ite[n], "NOAVIL") \in [Node -> Flag]
         /\ Calls(Marked(list[n], ite[n], "NOAVIL")) = {}
         /\ retry[n] + 1 \in 0 .. MAXRETRY
         /\ ~NoMoreTries(n) => retry[n] + 1 < MAXRETRY
<1>1. ite[n] \in Node /\ list[n] \in [Node -> Flag] /\ retry[n] \in 0 .. MAXRETRY
      /\ retry[n] < MAXRETRY /\ Calls(list[n]) \subseteq {ite[n]}
  BY DEF Inductive, TypeOK, Looking
<1>2. Calls(Marked(list[n], ite[n], "NOAVIL")) = Calls(list[n]) \ {ite[n]}
        /\ Marked(list[n], ite[n], "NOAVIL") \in [Node -> Flag]
  BY <1>1, MarkedCalls DEF Flag
<1> QED BY <1>1, <1>2, RingAssumption DEF NoMoreTries

LEMMA ServerNextStep ==
  ASSUME Inductive, pc[0] \in {"connect", "send_ring"}, ServerNext,
         UNCHANGED <<from, inbox, myName, faults>>
  PROVE  Inductive'
<1> DEFINE flags == Marked(list[0], ite[0], "NOAVIL")
<1>1. 0 \in Node /\ Mail' /\ FindsItself' /\ myName' \in [Client -> Node]
  <2>1. Mail'  BY DEF Inductive, Mail, Calls
  <2>2. FindsItself' /\ myName' \in [Client -> Node]  BY DEF Inductive, FindsItself, TypeOK
  <2> QED BY <2>1, <2>2, Hosts
<1>2. ite[0] \in Node /\ flags \in [Node -> Flag] /\ Calls(flags) = {}
      /\ retry[0] + 1 \in 0 .. MAXRETRY /\ (~NoMoreTries(0) => retry[0] + 1 < MAXRETRY)
  BY <1>1, UncalledFailed
<1>3. CASE HasEntry(ite[0])
  <2>1. /\ list' = [list EXCEPT ![0] = Marked(flags, ite[0] + 1, "CALL")]
        /\ ite' = [ite EXCEPT ![0] = ite[0] + 1] /\ next' = [next EXCEPT ![0] = NoNode]
        /\ retry' = [retry EXCEPT ![0] = retry[0] + 1]
    BY <1>3 DEF ServerNext
  <2>2. Candidate(0)  BY <1>1, <1>2, <1>3, <2>1, CalledNext
  <2>3. PICK l \in {"connect", "exit"} : Goto(0, l) /\ (l = "connect" => ~NoMoreTries(0))
    BY <1>3 DEF ServerNext, Exit
  <2> QED BY <1>1, <1>2, <2>1, <2>2, <2>3, CandidateStep
<1>4. CASE ~HasEntry(ite[0])
  <2>1. "exit" \in Later  BY DEF Later
  <2>2. Goto(0, "exit") /\ list' = [list EXCEPT ![0] = flags] /\ UNCHANGED <<ite, retry, next>>
    BY <1>4 DEF ServerNext, Exit
  <2> QED BY <1>1, <1>2, <2>1, <2>2, LaterStep
<1> QED BY <1>3, <1>4

LEMMA ClientConnectFailsStep ==
  ASSUME Inductive, NEW c \in Client, ClientConnectFails(c)
  PROVE  Inductive'
<1> DEFINE flags == Marked(list[c], ite[c], "NOAVIL")
<1>1. /\ c \in Node /\ pc[c] = "connect"
      /\ UNCHANGED <<from, inbox, myName, faults>>
  BY Hosts DEF ClientConnectFails, NotConnected
<1>2. CASE Exit(c) /\ UNCHANGED <<list, ite, retry, next>>
  BY <1>1, <1>2, LeaveStep
<1>3. CASE /\ FindNext(c, flags, ite[c]) /\ retry' = [retry EXCEPT ![c] = @ + 1]
           /\ IF NoMoreTries(c) THEN Exit(c) ELSE Goto(c, "connect")
  <2>1. ite[c] \in Node /\ flags \in [Node -> Flag] /\ Calls(flags) = {}
        /\ retry[c] + 1 \in 0 .. MAXRETRY /\ (~NoMoreTries(c) => retry[c] + 1 < MAXRETRY)
    BY <1>1, UncalledFailed
  <2>2. Candidate(c)  BY <1>3, <2>1, FindNextCalls
  <2>3. PICK l \in {"connect", "exit"} : Goto(c, l) /\ (l = "connect" => ~NoMoreTries(c))
    BY <1>3 DEF Exit
  <2>4. retry' = [retry EXCEPT ![c] = retry[c] + 1]  BY <1>3
  <2>5. Mail' /\ FindsItself' /\ myName' \in [Client -> Node]
    BY <1>1 DEF Inductive, Mail, FindsItself, TypeOK, Calls
  <2> QED BY <1>1, <2>1, <2>2, <2>3, <2>4, <2>5, CandidateStep
<1> QED BY <1>2, <1>3 DEF ClientConnectFails

\* The entry a client takes for its own is the only one that is called, the entry the
\* packet was sent for.
LEMMA ClientRecvRingStep ==
  ASSUME Inductive, NEW c \in Client, ClientRecvRing(c)
  PROVE  Inductive'
<1> DEFINE flags == Received(c)
<1>1. c \in Node /\ pc[c] = "accept" /\ inbox[c] # <<>> /\ Take(c) /\ Head(inbox[c]).kind = "RING"
  BY Hosts DEF ClientRecvRing, Receives
<1>2. inbox[c] \in Seq(Packets)  BY <1>1 DEF Inductive, Mail
<1>3. 1 \in DOMAIN inbox[c] /\ Head(inbox[c]) = inbox[c][1] /\ inbox[c][1] \in Packets
  BY <1>1, <1>2
<1>4. Calls(flags) = {c} /\ flags \in [Node -> Flag]
  <2>1. Calls(inbox[c][1].flags) = {c}  BY <1>1, <1>3 DEF Inductive, Mail
  <2>2. inbox[c][1].flags \in [Node -> Flag]  BY <1>1, <1>3 DEF Packets, FilePacket
  <2> QED BY <1>3, <2>1, <2>2 DEF Received
<1>5. CallHost(flags) = c
  <2>1. {h \in Node : flags[h] = "CALL"} = {c}  BY <1>4 DEF Calls
  <2> QED BY <1>1, <2>1, MinOfOne DEF CallHost
<1>6. /\ myName' = [myName EXCEPT ![c] = c] /\ Goto(c, "connect")
      /\ FindNext(c, Marked(flags, c, "AVAIL"), c) /\ UNCHANGED <<retry, from, faults>>
  BY <1>5 DEF ClientRecvRing
<1>7. Marked(flags, c, "AVAIL") \in [Node -> Flag] /\ Calls(Marked(flags, c, "AVAIL")) = {}
  BY <1>1, <1>4, MarkedCalls DEF Flag
<1>8. Candidate(c)  BY <1>1, <1>6, <1>7, FindNextCalls
<1>9. Mail'  BY <1>1, TakenMail DEF Inductive
<1>10. myName' \in [Client -> Node] /\ FindsItself'
  BY <1>1, <1>6, Hosts DEF Inductive, TypeOK, FindsItself
<1>11. retry[c] \in 0 .. MAXRETRY /\ retry[c] < MAXRETRY /\ retry' = [retry EXCEPT ![c] = retry[c]]
  BY <1>1, <1>6 DEF Inductive, TypeOK, Looking
<1> QED BY <1>1, <1>6, <1>8, <1>9, <1>10, <1>11, CandidateStep

LEMMA StepInductive == Inductive /\ [Next]_vars => Inductive'
<1> SUFFICES ASSUME Inductive, [Next]_vars PROVE Inductive'  OBVIOUS
<1> USE DEF Later
<1>1. 0 \in Node /\ \A c \in Client : c \in Node  BY Hosts
<1>2. \A n \in Node : list[n] \in [Node -> Flag]  BY DEF Inductive, TypeOK
<1>3. \A n \in Node : HostPacket(list[n]) \in Packets /\ HostPacket(list[n]).kind # "RING"
  BY <1>2 DEF HostPacket, Packets
<1>4. FilePacket \in Packets /\ FilePacket.kind # "RING"  BY DEF FilePacket, Packets
<1>5. CASE ServerStep
  <2>1. CASE Connected(0)  BY <1>1, <2>1, ConnectedStep
  <2>2. CASE ServerConnectFails \/ ServerSendRingLost
    BY <2>2, ServerNextStep DEF ServerConnectFails, ServerSendRingLost, NotConnected
  <2>3. CASE SendRing(0)  BY <1>1, <2>3, SendRingStep
  <2>4. CASE \/ RecvList(0, "recv_ring", "RING", "send_host")
             \/ RecvList(0, "recv_host", "HOST", "send_file") \/ RecvFile(0, "transfer")
    BY <1>1, <2>4, RecvStep
  <2>5. CASE Send(0, "send_host", HostPacket(list[0]), "recv_host")
    BY <1>1, <1>3, <2>5, SendStep
  <2>6. CASE Send(0, "send_file", FilePacket, "recv_file")  BY <1>1, <1>4, <2>6, SendStep
  <2>7. CASE RecvFails(0)  BY <1>1, <2>7, LeaveStep
  <2> QED BY <1>5, <2>1, <2>2, <2>3, <2>4, <2>5, <2>6, <2>7 DEF ServerStep
<1>6. ASSUME NEW c \in Client, ClientStep(c) \/ Crash(c) PROVE Inductive'
  <2>1. CASE Connected(c)  BY <1>1, <2>1, ConnectedStep
  <2>2. CASE ClientRecvRing(c)  BY <2>2, ClientRecvRingStep
  <2>3. CASE ClientConnectFails(c)  BY <2>3, ClientConnectFailsStep
  <2>4. CASE SendRing(c)  BY <1>1, <2>4, SendRingStep
  <2>5. CASE RecvList(c, "recv_host", "HOST", "send_host") \/ RecvFile(c, "send_file")
    BY <1>1, <2>5, RecvStep
  <2>6. CASE ClientSendHost(c)  BY <2>6, SendHostStep
  <2>7. CASE Send(c, "send_file", FilePacket, "transfer")  BY <1>1, <1>4, <2>7, SendStep
  <2>8. CASE RecvFails(c) \/ ClientSendRingLost(c) \/ Crash(c)  BY <1>1, <2>8, LeaveStep
  <2> QED BY <1>6, <2>1, <2>2, <2>3, <2>4, <2>5, <2>6, <2>7, <2>8 DEF ClientStep
<1>7. CASE UNCHANGED vars
  BY <1>7 DEF vars, Inductive, TypeOK, Mail, FindsItself, Looking, Calls
<1> QED BY <1>5, <1>6, <1>7 DEF Next

-----------------------------------------------------------------------------
(***************************************************************************)
(* The lists of the transfer.  HOST packets exist only when the server has *)
(* sent one; from then on its list stays, and every HOST packet and every  *)
(* client that has received one has the same.                              *)
(***************************************************************************)
Final == pc[0] \in {"recv_host", "send_file", "recv_file", "transfer", "exit"}
HasFinal == {"send_host", "recv_file", "send_file", "transfer"}
Agreed ==
  /\ \A n \in Node : \A i \in DOMAIN inbox[n] :
       inbox[n][i].kind = "HOST" => Final /\ inbox[n][i].flags = list[0]
  /\ \A c \in Client : pc[c] \in HasFinal => Final /\ list[c] = list[0]

LEMMA InitAgreed == Init => Agreed
<1> SUFFICES ASSUME Init PROVE Agreed  OBVIOUS
<1>1. \A c \in Client : c \in Node /\ pc[c] \notin HasFinal
  BY Hosts DEF Init, HasFinal
<1> QED BY <1>1 DEF Init, Agreed

\* A packet of another kind, or none, was sent, and a client has got the final list
\* only when it has received it.
LEMMA KeepAgreed ==
  ASSUME Agreed,
         \A n \in Node : \A i \in DOMAIN inbox'[n] :
           \/ \E j \in DOMAIN inbox[n] : inbox'[n][i] = inbox[n][j]
           \/ inbox'[n][i].kind = "HOST" => Final' /\ inbox'[n][i].flags = list'[0],
         Final => Final' /\ list'[0] = list[0],
         \A c \in Client : pc'[c] \in HasFinal =>
           \/ pc[c] \in HasFinal /\ list'[c] = list[c]
           \/ Final' /\ list'[c] = list'[0]
  PROVE  Agreed'
<1>1. ASSUME NEW n \in Node, NEW i \in DOMAIN inbox'[n], inbox'[n][i].kind = "HOST"
      PROVE  Final' /\ inbox'[n][i].flags = list'[0]
  BY <1>1 DEF Agreed
<1>2. ASSUME NEW c \in Client, pc'[c] \in HasFinal
      PROVE  Final' /\ list'[c] = list'[0]
  BY <1>2 DEF Agreed
<1> QED BY <1>1, <1>2 DEF Agreed

LEMMA ServerAgreed == Inductive /\ Agreed /\ ServerStep => Agreed'
<1> SUFFICES ASSUME Inductive, Agreed, ServerStep PROVE Agreed'  OBVIOUS
<1>1. 0 \in Node /\ TypeOK /\ Mail /\ \A c \in Client : c \in Node /\ c # 0
  BY Hosts DEF Inductive
<1>2. \A c \in Client : pc'[c] = pc[c] /\ list'[c] = list[c]
  BY <1>1 DEF ServerStep, Connected, ServerConnectFails, ServerNext, SendRing, ServerSendRingLost,
     RecvList, Send, RecvFile, RecvFails, Goto, Exit, TypeOK
<1>3. CASE Connected(0) \/ ServerConnectFails \/ ServerSendRingLost
  <2>1. ~Final /\ inbox' = inbox
    BY <1>3 DEF Connected, ServerConnectFails, NotConnected, ServerSendRingLost, Final
  <2> QED BY <1>2, <2>1, KeepAgreed
<1>4. CASE SendRing(0)
  <2>1. ~Final /\ Deliver(0, RingPacket(list[0]))  BY <1>4 DEF SendRing, Final
  <2>2. RingPacket(list[0]) \in Packets /\ RingPacket(list[0]).kind # "HOST"
    BY <1>1 DEF TypeOK, RingPacket, Packets
  <2> QED BY <1>1, <1>2, <2>1, <2>2, Sent, KeepAgreed
<1>5. CASE RecvList(0, "recv_ring", "RING", "send_host")
  <2>1. ~Final /\ inbox[0] # <<>> /\ Take(0)  BY <1>5 DEF RecvList, Receives, Final
  <2> QED BY <1>1, <1>2, <2>1, Taken, KeepAgreed
<1>6. CASE Send(0, "send_host", HostPacket(list[0]), "recv_host")
  <2>1. ~Final /\ list' = list  BY <1>6 DEF Send, Final
  <2>2. CASE Deliver(0, HostPacket(list[0])) /\ Goto(0, "recv_host")
    <3>1. HostPacket(list[0]) \in Packets /\ HostPacket(list[0]).flags = list[0]
      BY <1>1 DEF TypeOK, HostPacket, Packets
    <3>2. Final'  BY <1>1, <2>2 DEF Final, Goto, TypeOK
    <3> QED BY <1>1, <1>2, <2>1, <2>2, <3>1, <3>2, Sent, KeepAgreed
  <2>3. CASE inbox' = inbox  BY <1>2, <2>1, <2>3, KeepAgreed
  <2> QED BY <1>6, <2>2, <2>3 DEF Send
<1>7. CASE RecvList(0, "recv_host", "HOST", "send_file")
  <2>1. /\ inbox[0] # <<>> /\ Take(0) /\ Head(inbox[0]).kind = "HOST" /\ pc' = [pc EXCEPT ![0] = "send_file"]
        /\ list' = [list EXCEPT ![0] = Received(0)]
    BY <1>7 DEF RecvList, Receives, Goto
  <2>2. inbox[0] \in Seq(Packets)  BY <1>1 DEF Mail
  <2>3. 1 \in DOMAIN inbox[0] /\ Head(inbox[0]) = inbox[0][1]  BY <2>1, <2>2
  <2>4. Received(0) = list[0]  BY <1>1, <2>1, <2>3 DEF Agreed, Received
  <2>5. list'[0] = list[0] /\ Final'  BY <1>1, <2>1, <2>4 DEF TypeOK, Final
  <2> QED BY <1>1, <1>2, <2>1, <2>5, Taken, KeepAgreed
<1>8. CASE Send(0, "send_file", FilePacket, "recv_file")
  <2>1. list' = list /\ Final'  BY <1>1, <1>8 DEF Send, Final, Goto, Exit, TypeOK
  <2>2. CASE Deliver(0, FilePacket)
    <3>1. FilePacket \in Packets /\ FilePacket.kind # "HOST"  BY DEF FilePacket, Packets
    <3> QED BY <1>1, <1>2, <2>1, <2>2, <3>1, Sent, KeepAgreed
  <2>3. CASE inbox' = inbox  BY <1>2, <2>1, <2>3, KeepAgreed
  <2> QED BY <1>8, <2>2, <2>3 DEF Send
<1>9. CASE RecvFile(0, "transfer")
  <2>1. list' = list /\ Final' /\ inbox[0] # <<>> /\ Take(0)
    BY <1>1, <1>9 DEF RecvFile, Receives, Final, Goto, TypeOK
  <2> QED BY <1>1, <1>2, <2>1, Taken, KeepAgreed
<1>10. CASE RecvFails(0)
  <2>1. list' = list /\ Final' /\ inbox' = inbox
    BY <1>1, <1>10 DEF RecvFails, Final, Goto, Exit, TypeOK
  <2> QED BY <1>2, <2>1, KeepAgreed
<1> QED BY <1>3, <1>4, <1>5, <1>6, <1>7, <1>8, <1>9, <1>10 DEF ServerStep

LEMMA ClientAgreed ==
  ASSUME Inductive, Agreed, NEW c \in Client, ClientStep(c) \/ Crash(c)
  PROVE  Agreed'
<1>1. c \in Node /\ 0 \in Node /\ c # 0 /\ TypeOK /\ Mail /\ \A d \in Client : d \in Node
  BY Hosts DEF Inductive
<1>2. /\ pc'[0] = pc[0] /\ list'[0] = list[0]
      /\ \A d \in Client : d # c => pc'[d] = pc[d] /\ list'[d] = list[d]
  <2>1. \E l : pc' = [pc EXCEPT ![c] = l]
    BY DEF ClientStep, Connected, ClientConnectFails, SendRing, ClientSendRingLost,
       ClientRecvRing, RecvList, Send, ClientSendHost, RecvFile, RecvFails, Crash, Goto, Exit
  <2>2. list' = list \/ \E flags : list' = [list EXCEPT ![c] = flags]
    <3>1. CASE ClientConnectFails(c) \/ ClientRecvRing(c)
      BY <3>1 DEF ClientConnectFails, ClientRecvRing, FindNext
    <3>2. CASE RecvList(c, "recv_host", "HOST", "send_host")  BY <3>2 DEF RecvList
    <3>3. CASE ~(ClientConnectFails(c) \/ ClientRecvRing(c) \/ RecvList(c, "recv_host", "HOST", "send_host"))
      BY <3>3 DEF ClientStep, Connected, SendRing, ClientSendRingLost, Send, ClientSendHost, RecvFile, RecvFails, Crash
    <3> QED BY <3>1, <3>2, <3>3
  <2> QED BY <1>1, <2>1, <2>2 DEF TypeOK
<1>3. Final' <=> Final  BY <1>2 DEF Final
<1>4. CASE \/ Connected(c) \/ ClientConnectFails(c) \/ ClientSendRingLost(c) \/ RecvFails(c) \/ Crash(c)
  <2>1. pc'[c] \notin HasFinal /\ inbox' = inbox
    BY <1>1, <1>4 DEF Connected, ClientConnectFails, ClientSendRingLost, RecvFails, Crash,
       Goto, Exit, TypeOK, HasFinal
  <2> QED BY <1>2, <1>3, <2>1, KeepAgreed
<1>5. CASE ClientRecvRing(c)
  <2>1. pc'[c] \notin HasFinal /\ inbox[c] # <<>> /\ Take(c)
    BY <1>1, <1>5 DEF ClientRecvRing, Receives, Goto, TypeOK, HasFinal
  <2> QED BY <1>1, <1>2, <1>3, <2>1, Taken, KeepAgreed
<1>6. CASE SendRing(c)
  <2>1. pc'[c] \notin HasFinal /\ Deliver(c, RingPacket(list[c]))
    BY <1>1, <1>6 DEF SendRing, Goto, TypeOK, HasFinal
  <2>2. RingPacket(list[c]) \in Packets /\ RingPacket(list[c]).kind # "HOST"
    BY <1>1 DEF TypeOK, RingPacket, Packets
  <2> QED BY <1>1, <1>2, <1>3, <2>1, <2>2, Sent, KeepAgreed
<1>7. CASE RecvList(c, "recv_host", "HOST", "send_host")
  <2>1. /\ inbox[c] # <<>> /\ Take(c) /\ Head(inbox[c]).kind = "HOST"
        /\ list' = [list EXCEPT ![c] = Received(c)]
    BY <1>7 DEF RecvList, Receives
  <2>2. inbox[c] \in Seq(Packets)  BY <1>1 DEF Mail
  <2>3. 1 \in DOMAIN inbox[c] /\ Head(inbox[c]) = inbox[c][1]  BY <2>1, <2>2
  <2>4. Received(c) = list[0] /\ Final  BY <1>1, <2>1, <2>3 DEF Agreed, Received
  <2>5. list'[c] = list[0]  BY <1>1, <2>1, <2>4 DEF TypeOK
  <2> QED BY <1>1, <1>2, <1>3, <2>1, <2>4, <2>5, Taken, KeepAgreed
<1>8. CASE ClientSendHost(c)
  <2>1. Final /\ list[c] = list[0] /\ list' = list /\ pc[c] \in HasFinal
    BY <1>8 DEF ClientSendHost, Agreed, HasFinal
  <2>2. CASE Deliver(c, HostPacket(list[c]))
    <3>1. HostPacket(list[c]) \in Packets /\ HostPacket(list[c]).flags = list'[0]
      BY <1>1, <2>1 DEF TypeOK, HostPacket, Packets
    <3> QED BY <1>1, <1>2, <1>3, <2>1, <2>2, <3>1, Sent, KeepAgreed
  <2>3. CASE inbox' = inbox  BY <1>2, <1>3, <2>1, <2>3, KeepAgreed
  <2> QED BY <1>8, <2>2, <2>3 DEF ClientSendHost
<1>9. CASE RecvFile(c, "send_file")
  <2>1. pc[c] \in HasFinal /\ list' = list /\ inbox[c] # <<>> /\ Take(c)
    BY <1>9 DEF RecvFile, Receives, HasFinal
  <2> QED BY <1>1, <1>2, <1>3, <2>1, Taken, KeepAgreed
<1>10. CASE Send(c, "send_file", FilePacket, "transfer")
  <2>1. pc[c] \in HasFinal /\ list' = list  BY <1>10 DEF Send, HasFinal
  <2>2. CASE Deliver(c, FilePacket)
    <3>1. FilePacket \in Packets /\ FilePacket.kind # "HOST"  BY DEF FilePacket, Packets
    <3> QED BY <1>1, <1>2, <1>3, <2>1, <2>2, <3>1, Sent, KeepAgreed
  <2>3. CASE inbox' = inbox  BY <1>2, <1>3, <2>1, <2>3, KeepAgreed
  <2> QED BY <1>10, <2>2, <2>3 DEF Send
<1> QED BY <1>4, <1>5, <1>6, <1>7, <1>8, <1>9, <1>10 DEF ClientStep

LEMMA StepAgreed == Inductive /\ Agreed /\ [Next]_vars => Agreed'
<1> SUFFICES ASSUME Inductive, Agreed, [Next]_vars PROVE Agreed'  OBVIOUS
<1>1. CASE UNCHANGED vars  BY <1>1 DEF vars, Agreed, Final
<1> QED BY <1>1, ServerAgreed, ClientAgreed DEF Next

LEMMA InductiveAlways == Spec => []Inductive
BY InitInductive, StepInductive, PTL DEF Spec

-----------------------------------------------------------------------------
(***************************************************************************)
(* The ring.  It is built by one node at a time: the one that seeks its    *)
(* next host, or the one that the RING packet waits for, until the server  *)
(* has got it back.  The members, the hosts marked AVAIL so far, are       *)
(* linked in the order of the list up to the last; the entry q after those *)
(* that are decided is called next.                                        *)
(***************************************************************************)
Seeks(n) == pc[n] \in {"connect", "send_ring"}
Joined == pc[0] \in {"send_host", "recv_host", "send_file", "recv_file", "transfer"}
HasRing(n) == \E i \in DOMAIN inbox[n] : inbox[n][i].kind = "RING"

OneRing ==
  /\ \A n \in Node : Seeks(n) =>
       ~Joined /\ \A m \in Node : ~HasRing(m) /\ (Seeks(m) => m = n)
  /\ Joined => \A m \in Node : ~HasRing(m)
  /\ \A n, m \in Node : \A i \in DOMAIN inbox[n], j \in DOMAIN inbox[m] :
       inbox[n][i].kind = "RING" /\ inbox[m][j].kind = "RING" => n = m /\ i = j

Members(flags) == {0} \cup {c \in Client : flags[c] = "AVAIL"}

Linked(nexts, froms, ring, last, q) ==
  /\ last \in ring /\ last < q /\ \A m \in ring : m <= last
  /\ \A n, m \in ring :
       n < m /\ (\A k \in ring : k <= n \/ m <= k) => nexts[n] = m /\ froms[m] = n

\* With no fault who is passed over is down, and who is not called yet only waits
Decided(states, ring, q) ==
  \A c \in Client :
    /\ c \in ring => states[c] # "down"
    /\ c \notin ring /\ c < q => states[c] = "down"
    /\ c >= q => states[c] \in {"accept", "down"}

Place(n) == IF next[n] = 0 THEN NoNode ELSE ite[n]
Seeking(n) ==
  /\ Linked(next, from, Members(list[n]), n, Place(n))
  /\ faults = {} => Decided(pc, Members(list[n]), Place(n))
  /\ n = 0 => next[0] # 0
  /\ pc[n] = "send_ring" => from[next[n]] = n
Called(n) == IF n = 0 THEN NoNode ELSE n
Passed(n, flags) ==
  /\ from[n] \in Node /\ next[from[n]] = n
  /\ Linked(next, from, Members(flags), from[n], Called(n))
  /\ faults = {} => Decided(pc, Members(flags), Called(n))

Building ==
  /\ \A n \in Node : Seeks(n) => Seeking(n)
  /\ \A n \in Node : \A i \in DOMAIN inbox[n] : inbox[n][i].kind = "RING" => Passed(n, inbox[n][i].flags)
  /\ Joined => Passed(0, list[0])

\* With no fault a client that somebody is connected to will get the packet
Awaited(c) ==
  pc[c] = "accept" /\ from[c] # NoNode =>
    /\ next[from[c]] = c
    /\ pc[from[c]] = "send_ring" \/ HasRing(c)
Ring == OneRing /\ Building /\ (faults = {} => \A c \in Client : Awaited(c))

LEMMA MembersTyped ==
  ASSUME NEW flags
  PROVE  /\ 0 \in Members(flags) /\ Members(flags) \subseteq Node
         /\ \A m \in Members(flags) : m \in Nat /\ (m # 0 => m \in Client /\ m > 0)
BY Hosts, RingAssumption DEF Members, Node, Client

LEMMA MarkedMembers ==
  ASSUME NEW flags \in [Node -> Flag], NEW h \in Client, NEW flag \in Flag
  PROVE  Members(Marked(flags, h, flag)) =
           IF flag = "AVAIL" THEN Members(flags) \cup {h} ELSE Members(flags) \ {h}
BY Hosts DEF Members, Marked, Flag

\* The links stay when only the last member goes on to another host.
LEMMA LinkedKept ==
  ASSUME NEW flags, NEW nexts, NEW froms, NEW nexts2, NEW froms2, NEW last, NEW q, NEW r \in Nat,
         Linked(nexts, froms, Members(flags), last, q), last < r,
         \A m \in Members(flags) : m # last => nexts2[m] = nexts[m],
         \A m \in Members(flags) : m # 0 => froms2[m] = froms[m]
  PROVE  Linked(nexts2, froms2, Members(flags), last, r)
<1>1. \A n, m \in Members(flags) : n < m => n # last /\ m # 0
  BY MembersTyped DEF Linked
<1> QED BY <1>1 DEF Linked

\* The host that was called becomes the last member.
LEMMA LinkedExtended ==
  ASSUME NEW flags, NEW ring, NEW nexts, NEW froms, NEW nexts2, NEW last, NEW c \in Client,
         Linked(nexts, froms, Members(flags), last, c), nexts[last] = c, froms[c] = last,
         \A m \in Members(flags) : nexts2[m] = nexts[m], ring = Members(flags) \cup {c}
  PROVE  Linked(nexts2, froms, ring, c, c + 1)
<1>1. \A m \in Members(flags) : m \in Nat /\ m <= last  BY MembersTyped DEF Linked
<1>2. c \in Nat /\ last \in Nat /\ last < c  BY <1>1, RingAssumption DEF Linked, Client
<1>3. ASSUME NEW n \in ring, NEW m \in ring, n < m, \A k \in ring : k <= n \/ m <= k
      PROVE  nexts2[n] = m /\ froms[m] = n
  <2>1. n \in Members(flags)  BY <1>1, <1>2, <1>3
  <2>2. CASE m = c
    <3>1. last \in Members(flags)  BY DEF Linked
    <3>2. n = last  BY <1>1, <1>2, <1>3, <2>1, <2>2, <3>1
    <3> QED BY <2>1, <2>2, <3>2
  <2>3. CASE m # c
    <3>1. m \in Members(flags) /\ \A k \in Members(flags) : k <= n \/ m <= k  BY <1>3, <2>3
    <3>2. nexts[n] = m /\ froms[m] = n  BY <1>3, <2>1, <3>1 DEF Linked
    <3> QED BY <2>1, <3>2
  <2> QED BY <2>2, <2>3
<1>4. \A m \in ring : m <= c  BY <1>1, <1>2
<1> QED BY <1>2, <1>3, <1>4 DEF Linked

\* The place q is decided: the host is down, or it has become a member.
LEMMA DecidedNext ==
  ASSUME NEW states, NEW states2, NEW flags, NEW ring, NEW q \in Client,
         Decided(states, Members(flags), q),
         \A c \in Client : c # q => states2[c] = states[c],
         \/ ring = Members(flags) /\ q \notin ring /\ states2[q] = "down"
         \/ ring = Members(flags) \cup {q} /\ states2[q] # "down"
  PROVE  Decided(states2, ring, q + 1)
<1>1. \A c \in Client : c \in Nat  BY DEF Client
<1>2. ASSUME NEW c \in Client
      PROVE  /\ c \in ring => states2[c] # "down"
             /\ c \notin ring /\ c < q + 1 => states2[c] = "down"
             /\ c >= q + 1 => states2[c] \in {"accept", "down"}
  <2>1. CASE c = q  BY <1>1, <2>1
  <2>2. CASE c # q
    <3>1. (c < q + 1 <=> c < q) /\ (c >= q + 1 => c >= q)  BY <1>1, <2>2
    <3>2. c \in ring <=> c \in Members(flags)  BY <2>2
    <3> QED BY <2>2, <3>1, <3>2 DEF Decided
  <2> QED BY <2>1, <2>2
<1> QED BY <1>2 DEF Decided

LEMMA DecidedKept ==
  ASSUME NEW states, NEW states2, NEW flags, NEW q,
         Decided(states, Members(flags), q),
         \A c \in Client : states[c] \in {"accept", "down"} \/ states2[c] \in {"accept", "down"} =>
           states2[c] = states[c]
  PROVE  Decided(states2, Members(flags), q)
BY DEF Decided

LEMMA InitRing == Init => Ring
<1> SUFFICES ASSUME Init PROVE Ring  OBVIOUS
<1>1. 0 \in Node /\ 1 \in Node /\ \A c \in Client : c \in Node /\ c \in Nat /\ c >= 1
  BY Hosts DEF Client
<1>2. Seeks(0) /\ ~Joined /\ \A n \in Node : ~HasRing(n) /\ (Seeks(n) => n = 0)
  <2>1. \A n \in Node : n = 0 \/ n \in Client  BY Hosts
  <2> QED BY <1>1, <2>1 DEF Init, Seeks, Joined, HasRing
<1>3. OneRing  BY <1>2 DEF OneRing, HasRing
<1>4. Members(list[0]) = {0} /\ Place(0) = 1 /\ next[0] # 0
  <2>1. \A c \in Client : list[0][c] # "AVAIL"  BY <1>1 DEF Init, InitialList
  <2> QED BY <1>1, <2>1, Hosts DEF Init, Members, Place
<1>5. Seeking(0)
  <2>1. Linked(next, from, Members(list[0]), 0, Place(0))  BY <1>4 DEF Linked
  <2>2. \A c \in Client : pc[c] \in {"accept", "down"}  BY <1>1 DEF Init
  <2>3. Decided(pc, Members(list[0]), Place(0))  BY <1>1, <1>4, <2>2 DEF Decided
  <2> QED BY <1>4, <2>1, <2>3 DEF Seeking, Init
<1>6. Building  BY <1>2, <1>5 DEF Building, HasRing
<1>7. \A c \in Client : Awaited(c)  BY <1>1 DEF Init, Awaited
<1> QED BY <1>3, <1>6, <1>7 DEF Ring

LEMMA SomeNode == \A a \in 0 .. NoNode : a # NoNode => a \in Node
BY RingAssumption DEF NoNode, Node

(***************************************************************************)
(* Who seeks is the only one to build the ring, and so is a host that the  *)
(* RING packet waits for.                                                  *)
(***************************************************************************)
LEMMA SeekerAlone ==
  ASSUME OneRing, NEW n \in Node, Seeks(n)
  PROVE  /\ ~Joined /\ \A m \in Node : ~HasRing(m) /\ (Seeks(m) => m = n)
         /\ \A m \in Node : \A i \in DOMAIN inbox[m] : inbox[m][i].kind # "RING"
BY DEF OneRing, HasRing

LEMMA CallIsAlone ==
  ASSUME OneRing, Mail, NEW n \in Node, inbox[n] # <<>>, Head(inbox[n]).kind = "RING", Take(n)
  PROVE  /\ ~Joined /\ \A m \in Node : ~Seeks(m) /\ (m # n => ~HasRing(m))
         /\ \A m \in Node : \A i \in DOMAIN inbox'[m] : inbox'[m][i].kind # "RING"
<1>1. inbox[n] \in Seq(Packets)  BY DEF Mail
<1>2. 1 \in DOMAIN inbox[n] /\ inbox[n][1].kind = "RING"  BY <1>1
<1>3. HasRing(n)  BY <1>2 DEF HasRing
<1>4. \A m \in Node : \A i \in DOMAIN inbox[m] : inbox[m][i].kind = "RING" => m = n /\ i = 1
  BY <1>2 DEF OneRing
<1>5. inbox'[n] = Tail(inbox[n]) /\ \A m \in Node : m # n => inbox'[m] = inbox[m]
  BY DEF Take, Mail
<1>6. \A i \in DOMAIN inbox'[n] : i + 1 \in DOMAIN inbox[n] /\ i + 1 # 1 /\ inbox'[n][i] = inbox[n][i + 1]
  BY <1>1, <1>5
<1>7. ~Joined /\ \A m \in Node : ~Seeks(m)  BY <1>3 DEF OneRing
<1>8. \A m \in Node : m # n => ~HasRing(m)  BY <1>4 DEF HasRing
<1>9. \A m \in Node : \A i \in DOMAIN inbox'[m] : inbox'[m][i].kind # "RING"
  <2> SUFFICES ASSUME NEW m \in Node, NEW i \in DOMAIN inbox'[m]
               PROVE  inbox'[m][i].kind # "RING"
    OBVIOUS
  <2>1. CASE m = n  BY <1>4, <1>6, <2>1
  <2>2. CASE m # n  BY <1>4, <1>5, <2>2
  <2> QED BY <2>1, <2>2
<1> QED BY <1>7, <1>8, <1>9

\* A seeker that goes on seeking, or gives up.
LEMMA SeekStep ==
  ASSUME Ring, NEW n \in Node, Seeks(n), UNCHANGED <<inbox, faults>>,
         \A m \in Node : m # n => pc'[m] = pc[m], pc'[n] \in {"connect", "send_ring", "exit"},
         Seeks(n)' => Seeking(n)',
         faults = {} => \A c \in Client : Awaited(c)'
  PROVE  Ring'
<1>1. OneRing /\ 0 \in Node  BY Hosts DEF Ring
<1>2. \A m \in Node : Seeks(m)' => m = n  BY <1>1, SeekerAlone DEF Seeks
<1>3. ~Joined'  BY <1>1, SeekerAlone DEF Joined
<1>4. \A m \in Node : \A i \in DOMAIN inbox'[m] : inbox'[m][i].kind # "RING"  BY <1>1, SeekerAlone
<1>5. \A m \in Node : ~HasRing(m)'  BY <1>4 DEF HasRing
<1>6. OneRing'  BY <1>2, <1>3, <1>4, <1>5 DEF OneRing
<1>7. Building'  BY <1>2, <1>3, <1>4 DEF Building
<1> QED BY <1>6, <1>7 DEF Ring

\* Who waits for the RING packet still waits for it when another seeker goes on.
LEMMA StillAwaited ==
  ASSUME Inductive, OneRing, NEW n \in Node, Seeks(n), UNCHANGED <<inbox, from>>,
         \A m \in Node : m # n => pc'[m] = pc[m] /\ next'[m] = next[m], pc'[n] # "accept",
         NEW c \in Client, Awaited(c),
         pc[c] = "accept" /\ from[c] = n /\ next[n] = c => pc[n] # "send_ring"
  PROVE  Awaited(c)'
<1> SUFFICES ASSUME pc'[c] = "accept", from'[c] # NoNode
             PROVE  next'[from'[c]] = c /\ (pc'[from'[c]] = "send_ring" \/ HasRing(c)')
  BY DEF Awaited
<1> DEFINE a == from[c]
<1>1. c \in Node /\ c # n /\ pc[c] = "accept" /\ ~HasRing(c)  BY Hosts, SeekerAlone
<1>2. a \in Node  BY <1>1, SomeNode DEF Inductive, TypeOK
<1>3. next[a] = c /\ pc[a] = "send_ring"  BY <1>1 DEF Awaited
<1>4. a # n  BY <1>1, <1>3
<1> QED BY <1>2, <1>3, <1>4

LEMMA ConnectedRing ==
  ASSUME Inductive, Ring, NEW n \in Node, Connected(n)
  PROVE  Ring'
<1> DEFINE t == Target(n)
           q == Place(n)
<1>1. /\ TypeOK /\ Looking(n) /\ pc[n] = "connect" /\ Seeks(n) /\ OneRing /\ Building
      /\ pc' = [pc EXCEPT ![n] = "send_ring"] /\ next' = [next EXCEPT ![n] = t]
      /\ from' = [from EXCEPT ![t] = n] /\ UNCHANGED <<list, ite, inbox, faults>>
  BY DEF Inductive, Ring, Connected, Seeks, Goto
<1>2. Seeking(n)  BY <1>1 DEF Building
<1>3. /\ t \in Node /\ (next[n] = 0 => t = 0 /\ q = NoNode)
      /\ (next[n] # 0 => t = ite[n] /\ q = ite[n] /\ t \in Client /\ t # 0)
  BY <1>1, Hosts DEF Looking, Target, Place
<1>4. Place(n)' = q
  <2>1. next'[n] = t /\ ite'[n] = ite[n]  BY <1>1 DEF TypeOK
  <2> QED BY <1>3, <2>1 DEF Place
<1>5. Linked(next, from, Members(list[n]), n, q) /\ n < q /\ q \in Nat
  BY <1>2, <1>3, RingAssumption DEF Seeking, Linked, NoNode, Client
<1>6. \A m \in Members(list[n]) : (m # n => next'[m] = next[m]) /\ (m # 0 => from'[m] = from[m])
  <2> SUFFICES ASSUME NEW m \in Members(list[n])
               PROVE  (m # n => next'[m] = next[m]) /\ (m # 0 => from'[m] = from[m])
    OBVIOUS
  <2>1. m \in Node /\ m \in Nat /\ m <= n /\ n \in Nat
    BY <1>5, MembersTyped, RingAssumption DEF Linked, Node
  <2>2. m # 0 => m # t  BY <1>3, <1>5, <2>1
  <2>3. next \in [Node -> 0 .. NoNode] /\ from \in [Node -> 0 .. NoNode]  BY <1>1 DEF TypeOK
  <2> QED BY <1>1, <1>3, <2>1, <2>2, <2>3
<1>7. Linked(next', from', Members(list[n]), n, q)  BY <1>5, <1>6, LinkedKept
<1>8. faults = {} => Decided(pc', Members(list[n]), q)
  <2>1. \A c \in Client : pc[c] \in {"accept", "down"} \/ pc'[c] \in {"accept", "down"} => pc'[c] = pc[c]
    BY <1>1, Hosts DEF TypeOK
  <2> QED BY <1>2, <2>1, DecidedKept DEF Seeking
<1>9. from'[next'[n]] = n /\ next'[n] = t  BY <1>1, <1>3 DEF TypeOK
<1>10. Seeking(n)'
  <2>1. n = 0 => next'[0] # 0  BY <1>2, <1>3, <1>9 DEF Seeking
  <2> QED BY <1>1, <1>4, <1>7, <1>8, <1>9, <2>1 DEF Seeking
<1>11. ASSUME faults = {}, NEW c \in Client PROVE Awaited(c)'
  <2>1. c \in Node /\ from'[c] = (IF c = t THEN n ELSE from[c]) /\ Awaited(c) /\ ~HasRing(c)
    BY <1>1, <1>11, SeekerAlone, Hosts DEF TypeOK, Ring
  <2>2. CASE c = t  BY <1>1, <1>9, <2>1, <2>2 DEF Awaited, TypeOK
  <2>3. CASE c # t
    <3> SUFFICES ASSUME pc'[c] = "accept", from'[c] # NoNode
                 PROVE  next'[from'[c]] = c /\ pc'[from'[c]] = "send_ring"
      BY DEF Awaited
    <3>1. c # n /\ pc[c] = "accept" /\ from'[c] = from[c]  BY <1>1, <2>1, <2>3 DEF TypeOK
    <3>2. next[from[c]] = c /\ pc[from[c]] = "send_ring"  BY <2>1, <3>1 DEF Awaited
    <3>3. from[c] \in Node /\ from[c] # n
      <4>1. from[c] \in 0 .. NoNode  BY <1>1, <2>1 DEF TypeOK
      <4> QED BY <1>1, <3>1, <3>2, <4>1, SomeNode
    <3> QED BY <1>1, <3>1, <3>2, <3>3 DEF TypeOK
  <2> QED BY <2>2, <2>3
<1> QED
  <2>1. pc'[n] = "send_ring" /\ \A m \in Node : m # n => pc'[m] = pc[m]  BY <1>1 DEF TypeOK
  <2> QED BY <1>1, <1>10, <1>11, <2>1, SeekStep

\* The next host is down: the one behind it is called.
LEMMA PassedOver ==
  ASSUME Inductive, Ring, NEW n \in Node, Seeks(n), next[n] # 0, UNCHANGED <<from, faults>>,
         \A m \in Node : m # n => pc'[m] = pc[m] /\ next'[m] = next[m],
         pc'[n] \notin {"accept", "down"},
         Members(list'[n]) = Members(list[n]) \ {ite[n], ite[n] + 1}, Place(n)' = ite[n] + 1,
         faults = {} => Gone(ite[n])
  PROVE  /\ Linked(next', from', Members(list'[n]), n, Place(n)')
         /\ faults' = {} => Decided(pc', Members(list'[n]), Place(n)')
<1> DEFINE h == ite[n]
<1>1. Seeking(n) /\ Place(n) = h /\ h \in Client /\ h \in Nat
  BY DEF Ring, Building, Place, Inductive, Looking, Seeks, Client
<1>2. Linked(next, from, Members(list[n]), n, h) /\ (faults = {} => Decided(pc, Members(list[n]), h))
  BY <1>1 DEF Seeking
<1>3. n < h /\ n \in Nat /\ \A m \in Members(list[n]) : m \in Nat /\ m <= n /\ m < h
  BY <1>1, <1>2, MembersTyped, RingAssumption DEF Linked, Node
<1>4. Members(list'[n]) = Members(list[n]) /\ h \notin Members(list[n])  BY <1>1, <1>3
<1>5. Linked(next', from', Members(list'[n]), n, Place(n)')
  <2>1. \A m \in Members(list[n]) : (m # n => next'[m] = next[m]) /\ from'[m] = from[m]
    BY MembersTyped
  <2>2. h + 1 \in Nat /\ n < h + 1  BY <1>1, <1>3
  <2>3. Linked(next', from', Members(list[n]), n, h + 1)  BY <1>2, <2>1, <2>2, LinkedKept
  <2> QED BY <1>4, <2>3
<1>6. ASSUME faults = {} PROVE Decided(pc', Members(list'[n]), Place(n)')
  <2>1. h \in Node /\ pc[h] = "down"
    <3>1. pc[h] \in {"accept", "down"}  BY <1>1, <1>2, <1>6 DEF Decided
    <3> QED BY <1>1, <1>6, <3>1, Hosts DEF Gone
  <2>2. pc'[h] = "down"
    <3>1. h # n  BY <1>1, <1>3
    <3> QED BY <2>1, <3>1
  <2>3. \A c \in Client : (c = n => pc[c] \notin {"accept", "down"}) /\ c \in Node
    BY Hosts DEF Seeks
  <2>4. Decided(pc', Members(list[n]), h)
    <3>1. \A c \in Client : pc[c] \in {"accept", "down"} \/ pc'[c] \in {"accept", "down"} => pc'[c] = pc[c]
      BY <2>3
    <3> QED BY <1>2, <1>6, <3>1, DecidedKept
  <2>5. Decided(pc', Members(list[n]), h + 1)  BY <1>1, <1>4, <2>2, <2>4, DecidedNext
  <2> QED BY <1>4, <2>5
<1> QED BY <1>5, <1>6

LEMMA ServerNextRing ==
  ASSUME Inductive, Ring, Seeks(0), ServerNext, UNCHANGED <<from, inbox, myName, faults>>,
         \/ pc[0] = "connect" /\ Gone(Target(0))
         \/ pc[0] = "send_ring" /\ MayFail(0)
  PROVE  Ring'
<1> DEFINE h == ite[0]
<1>1. /\ 0 \in Node /\ TypeOK /\ Looking(0) /\ Seeking(0) /\ OneRing /\ next[0] # 0
      /\ h \in Client /\ h \in Node /\ list[0] \in [Node -> Flag]
  BY Hosts DEF Inductive, TypeOK, Ring, Building, Looking, Seeks, Seeking
<1>2. /\ \A m \in Node : m # 0 => pc'[m] = pc[m] /\ next'[m] = next[m]
      /\ pc'[0] \in {"connect", "exit"}
  BY <1>1 DEF ServerNext, Exit, Goto, TypeOK
<1>3. ASSUME pc'[0] = "connect"
      PROVE  /\ HasEntry(h) /\ list'[0] = Marked(Marked(list[0], h, "NOAVIL"), h + 1, "CALL")
             /\ next'[0] = NoNode /\ ite'[0] = h + 1
  <2>1. HasEntry(h)  BY <1>1, <1>3 DEF ServerNext, Exit, Goto, TypeOK
  <2> QED BY <1>1, <2>1 DEF ServerNext, TypeOK
<1>4. ASSUME Seeks(0)' PROVE Seeking(0)'
  <2>1. pc'[0] = "connect"  BY <1>2, <1>4 DEF Seeks
  <2>2. h + 1 \in Client /\ NoNode # 0  BY <1>1, <1>3, <2>1, RingAssumption DEF HasEntry, Client, NoNode
  <2>3. Members(list'[0]) = Members(list[0]) \ {h, h + 1}
    <3> DEFINE flags == Marked(list[0], h, "NOAVIL")
    <3>1. flags \in [Node -> Flag]  BY <1>1, MarkedCalls DEF Flag
    <3>2. Members(flags) = Members(list[0]) \ {h}  BY <1>1, MarkedMembers DEF Flag
    <3>3. Members(Marked(flags, h + 1, "CALL")) = Members(flags) \ {h + 1}
      BY <2>2, <3>1, MarkedMembers DEF Flag
    <3> QED BY <1>3, <2>1, <3>2, <3>3
  <2>4. Place(0)' = h + 1  BY <1>3, <2>1, <2>2 DEF Place
  <2>5. faults = {} => Gone(h)
    <3>1. CASE pc[0] = "connect"  BY <1>1, <3>1 DEF Target
    <3>2. CASE pc[0] = "send_ring"  BY <1>1, <3>2 DEF MayFail, Looking
    <3> QED BY <3>1, <3>2
  <2>6. /\ Linked(next', from', Members(list'[0]), 0, Place(0)')
        /\ faults' = {} => Decided(pc', Members(list'[0]), Place(0)')
    BY <1>1, <1>2, <2>1, <2>3, <2>4, <2>5, PassedOver
  <2> QED BY <1>3, <2>1, <2>2, <2>6 DEF Seeking
<1>5. ASSUME faults = {}, NEW c \in Client PROVE Awaited(c)'
  <2>1. pc[c] = "accept" /\ from[c] = 0 /\ next[0] = c => pc[0] # "send_ring"
    BY <1>5 DEF MayFail, Gone
  <2>2. Awaited(c)  BY <1>5 DEF Ring
  <2>3. pc'[0] # "accept"  BY <1>2
  <2> QED BY <1>1, <1>2, <2>1, <2>2, <2>3, StillAwaited
<1> QED BY <1>1, <1>2, <1>4, <1>5, SeekStep

LEMMA ClientConnectFailsRing ==
  ASSUME Inductive, Ring, NEW c \in Client, ClientConnectFails(c)
  PROVE  Ring'
<1> DEFINE h == ite[c]
<1>1. /\ c \in Node /\ c # 0 /\ TypeOK /\ Looking(c) /\ pc[c] = "connect" /\ Seeks(c) /\ OneRing
      /\ Seeking(c) /\ list[c] \in [Node -> Flag] /\ UNCHANGED <<from, inbox, myName, faults>>
  BY Hosts DEF Inductive, TypeOK, Ring, Building, ClientConnectFails, NotConnected, Seeks
<1>2. CASE Target(c) = 0
  <2>1. pc' = [pc EXCEPT ![c] = "exit"] /\ next' = next
    BY <1>2 DEF ClientConnectFails, Exit, Goto
  <2>2. pc'[c] = "exit" /\ \A m \in Node : m # c => pc'[m] = pc[m]  BY <1>1, <2>1 DEF TypeOK
  <2>3. ~Seeks(c)'  BY <2>2 DEF Seeks
  <2>4. ASSUME faults = {}, NEW d \in Client PROVE Awaited(d)'
    <3>1. Awaited(d)  BY <2>4 DEF Ring
    <3> QED BY <1>1, <2>1, <2>2, <3>1, StillAwaited
  <2> QED BY <1>1, <2>2, <2>3, <2>4, SeekStep
<1>3. CASE Target(c) # 0
  <2>1. next[c] # 0 /\ h = Target(c) /\ h \in Client /\ h \in Node /\ Gone(h)
    BY <1>1, <1>3, Hosts DEF Target, Looking, ClientConnectFails, NotConnected
  <2>2. FindNext(c, Marked(list[c], h, "NOAVIL"), h)  BY <1>3 DEF ClientConnectFails
  <2>3. /\ \A m \in Node : m # c => pc'[m] = pc[m] /\ next'[m] = next[m]
        /\ pc'[c] \in {"connect", "exit"}
    BY <1>1, <1>3, <2>2 DEF ClientConnectFails, FindNext, Exit, Goto, TypeOK
  <2>4. Members(list'[c]) = Members(list[c]) \ {h, h + 1} /\ Place(c)' = h + 1
    <3> DEFINE flags == Marked(list[c], h, "NOAVIL")
    <3>1. flags \in [Node -> Flag]  BY <1>1, <2>1, MarkedCalls DEF Flag
    <3>2. Members(flags) = Members(list[c]) \ {h}  BY <1>1, <2>1, MarkedMembers DEF Flag
    <3>3. CASE HasEntry(h)
      <4>1. h + 1 \in Client /\ NoNode # 0
        BY <2>1, <3>3, RingAssumption DEF HasEntry, Client, NoNode
      <4>2. Members(Marked(flags, h + 1, "CALL")) = Members(flags) \ {h + 1}
        BY <3>1, <4>1, MarkedMembers DEF Flag
      <4>3. list'[c] = Marked(flags, h + 1, "CALL") /\ next'[c] = NoNode /\ ite'[c] = h + 1
        BY <1>1, <2>2, <3>3 DEF FindNext, TypeOK
      <4> QED BY <3>2, <4>1, <4>2, <4>3 DEF Place
    <3>4. CASE ~HasEntry(h)
      <4>1. h + 1 = NoNode /\ NoNode \notin Node  BY <2>1, <3>4, RingAssumption DEF HasEntry, Client, NoNode, Node
      <4>2. list'[c] = flags /\ next'[c] = 0  BY <1>1, <2>2, <3>4 DEF FindNext, TypeOK
      <4>3. h + 1 \notin Members(flags)  BY <4>1, MembersTyped
      <4> QED BY <3>2, <4>1, <4>2, <4>3 DEF Place
    <3> QED BY <3>3, <3>4
  <2>5. /\ Linked(next', from', Members(list'[c]), c, Place(c)')
        /\ faults' = {} => Decided(pc', Members(list'[c]), Place(c)')
    <3>1. pc'[c] \notin {"accept", "down"}  BY <2>3
    <3> QED BY <1>1, <2>1, <2>3, <2>4, <3>1, PassedOver
  <2>6. Seeking(c)'
    <3>1. pc'[c] # "send_ring"  BY <2>3
    <3> QED BY <1>1, <2>5, <3>1 DEF Seeking
  <2>7. ASSUME faults = {}, NEW d \in Client PROVE Awaited(d)'
    <3>1. Awaited(d) /\ pc'[c] # "accept"  BY <2>3, <2>7 DEF Ring
    <3> QED BY <1>1, <2>3, <3>1, StillAwaited
  <2> QED BY <1>1, <2>3, <2>6, <2>7, SeekStep
<1> QED BY <1>2, <1>3

\* The RING packet goes to the host that is called, which is the one connected to.
LEMMA SendRingRing ==
  ASSUME Inductive, Ring, NEW n \in Node, SendRing(n)
  PROVE  Ring'
<1> DEFINE t == next[n]
           packet == RingPacket(list[n])
<1>1. /\ TypeOK /\ Mail /\ Looking(n) /\ pc[n] = "send_ring" /\ Seeks(n) /\ OneRing /\ Seeking(n)
      /\ UNCHANGED <<list, ite, retry, next, from, myName, faults>> /\ Deliver(n, packet)
  BY DEF Inductive, Ring, Building, SendRing, Seeks
<1>2. pc'[n] \in {"recv_ring", "recv_host"} /\ \A m \in Node : m # n => pc'[m] = pc[m]
  BY <1>1 DEF SendRing, Goto, TypeOK
<1>2a. n = 0 => pc'[n] = "recv_ring"  BY <1>1 DEF SendRing, Goto, TypeOK
<1>3. /\ t \in Node /\ from[t] = n /\ Place(n) = Called(t)
      /\ Linked(next, from, Members(list[n]), n, Called(t))
  <2>1. t \in {0, ite[n]} /\ (t # 0 => ite[n] \in Client)  BY <1>1 DEF Looking
  <2>2. t \in Node /\ Place(n) = Called(t)  BY <2>1, Hosts DEF Place, Called
  <2> QED BY <1>1, <2>2 DEF Seeking
<1>4. faults' = {} => Decided(pc', Members(list[n]), Called(t))
  <2>1. \A c \in Client : pc[c] \in {"accept", "down"} \/ pc'[c] \in {"accept", "down"} => pc'[c] = pc[c]
    BY <1>1, <1>2, Hosts
  <2>2. faults = {} => Decided(pc, Members(list[n]), Called(t))  BY <1>1, <1>3 DEF Seeking
  <2> QED BY <1>1, <2>1, <2>2, DecidedKept
<1>5. \A m \in Node : ~Seeks(m)'
  <2>1. \A m \in Node : m # n => ~Seeks(m)  BY <1>1, SeekerAlone
  <2> QED BY <1>2, <2>1 DEF Seeks
<1>6. ~Joined' /\ \A m \in Node : \A i \in DOMAIN inbox[m] : inbox[m][i].kind # "RING"
  <2>1. ~Joined /\ 0 \in Node  BY <1>1, SeekerAlone, Hosts
  <2>2. ~Joined'  BY <1>2, <1>2a, <2>1 DEF Joined
  <2> QED BY <1>1, <2>2, SeekerAlone
<1>7. CASE Gone(t)
  <2>1. inbox' = inbox  BY <1>1, <1>7 DEF Deliver
  <2>2. OneRing' /\ Building'  BY <1>5, <1>6, <2>1 DEF OneRing, Building, HasRing
  <2>3. ASSUME faults = {}, NEW c \in Client PROVE Awaited(c)'
    <3>1. ~(pc[c] = "accept" /\ from[c] = n /\ next[n] = c)  BY <1>7 DEF Gone
    <3>2. Awaited(c) /\ pc'[n] # "accept"  BY <1>2, <2>3 DEF Ring
    <3> QED BY <1>1, <1>2, <2>1, <3>1, <3>2, StillAwaited
  <2> QED BY <1>1, <2>2, <2>3 DEF Ring
<1>8. CASE ~Gone(t)
  <2> DEFINE l == Len(inbox[t]) + 1
  <2>1. packet \in Packets /\ packet.kind = "RING" /\ packet.flags = list[n]
    BY <1>1 DEF RingPacket, Packets, TypeOK
  <2>2. inbox[t] \in Seq(Packets)  BY <1>1, <1>3 DEF Mail
  <2>3. /\ inbox'[t] = Append(inbox[t], packet)
        /\ \A m \in Node : m # t => inbox'[m] = inbox[m]
    BY <1>1, <1>3, <1>8 DEF Deliver, Mail
  <2>4. /\ l \in DOMAIN inbox'[t] /\ inbox'[t][l] = packet
        /\ \A i \in DOMAIN inbox'[t] : i # l => i \in DOMAIN inbox[t] /\ inbox'[t][i] = inbox[t][i]
    <3>1. Append(inbox[t], packet)[l] = packet  BY <2>1, <2>2, Appended
    <3>2. DOMAIN inbox'[t] = 1 .. l /\ DOMAIN inbox[t] = 1 .. l - 1 /\ l \in Nat /\ l > 0
      BY <2>1, <2>2, <2>3
    <3>3. \A i \in 1 .. l : i # l => i \in 1 .. l - 1 /\ inbox'[t][i] = inbox[t][i]
      BY <2>1, <2>2, <2>3
    <3> QED BY <2>3, <3>1, <3>2, <3>3
  <2>5. \A m \in Node : \A i \in DOMAIN inbox'[m] : inbox'[m][i].kind = "RING" => m = t /\ i = l
    <3> SUFFICES ASSUME NEW m \in Node, NEW i \in DOMAIN inbox'[m], inbox'[m][i].kind = "RING"
                 PROVE  m = t /\ i = l
      OBVIOUS
    <3>1. CASE m = t  BY <1>3, <1>6, <2>4, <3>1
    <3>2. CASE m # t  BY <1>6, <2>3, <3>2
    <3> QED BY <3>1, <3>2
  <2>6. OneRing'  BY <1>5, <1>6, <2>5 DEF OneRing
  <2>7. Passed(t, list[n])'
    <3>1. n \in Node /\ from'[t] = n /\ next'[n] = t /\ list'[n] = list[n]  BY <1>1, <1>3
    <3>2. Linked(next', from', Members(list'[n]), from'[t], Called(t))  BY <1>1, <1>3, <3>1
    <3>3. faults' = {} => Decided(pc', Members(list'[n]), Called(t))  BY <1>4, <3>1
    <3> QED BY <3>1, <3>2, <3>3 DEF Passed, Called
  <2>8. Building'
    <3>1. ASSUME NEW m \in Node, NEW i \in DOMAIN inbox'[m], inbox'[m][i].kind = "RING"
          PROVE  Passed(m, inbox[m][i].flags)'
      <4>1. m = t /\ inbox'[m][i].flags = list'[n]  BY <1>1, <2>1, <2>4, <2>5, <3>1
      <4>2. Members(inbox'[m][i].flags) = Members(list'[n])  BY <4>1
      <4>3. /\ from'[t] \in Node /\ next'[from'[t]] = t
            /\ Linked(next', from', Members(list'[n]), from'[t], Called(t))
            /\ faults' = {} => Decided(pc', Members(list'[n]), Called(t))
        BY <1>1, <2>7 DEF Passed, Called
      <4> QED BY <4>1, <4>2, <4>3 DEF Passed
    <3> QED BY <1>5, <1>6, <3>1 DEF Building
  <2>9. ASSUME faults = {}, NEW c \in Client PROVE Awaited(c)'
    <3> SUFFICES ASSUME pc'[c] = "accept", from'[c] # NoNode
                 PROVE  next'[from'[c]] = c /\ HasRing(c)'
      BY DEF Awaited
    <3>1. c \in Node /\ pc[c] = "accept" /\ from[c] # NoNode /\ Awaited(c) /\ ~HasRing(c)
      BY <1>1, <1>2, <2>9, SeekerAlone, Hosts DEF Ring
    <3>2. next[from[c]] = c /\ pc[from[c]] = "send_ring"  BY <3>1 DEF Awaited
    <3>3. from[c] \in Node  BY <1>1, <3>1, SomeNode DEF TypeOK
    <3>4. from[c] = n  BY <1>1, <3>2, <3>3, SeekerAlone DEF Seeks
    <3>5. c = t  BY <3>2, <3>4
    <3> QED BY <1>1, <2>1, <2>4, <3>2, <3>5 DEF HasRing
  <2> QED BY <1>1, <2>6, <2>8, <2>9 DEF Ring
<1> QED BY <1>7, <1>8

\* Nobody else waits for the packet that is taken.
LEMMA NoneAwaited ==
  ASSUME Inductive, Ring, faults = {}, NEW n \in Node,
         \A m \in Node : ~Seeks(m) /\ (m # n => ~HasRing(m)),
         \A m \in Node : m # n => pc'[m] = pc[m], pc'[n] # "accept", UNCHANGED from,
         NEW c \in Client
  PROVE  Awaited(c)'
<1> SUFFICES ASSUME pc'[c] = "accept", from'[c] # NoNode PROVE FALSE  BY DEF Awaited
<1>1. c \in Node /\ c # n /\ pc[c] = "accept" /\ from[c] # NoNode  BY Hosts
<1>2. Awaited(c)  BY DEF Ring
<1>3. pc[from[c]] = "send_ring"  BY <1>1, <1>2 DEF Awaited
<1>4. from[c] \in Node  BY <1>1, SomeNode DEF Inductive, TypeOK
<1> QED BY <1>3, <1>4 DEF Seeks

\* The host that is called takes its place in the ring and seeks the next one.
LEMMA RecvRingRing ==
  ASSUME Inductive, Ring, NEW c \in Client, ClientRecvRing(c)
  PROVE  Ring'
<1> DEFINE flags == Received(c)
           a == from[c]
           marked == Marked(flags, c, "AVAIL")
<1>1. /\ c \in Node /\ c # 0 /\ c \in Nat /\ TypeOK /\ Mail /\ OneRing /\ Building /\ pc[c] = "accept"
      /\ inbox[c] # <<>> /\ Take(c) /\ Head(inbox[c]).kind = "RING"
  BY Hosts DEF Inductive, Ring, ClientRecvRing, Receives, Client
<1>2. /\ ~Joined /\ \A m \in Node : ~Seeks(m) /\ (m # c => ~HasRing(m))
      /\ \A m \in Node : \A i \in DOMAIN inbox'[m] : inbox'[m][i].kind # "RING"
  BY <1>1, CallIsAlone
<1>3. inbox[c] \in Seq(Packets)  BY <1>1 DEF Mail
<1>4. 1 \in DOMAIN inbox[c] /\ Head(inbox[c]) = inbox[c][1] /\ inbox[c][1] \in Packets
  BY <1>1, <1>3
<1>5. Calls(flags) = {c} /\ flags \in [Node -> Flag]
  <2>1. Calls(inbox[c][1].flags) = {c}  BY <1>1, <1>4 DEF Mail
  <2>2. inbox[c][1].flags \in [Node -> Flag]  BY <1>1, <1>4 DEF Packets, FilePacket
  <2> QED BY <1>4, <2>1, <2>2 DEF Received
<1>6. CallHost(flags) = c
  <2>1. {h \in Node : flags[h] = "CALL"} = {c}  BY <1>5 DEF Calls
  <2> QED BY <1>1, <2>1, MinOfOne DEF CallHost
<1>7. /\ FindNext(c, marked, c) /\ UNCHANGED <<retry, from, faults>>
      /\ pc' = [pc EXCEPT ![c] = "connect"]
  BY <1>6 DEF ClientRecvRing, Goto
<1>8. Passed(c, flags)
  <2>1. Passed(c, inbox[c][1].flags)  BY <1>1, <1>4 DEF Building
  <2> QED BY <1>4, <2>1 DEF Received
<1>9. /\ a \in Node /\ next[a] = c /\ Linked(next, from, Members(flags), a, c)
      /\ faults = {} => Decided(pc, Members(flags), c)
  BY <1>1, <1>8 DEF Passed, Called
<1>10. \A m \in Members(flags) : m \in Node /\ m # c
  <2>1. a < c /\ a \in Nat /\ \A m \in Members(flags) : m \in Nat /\ m <= a
    BY <1>9, MembersTyped, RingAssumption DEF Linked, Node
  <2> QED BY <1>1, <2>1, MembersTyped
<1>11. marked \in [Node -> Flag] /\ Members(marked) = Members(flags) \cup {c}
  BY <1>1, <1>5, MarkedCalls, MarkedMembers DEF Flag
<1>12. Members(list'[c]) = Members(flags) \cup {c} /\ Place(c)' = c + 1
       /\ \A m \in Node : m # c => next'[m] = next[m]
  <2>1. CASE HasEntry(c)
    <3>1. c + 1 \in Client /\ NoNode # 0
      BY <1>1, <2>1, RingAssumption DEF HasEntry, Client, NoNode
    <3>2. Members(Marked(marked, c + 1, "CALL")) = Members(marked) \ {c + 1}
      BY <1>11, <3>1, MarkedMembers DEF Flag
    <3>3. c + 1 \notin Members(marked)
      <4>1. \A m \in Members(flags) : m \in Nat /\ m < c
        BY <1>1, <1>9, MembersTyped, RingAssumption DEF Linked, Node
      <4> QED BY <1>1, <1>11, <4>1
    <3>4. list'[c] = Marked(marked, c + 1, "CALL") /\ next' = [next EXCEPT ![c] = NoNode] /\ ite'[c] = c + 1
      BY <1>1, <1>7, <2>1 DEF FindNext, TypeOK
    <3>5. Members(list'[c]) = Members(flags) \cup {c}  BY <1>11, <3>2, <3>3, <3>4
    <3>6. Place(c)' = c + 1 /\ \A m \in Node : m # c => next'[m] = next[m]
      BY <1>1, <3>1, <3>4 DEF Place, TypeOK
    <3> QED BY <3>5, <3>6
  <2>2. CASE ~HasEntry(c)
    <3>1. c + 1 = NoNode  BY <1>1, <2>2, RingAssumption DEF HasEntry, Client, NoNode
    <3>2. list'[c] = marked /\ next' = [next EXCEPT ![c] = 0]
      BY <1>1, <1>7, <2>2 DEF FindNext, TypeOK
    <3>3. Place(c)' = c + 1 /\ \A m \in Node : m # c => next'[m] = next[m]
      BY <1>1, <3>1, <3>2 DEF Place, TypeOK
    <3> QED BY <1>11, <3>2, <3>3
  <2> QED BY <2>1, <2>2
<1>13. Linked(next', from', Members(list'[c]), c, c + 1)
  <2>1. \A m \in Members(flags) : next'[m] = next[m]  BY <1>10, <1>12
  <2>2. Linked(next', from, Members(list'[c]), c, c + 1)
    BY <1>9, <1>12, <2>1, LinkedExtended
  <2> QED BY <1>7, <2>2
<1>14. pc'[c] = "connect" /\ \A m \in Node : m # c => pc'[m] = pc[m]  BY <1>1, <1>7 DEF TypeOK
<1>15. faults' = {} => Decided(pc', Members(list'[c]), c + 1)
  <2>1. \A d \in Client : d # c => pc'[d] = pc[d]  BY <1>14, Hosts
  <2> QED BY <1>7, <1>9, <1>12, <1>14, <2>1, DecidedNext
<1>16. Seeking(c)'
  <2>1. pc'[c] # "send_ring" /\ Place(c)' = c + 1  BY <1>12, <1>14
  <2> QED BY <1>1, <1>13, <1>15, <2>1 DEF Seeking
<1>17. ~Joined' /\ \A m \in Node : Seeks(m)' => m = c
  <2>1. pc'[0] = pc[0]  BY <1>1, <1>14, Hosts
  <2> QED BY <1>2, <1>14, <2>1 DEF Joined, Seeks
<1>18. OneRing'  BY <1>2, <1>17 DEF OneRing, HasRing
<1>19. Building'  BY <1>2, <1>16, <1>17 DEF Building
<1>20. ASSUME faults = {}, NEW d \in Client PROVE Awaited(d)'
  <2>1. pc'[c] # "accept"  BY <1>14
  <2> QED BY <1>1, <1>2, <1>7, <1>14, <1>20, <2>1, NoneAwaited
<1> QED BY <1>7, <1>18, <1>19, <1>20 DEF Ring

\* The server has got the packet back: its list is the one of the ring.
LEMMA JoinRing ==
  ASSUME Inductive, Ring, RecvList(0, "recv_ring", "RING", "send_host")
  PROVE  Ring'
<1> DEFINE flags == Received(0)
<1>1. /\ 0 \in Node /\ TypeOK /\ Mail /\ OneRing /\ Building /\ pc[0] = "recv_ring"
      /\ inbox[0] # <<>> /\ Take(0) /\ Head(inbox[0]).kind = "RING"
      /\ list' = [list EXCEPT ![0] = flags] /\ pc' = [pc EXCEPT ![0] = "send_host"]
      /\ UNCHANGED <<ite, retry, next, from, myName, faults>>
  BY Hosts DEF Inductive, Ring, RecvList, Receives, Goto
<1>2. /\ \A m \in Node : ~Seeks(m) /\ (m # 0 => ~HasRing(m))
      /\ \A m \in Node : \A i \in DOMAIN inbox'[m] : inbox'[m][i].kind # "RING"
  BY <1>1, CallIsAlone
<1>3. inbox[0] \in Seq(Packets)  BY <1>1 DEF Mail
<1>4. 1 \in DOMAIN inbox[0] /\ Head(inbox[0]) = inbox[0][1]  BY <1>1, <1>3
<1>5. Passed(0, flags)
  <2>1. Passed(0, inbox[0][1].flags)  BY <1>1, <1>4 DEF Building
  <2> QED BY <1>4, <2>1 DEF Received
<1>6. list'[0] = flags /\ pc'[0] = "send_host" /\ \A m \in Node : m # 0 => pc'[m] = pc[m]
  BY <1>1 DEF TypeOK
<1>7. Passed(0, list[0])'
  <2>1. \A c \in Client : pc[c] \in {"accept", "down"} \/ pc'[c] \in {"accept", "down"} => pc'[c] = pc[c]
    BY <1>6, Hosts
  <2>2. faults = {} => Decided(pc', Members(flags), Called(0))
    BY <1>5, <2>1, DecidedKept DEF Passed
  <2> QED BY <1>1, <1>5, <1>6, <2>2 DEF Passed
<1>8. \A m \in Node : ~Seeks(m)'  BY <1>2, <1>6 DEF Seeks
<1>9. OneRing'  BY <1>2, <1>8 DEF OneRing, HasRing
<1>10. Building'  BY <1>2, <1>7, <1>8 DEF Building
<1>11. ASSUME faults = {}, NEW d \in Client PROVE Awaited(d)'
  <2>1. pc'[0] # "accept"  BY <1>6
  <2> QED BY <1>1, <1>2, <1>6, <1>11, <2>1, NoneAwaited
<1> QED BY <1>1, <1>9, <1>10, <1>11 DEF Ring

(***************************************************************************)
(* Steps that do not build: a node sends or takes another packet, or ends. *)
(***************************************************************************)
OldRings ==
  \A n \in Node : \E d \in {0, 1} : \A i \in DOMAIN inbox'[n] :
    inbox'[n][i].kind = "RING" => i + d \in DOMAIN inbox[n] /\ inbox'[n][i] = inbox[n][i + d]

LEMMA QuietStep ==
  ASSUME Inductive, Inductive', Ring, NEW n \in Node, NEW l, pc' = [pc EXCEPT ![n] = l],
         l \notin {"connect", "send_ring", "accept"}, l = "down" => faults # {},
         n = 0 /\ Joined' => Joined, UNCHANGED <<next, from, faults>>,
         \A m \in Node : m # n => ite'[m] = ite[m],
         \A m \in Node : m # n \/ n = 0 => list'[m] = list[m],
         OldRings,
         faults = {} =>
           /\ n \in Client => pc[n] \notin {"accept", "down"}
           /\ pc[n] = "send_ring" /\ next[n] \in Client => pc[next[n]] # "accept"
           /\ \A c \in Client : pc[c] = "accept" /\ HasRing(c) => HasRing(c)'
  PROVE  Ring'
<1>1. 0 \in Node /\ TypeOK /\ OneRing /\ Building /\ \A c \in Client : c \in Node
  BY Hosts DEF Inductive, Ring
<1>2. pc'[n] = l /\ \A m \in Node : m # n => pc'[m] = pc[m]  BY <1>1 DEF TypeOK
<1>3. \A m \in Node : Seeks(m)' => Seeks(m) /\ m # n  BY <1>2 DEF Seeks
<1>4. Joined' => Joined /\ list'[0] = list[0]  BY <1>1, <1>2 DEF Joined
<1>5. faults = {} => \A c \in Client :
        pc[c] \in {"accept", "down"} \/ pc'[c] \in {"accept", "down"} => pc'[c] = pc[c]
  BY <1>1, <1>2
<1>6. \A m \in Node : HasRing(m)' => HasRing(m)
  <2> SUFFICES ASSUME NEW m \in Node, HasRing(m)' PROVE HasRing(m)  OBVIOUS
  <2>1. PICK i \in DOMAIN inbox'[m] : inbox'[m][i].kind = "RING"  BY DEF HasRing
  <2>2. PICK d \in {0, 1} : i + d \in DOMAIN inbox[m] /\ inbox'[m][i] = inbox[m][i + d]
    BY <2>1 DEF OldRings
  <2> QED BY <2>1, <2>2 DEF HasRing
<1>7. OneRing'
  <2>1. ASSUME NEW m \in Node, Seeks(m)'
        PROVE  ~Joined' /\ \A k \in Node : ~HasRing(k)' /\ (Seeks(k)' => k = m)
    BY <1>1, <1>3, <1>4, <1>6, <2>1, SeekerAlone
  <2>2. ASSUME Joined' PROVE \A m \in Node : ~HasRing(m)'  BY <1>1, <1>4, <1>6, <2>2 DEF OneRing
  <2>3. ASSUME NEW k \in Node, NEW m \in Node, NEW i \in DOMAIN inbox'[k], NEW j \in DOMAIN inbox'[m],
               inbox'[k][i].kind = "RING", inbox'[m][j].kind = "RING"
        PROVE  k = m /\ i = j
    <3>1. PICK d \in {0, 1} : \A h \in DOMAIN inbox'[k] : inbox'[k][h].kind = "RING" =>
                                h + d \in DOMAIN inbox[k] /\ inbox'[k][h] = inbox[k][h + d]
      BY DEF OldRings
    <3>2. PICK e \in {0, 1} : \A h \in DOMAIN inbox'[m] : inbox'[m][h].kind = "RING" =>
                                h + e \in DOMAIN inbox[m] /\ inbox'[m][h] = inbox[m][h + e]
      BY DEF OldRings
    <3>3. k = m
      <4>1. i + d \in DOMAIN inbox[k] /\ inbox[k][i + d].kind = "RING"  BY <2>3, <3>1
      <4>2. j + e \in DOMAIN inbox[m] /\ inbox[m][j + e].kind = "RING"  BY <2>3, <3>2
      <4> QED BY <1>1, <4>1, <4>2 DEF OneRing
    <3>4. i + d \in DOMAIN inbox[k] /\ inbox[k][i + d].kind = "RING"  BY <2>3, <3>1
    <3>5. j + d \in DOMAIN inbox[k] /\ inbox[k][j + d].kind = "RING"  BY <2>3, <3>1, <3>3
    <3>6. i + d = j + d  BY <1>1, <3>4, <3>5 DEF OneRing
    <3>7. i \in Nat /\ j \in Nat
      <4>1. inbox'[k] \in Seq(Packets) /\ inbox'[m] \in Seq(Packets)  BY DEF Inductive, Mail
      <4> QED BY <4>1
    <3> QED BY <3>3, <3>6, <3>7
  <2> QED BY <2>1, <2>2, <2>3 DEF OneRing
<1>8. ASSUME NEW m \in Node, NEW flags, Passed(m, flags)
      PROVE  /\ from'[m] \in Node /\ next'[from'[m]] = m
             /\ Linked(next', from', Members(flags), from'[m], Called(m))
             /\ faults' = {} => Decided(pc', Members(flags), Called(m))
  <2>1. faults = {} => Decided(pc', Members(flags), Called(m))
    BY <1>5, <1>8, DecidedKept DEF Passed
  <2> QED BY <1>8, <2>1 DEF Passed
<1>9. Building'
  <2>1. ASSUME NEW m \in Node, Seeks(m)' PROVE Seeking(m)'
    <3>1. Seeking(m) /\ m # n  BY <1>1, <1>3, <2>1 DEF Building
    <3>2. list'[m] = list[m] /\ Place(m)' = Place(m) /\ pc'[m] = pc[m]  BY <1>2, <3>1 DEF Place
    <3>3. faults = {} => Decided(pc', Members(list[m]), Place(m))
      BY <1>5, <3>1, DecidedKept DEF Seeking
    <3> QED BY <3>1, <3>2, <3>3 DEF Seeking
  <2>2. ASSUME NEW m \in Node, NEW i \in DOMAIN inbox'[m], inbox'[m][i].kind = "RING"
        PROVE  Passed(m, inbox[m][i].flags)'
    <3>1. PICK d \in {0, 1} : i + d \in DOMAIN inbox[m] /\ inbox'[m][i] = inbox[m][i + d]
      BY <2>2 DEF OldRings
    <3>2. Passed(m, inbox[m][i + d].flags)  BY <1>1, <2>2, <3>1 DEF Building
    <3>3. Passed(m, inbox'[m][i].flags)  BY <3>1, <3>2
    <3> QED BY <1>8, <3>3 DEF Passed
  <2>3. ASSUME Joined' PROVE Passed(0, list[0])'
    <3>1. Passed(0, list'[0])  BY <1>1, <1>4, <2>3 DEF Building
    <3> QED BY <1>1, <1>8, <3>1 DEF Passed
  <2> QED BY <2>1, <2>2, <2>3 DEF Building
<1>10. ASSUME faults = {}, NEW c \in Client PROVE Awaited(c)'
  <2> SUFFICES ASSUME pc'[c] = "accept", from'[c] # NoNode
               PROVE  next'[from'[c]] = c /\ (pc'[from'[c]] = "send_ring" \/ HasRing(c)')
    BY DEF Awaited
  <2>1. c \in Node /\ c # n /\ pc[c] = "accept" /\ Awaited(c)  BY <1>1, <1>2, <1>10 DEF Ring
  <2>2. from[c] \in Node  BY <1>1, <2>1, SomeNode DEF TypeOK
  <2>3. next[from[c]] = c /\ (pc[from[c]] = "send_ring" \/ HasRing(c))  BY <2>1 DEF Awaited
  <2>4. pc[from[c]] = "send_ring" => from[c] # n  BY <1>10, <2>1, <2>3
  <2> QED BY <1>2, <1>10, <2>1, <2>2, <2>3, <2>4
<1> QED BY <1>7, <1>9, <1>10 DEF Ring

LEMMA TakenRings ==
  ASSUME Inductive, NEW n \in Node, inbox[n] # <<>>, Take(n), pc[n] # "accept"
  PROVE  OldRings /\ \A c \in Client : pc[c] = "accept" /\ HasRing(c) => HasRing(c)'
<1>1. inbox[n] \in Seq(Packets) /\ \A c \in Client : c \in Node  BY Hosts DEF Inductive, Mail
<1>2. inbox'[n] = Tail(inbox[n]) /\ \A k \in Node : k # n => inbox'[k] = inbox[k]
  BY DEF Take, Inductive, Mail
<1>3. \A i \in DOMAIN inbox'[n] : i + 1 \in DOMAIN inbox[n] /\ inbox'[n][i] = inbox[n][i + 1]
  BY <1>1, <1>2
<1>4. ASSUME NEW m \in Node
      PROVE  \E d \in {0, 1} : \A i \in DOMAIN inbox'[m] :
               inbox'[m][i].kind = "RING" => i + d \in DOMAIN inbox[m] /\ inbox'[m][i] = inbox[m][i + d]
  <2>1. CASE m = n  BY <1>3, <2>1
  <2>2. CASE m # n
    <3>1. inbox'[m] = inbox[m] /\ inbox[m] \in Seq(Packets)  BY <1>2, <2>2 DEF Inductive, Mail
    <3>2. \A i \in DOMAIN inbox[m] : i + 0 = i  BY <3>1
    <3> QED BY <3>1, <3>2
  <2> QED BY <2>1, <2>2
<1>5. OldRings  BY <1>4 DEF OldRings
<1> QED BY <1>1, <1>2, <1>5 DEF HasRing

LEMMA SentRings ==
  ASSUME Inductive, NEW n \in Node, NEW packet \in Packets, packet.kind # "RING",
         Deliver(n, packet) \/ inbox' = inbox
  PROVE  OldRings /\ \A c \in Client : HasRing(c) => HasRing(c)'
<1> DEFINE t == next[n]
<1>1. /\ inbox \in [Node -> Seq(Packets)]
      /\ \A m \in Node : inbox[m] \in Seq(Packets)
      /\ \A c \in Client : c \in Node
  BY Hosts DEF Inductive, Mail
<1>2. ASSUME NEW m \in Node
      PROVE  inbox'[m] = inbox[m] \/ inbox'[m] = Append(inbox[m], packet)
  BY <1>1 DEF Deliver
<1>3. ASSUME NEW m \in Node
      PROVE  /\ \A i \in DOMAIN inbox'[m] : inbox'[m][i].kind = "RING" =>
                  i + 0 \in DOMAIN inbox[m] /\ inbox'[m][i] = inbox[m][i + 0]
             /\ \A i \in DOMAIN inbox[m] : i \in DOMAIN inbox'[m] /\ inbox'[m][i] = inbox[m][i]
  <2> DEFINE s == inbox[m]
  <2>1. s \in Seq(Packets) /\ \A i \in DOMAIN s : i + 0 = i  BY <1>1
  <2>2. CASE inbox'[m] = s  BY <2>1, <2>2
  <2>3. CASE inbox'[m] = Append(s, packet)
    <3>1. /\ DOMAIN Append(s, packet) = 1 .. Len(s) + 1 /\ DOMAIN s = 1 .. Len(s) /\ Len(s) \in Nat
          /\ \A i \in 1 .. Len(s) : Append(s, packet)[i] = s[i]
      BY <2>1
    <3>2. Append(s, packet)[Len(s) + 1] = packet  BY <2>1, Appended
    <3>3. ASSUME NEW i \in DOMAIN Append(s, packet), Append(s, packet)[i].kind = "RING"
          PROVE  i \in DOMAIN s
      BY <3>1, <3>2, <3>3
    <3> QED BY <2>1, <2>3, <3>1, <3>3
  <2> QED BY <1>2, <2>2, <2>3
<1>4. OldRings  BY <1>3 DEF OldRings
<1> QED BY <1>1, <1>3, <1>4 DEF HasRing

LEMMA SendRingFree ==
  ASSUME Inductive, Inductive', Ring, NEW n \in Node, NEW l \in {"send_host", "send_file"},
         NEW packet \in Packets, packet.kind # "RING",
         NEW goto \in {"recv_host", "recv_file", "transfer"}, Send(n, l, packet, goto)
  PROVE  Ring'
<1>1. pc[n] = l /\ UNCHANGED <<list, ite, next, from, faults>>  BY DEF Send
<1>2. PICK k \in {goto, "exit"} : pc' = [pc EXCEPT ![n] = k]  BY DEF Send, Goto, Exit
<1>3. OldRings /\ \A c \in Client : HasRing(c) => HasRing(c)'  BY SentRings DEF Send
<1>4. n = 0 => Joined  BY <1>1 DEF Joined
<1> QED BY <1>1, <1>2, <1>3, <1>4, QuietStep

LEMMA SendHostRing ==
  ASSUME Inductive, Inductive', Ring, NEW c \in Client, ClientSendHost(c)
  PROVE  Ring'
<1>1. c \in Node /\ c # 0 /\ list[c] \in [Node -> Flag]  BY Hosts DEF Inductive, TypeOK
<1>2. HostPacket(list[c]) \in Packets /\ HostPacket(list[c]).kind # "RING"
  BY <1>1 DEF HostPacket, Packets
<1>3. pc[c] = "send_host" /\ UNCHANGED <<list, next, from, faults>>  BY DEF ClientSendHost
<1>4. PICK k \in {"recv_file", "exit"} : pc' = [pc EXCEPT ![c] = k]
  BY DEF ClientSendHost, Goto, Exit
<1>5. OldRings /\ \A d \in Client : HasRing(d) => HasRing(d)'
  BY <1>1, <1>2, SentRings DEF ClientSendHost
<1>6. \A m \in Node : m # c => ite'[m] = ite[m]  BY DEF ClientSendHost, Inductive, TypeOK
<1> QED BY <1>1, <1>3, <1>4, <1>5, <1>6, QuietStep

\* The list that comes round is the one the server has.
LEMMA RecvRingFree ==
  ASSUME Inductive, Inductive', Agreed, Ring, NEW n \in Node,
         \/ RecvList(n, "recv_host", "HOST", "send_host") /\ n # 0
         \/ RecvList(n, "recv_host", "HOST", "send_file") /\ n = 0
         \/ \E goto \in {"transfer", "send_file"} : RecvFile(n, goto)
  PROVE  Ring'
<1>1. /\ pc[n] \in {"recv_host", "recv_file"} /\ inbox[n] # <<>> /\ Take(n)
      /\ UNCHANGED <<ite, next, from, faults>>
  BY DEF RecvList, RecvFile, Receives
<1>2. PICK k \in {"send_host", "send_file", "transfer"} : pc' = [pc EXCEPT ![n] = k]
  BY DEF RecvList, RecvFile, Goto
<1>3. OldRings /\ \A c \in Client : pc[c] = "accept" /\ HasRing(c) => HasRing(c)'
  BY <1>1, TakenRings
<1>4. \A m \in Node : m # n \/ n = 0 => list'[m] = list[m]
  <2>1. CASE RecvList(n, "recv_host", "HOST", "send_file") /\ n = 0
    <3>1. inbox[0] \in Seq(Packets) /\ inbox[0] # <<>>  BY <1>1, <2>1 DEF Inductive, Mail
    <3>2. 1 \in DOMAIN inbox[0] /\ Head(inbox[0]) = inbox[0][1]  BY <3>1
    <3>3. inbox[0][1].kind = "HOST"  BY <2>1, <3>2 DEF RecvList, Receives
    <3>4. Received(0) = list[0]  BY <2>1, <3>2, <3>3 DEF Agreed, Received
    <3> QED BY <2>1, <3>4 DEF RecvList, Inductive, TypeOK
  <2>2. CASE RecvList(n, "recv_host", "HOST", "send_host") /\ n # 0
    BY <2>2 DEF RecvList, Inductive, TypeOK
  <2>3. CASE list' = list  BY <2>3
  <2> QED BY <2>1, <2>2, <2>3 DEF RecvFile
<1>5. n = 0 => Joined  BY <1>1 DEF Joined
<1> QED BY <1>1, <1>2, <1>3, <1>4, <1>5, QuietStep

\* With no fault only a client that is in the ring can give up, or one that can end it.
LEMMA LeaveRing ==
  ASSUME Inductive, Inductive', Ring, NEW n \in Node,
         RecvFails(n) \/ (n \in Client /\ (ClientSendRingLost(n) \/ Crash(n)))
  PROVE  Ring'
<1>1. UNCHANGED <<list, ite, next, from, inbox, faults>>
  BY DEF RecvFails, ClientSendRingLost, Crash
<1>2. PICK k \in {"exit", "down"} : pc' = [pc EXCEPT ![n] = k] /\ (k = "down" => faults # {})
  BY DEF RecvFails, ClientSendRingLost, Crash, Exit, Goto
<1>3. OldRings
  <2>1. \A m \in Node : inbox'[m] = inbox[m] /\ inbox[m] \in Seq(Packets)
    BY <1>1 DEF Inductive, Mail
  <2>2. \A m \in Node : \A i \in DOMAIN inbox[m] : i + 0 = i  BY <2>1
  <2> QED BY <2>1, <2>2 DEF OldRings
<1>4. n = 0 /\ Joined' => Joined
  BY <1>2, Hosts DEF Joined, Inductive, TypeOK
<1>5. ASSUME faults = {}
      PROVE  /\ n \in Client => pc[n] \notin {"accept", "down"}
             /\ pc[n] = "send_ring" /\ next[n] \in Client => pc[next[n]] # "accept"
  <2>1. CASE RecvFails(n)
    <3>1. /\ pc[n] \in {"accept", "recv_ring", "recv_host", "recv_file"} /\ inbox[n] = <<>>
          /\ from[n] # NoNode
          /\ pc[n] = "accept" => Gone(from[n]) \/ next[from[n]] # n
      BY <1>5, <2>1 DEF RecvFails, Closed, TimesOut
    <3>2. ASSUME n \in Client, pc[n] = "accept" PROVE FALSE
      <4>1. Awaited(n)  BY <1>5, <3>2 DEF Ring
      <4>2. ~HasRing(n)  BY <3>1 DEF HasRing
      <4>3. next[from[n]] = n /\ pc[from[n]] = "send_ring"  BY <3>1, <3>2, <4>1, <4>2 DEF Awaited
      <4> QED BY <3>1, <3>2, <4>3 DEF Gone
    <3> QED BY <3>1, <3>2
  <2>2. CASE n \in Client /\ ClientSendRingLost(n)
    BY <1>5, <2>2 DEF ClientSendRingLost, MayFail, Gone
  <2>3. CASE Crash(n)  BY <1>5, <2>3 DEF Crash
  <2> QED BY <2>1, <2>2, <2>3
<1>6. \A c \in Client : HasRing(c) => HasRing(c)'  BY <1>1 DEF HasRing
<1> QED BY <1>1, <1>2, <1>3, <1>4, <1>5, <1>6, QuietStep

LEMMA StepRing == Inductive /\ Agreed /\ Ring /\ [Next]_vars => Ring'
<1> SUFFICES ASSUME Inductive, Agreed, Ring, [Next]_vars PROVE Ring'  OBVIOUS
<1>1. Inductive'  BY StepInductive
<1>2. 0 \in Node /\ \A c \in Client : c \in Node /\ c # 0  BY Hosts
<1>3. \A n \in Node : HostPacket(list[n]) \in Packets /\ HostPacket(list[n]).kind # "RING"
  BY DEF HostPacket, Packets, Inductive, TypeOK
<1>4. FilePacket \in Packets /\ FilePacket.kind # "RING"  BY DEF FilePacket, Packets
<1>5. CASE ServerStep
  <2>1. CASE Connected(0)  BY <1>2, <2>1, ConnectedRing
  <2>2. CASE ServerConnectFails \/ ServerSendRingLost
    BY <2>2, ServerNextRing DEF ServerConnectFails, ServerSendRingLost, NotConnected, Seeks
  <2>3. CASE SendRing(0)  BY <1>2, <2>3, SendRingRing
  <2>4. CASE RecvList(0, "recv_ring", "RING", "send_host")  BY <2>4, JoinRing
  <2>5. CASE RecvList(0, "recv_host", "HOST", "send_file") \/ RecvFile(0, "transfer")
    BY <1>1, <1>2, <2>5, RecvRingFree
  <2>6. CASE Send(0, "send_host", HostPacket(list[0]), "recv_host")
    BY <1>1, <1>2, <1>3, <2>6, SendRingFree
  <2>7. CASE Send(0, "send_file", FilePacket, "recv_file")  BY <1>1, <1>2, <1>4, <2>7, SendRingFree
  <2>8. CASE RecvFails(0)  BY <1>1, <1>2, <2>8, LeaveRing
  <2> QED BY <1>5, <2>1, <2>2, <2>3, <2>4, <2>5, <2>6, <2>7, <2>8 DEF ServerStep
<1>6. ASSUME NEW c \in Client, ClientStep(c) \/ Crash(c) PROVE Ring'
  <2>1. CASE Connected(c)  BY <1>2, <2>1, ConnectedRing
  <2>2. CASE ClientRecvRing(c)  BY <2>2, RecvRingRing
  <2>3. CASE ClientConnectFails(c)  BY <2>3, ClientConnectFailsRing
  <2>4. CASE SendRing(c)  BY <1>2, <2>4, SendRingRing
  <2>5. CASE RecvList(c, "recv_host", "HOST", "send_host") \/ RecvFile(c, "send_file")
    BY <1>1, <1>2, <2>5, RecvRingFree
  <2>6. CASE ClientSendHost(c)  BY <1>1, <2>6, SendHostRing
  <2>7. CASE Send(c, "send_file", FilePacket, "transfer")  BY <1>1, <1>2, <1>4, <2>7, SendRingFree
  <2>8. CASE RecvFails(c) \/ ClientSendRingLost(c) \/ Crash(c)  BY <1>1, <1>2, <2>8, LeaveRing
  <2> QED BY <1>6, <2>1, <2>2, <2>3, <2>4, <2>5, <2>6, <2>7, <2>8 DEF ClientStep
<1>7. CASE UNCHANGED vars
  BY <1>7 DEF vars, Ring, OneRing, Building, Awaited, Seeking, Passed, Seeks, Joined, HasRing, Place
<1> QED BY <1>5, <1>6, <1>7 DEF Next

\* The next member, from which RingIsClosed counts, is the neighbour.
LEMMA RingClosed == TypeOK /\ Ring => RingIsClosed
<1> SUFFICES ASSUME TypeOK, Ring, pc[0] = "transfer"
             PROVE  /\ \A n \in Available \cup {0} : next[n] = RingNext(n) /\ from[RingNext(n)] = n
                    /\ faults = {} => Available = {c \in Client : pc[c] # "down"}
  BY DEF RingIsClosed
<1> DEFINE ring == Members(list[0])
           last == from[0]
<1>1. Passed(0, list[0])  BY DEF Ring, Building, Joined
<1>2. /\ next[last] = 0 /\ Linked(next, from, ring, last, NoNode)
      /\ faults = {} => Decided(pc, ring, NoNode)
  BY <1>1 DEF Passed, Called
<1>3. ring = Available \cup {0} /\ \A c \in Available : c \in Nat /\ c > 0
  BY DEF Members, Available, Client
<1>4. ASSUME NEW n \in Available \cup {0}
      PROVE  next[n] = RingNext(n) /\ from[RingNext(n)] = n
  <2>1. n \in Nat /\ n \in ring /\ n <= last /\ last \in Nat /\ last \in ring
    BY <1>2, <1>3, MembersTyped DEF Linked
  <2>2. CASE After(n) = {}
    <3>1. n = last
      <4>1. last \notin After(n)  BY <2>2
      <4>2. last \in Available => ~(last > n)  BY <4>1 DEF After
      <4> QED BY <1>3, <2>1, <4>2
    <3>2. RingNext(n) = 0  BY <2>2 DEF RingNext
    <3> QED BY <1>2, <3>1, <3>2
  <2>3. CASE After(n) # {}
    <3> DEFINE m == Min(After(n))
    <3>1. m \in After(n) /\ \A k \in After(n) : m <= k
      <4>1. After(n) \subseteq Nat  BY <1>3 DEF After
      <4> QED BY <2>3, <4>1, SmallestExists
    <3>2. m \in ring /\ m \in Nat /\ n < m  BY <1>3, <2>1, <3>1 DEF After
    <3>3. \A k \in ring : k <= n \/ m <= k
      <4> SUFFICES ASSUME NEW k \in ring, ~(k <= n) PROVE m <= k  OBVIOUS
      <4>1. k \in Nat /\ k \in Available /\ k > n  BY <1>3, <2>1
      <4> QED BY <3>1, <4>1 DEF After
    <3>4. next[n] = m /\ from[m] = n  BY <1>2, <2>1, <3>2, <3>3 DEF Linked
    <3>5. RingNext(n) = m  BY <2>3 DEF RingNext
    <3> QED BY <3>4, <3>5
  <2> QED BY <2>2, <2>3
<1>5. ASSUME faults = {} PROVE Available = {c \in Client : pc[c] # "down"}
  <2>1. \A c \in Client : c < NoNode /\ (c \in ring <=> c \in Available)
    BY RingAssumption DEF Client, NoNode, Members, Available
  <2> QED BY <1>2, <1>5, <2>1 DEF Decided, Available
<1> QED BY <1>4, <1>5

-----------------------------------------------------------------------------
\* Every variable keeps its type, for any number of hosts and retries: the iterators
\* stay on the list, and no node counts more attempts than MAXRETRY.
THEOREM TypeCorrect == Spec => []TypeOK
BY InductiveAlways, PTL DEF Inductive

\* The CALL_HOST flag finds the right host in every list of hosts, whoever is down,
\* crashes or loses a packet: no client takes another one's name (Client.cpp:88-102,
\* PacketIte::search_flag()).
THEOREM AllFindThemselves == Spec => []FindsItself
BY InductiveAlways, PTL DEF Inductive

\* Whoever begins the transfer begins it with the list the server ends the construction
\* with, from which recover_sending() takes the hosts that are left: the HOST packet is
\* the same all the way round the ring, and nobody who has it changes a flag any more
\* (Server.cpp:153-182, Client.cpp:191-218).
THEOREM ListsAlwaysAgree == Spec => []ListsAgree
<1>1. Init => Inductive /\ Agreed  BY InitInductive, InitAgreed
<1>2. (Inductive /\ Agreed) /\ [Next]_vars => (Inductive /\ Agreed)'  BY StepInductive, StepAgreed
<1>3. Inductive /\ Agreed => ListsAgree  BY DEF Agreed, ListsAgree, HasFinal
<1> QED BY <1>1, <1>2, <1>3, PTL DEF Spec

\* When the server begins the transfer the ring is closed, whoever was down, crashed or
\* lost a packet while it was built: from the server through the hosts its list calls
\* available, in the order of the list, and back, and each of them has the one before
\* it connected to it; with no fault these are the hosts that run (Server.cpp:52-182,
\* Client.cpp:65-218).
THEOREM RingAlwaysCloses == Spec => []RingIsClosed
<1> DEFINE Inv == Inductive /\ Agreed /\ Ring
<1>1. Init => Inv  BY InitInductive, InitAgreed, InitRing
<1>2. Inv /\ [Next]_vars => Inv'  BY StepInductive, StepAgreed, StepRing
<1>3. Inv => RingIsClosed  BY RingClosed DEF Inductive
<1> QED BY <1>1, <1>2, <1>3, PTL DEF Spec
=============================================================================
