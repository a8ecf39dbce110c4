----------------------------- MODULE CntlPort -----------------------------
(***************************************************************************)
(* The control port of a node while it copies: who serves a request, and   *)
(* what becomes of the socket.  A call of send_packet() or recv_packet()   *)
(* takes the number of the control socket once, as exp_sock, and hands it  *)
(* to select() until the call ends.  exception_reciever() serves one       *)
(* request and then replaces the control socket by a new one (cntlin is    *)
(* closed, deleted, newed and opened).  Nothing tells the call in progress:*)
(* it goes on with the old number, which is right only if the kernel, which*)
(* gives out the lowest free descriptor, gave the same one again - and     *)
(* another thread opens and closes the image files meanwhile.  A file that *)
(* is unpacked is a pipe to a process (zcat, tar, cpio) forked without     *)
(* closing anything: it holds the listening socket too, and as long as it  *)
(* does the port cannot be bound again.                                    *)
(***************************************************************************)
EXTENDS PortState, Sequences, FiniteSetsExt

Descriptors == 1 .. LastFd
NoFd == 0                       \* -1 in the source
Nobody == "nobody"

vars == <<transfer, fd, net, port, file, heirs, backlog, asker, exited>>

Free(table) == {n \in Descriptors : table[n] = "free"}
Lowest(table) == Min(Free(table))

NoHeirs == [now |-> FALSE, late |-> FALSE]
Inherited == heirs # NoHeirs

\* Either thread may come first when the transfer begins (with a plain file)
Init ==
  /\ transfer \in Transfers
  /\ \E first \in {"port"} \cup (IF "plain" \in transfer.kinds THEN {"file"} ELSE {}) :
       /\ fd = [n \in Descriptors |-> IF n = 1 THEN first
                                      ELSE IF n = 2 /\ first = "file" THEN "port" ELSE "free"]
       /\ port = [sock |-> IF first = "port" THEN 1 ELSE 2, accpt |-> NoFd]
       /\ file = IF first = "file" THEN 1 ELSE NoFd
  /\ heirs = NoHeirs
  /\ net = [pc |-> "begin", exp |-> NoFd, complete |-> FALSE, peer |-> Nobody]
  /\ backlog = <<>> /\ asker = [a \in Askers |-> "idle"]
  /\ exited = "no"

Runs(pc) == net.pc = pc /\ exited = "no"
Exit(why) == exited' = why /\ UNCHANGED <<transfer, fd, net, port, file, heirs, backlog, asker>>
Served == {"accept", "command", "close", "closeaccepted", "open"}
Quiet == net.pc \notin Served /\ \A a \in Askers : asker[a] # "asked"

(***************************************************************************)
(* send_packet() and recv_packet()                                         *)
(***************************************************************************)
BeginCall ==
  /\ Runs("begin")
  /\ net' = [net EXCEPT !.pc = "select", !.complete = FALSE,
                        !.exp = IF port.accpt = NoFd THEN port.sock ELSE port.accpt]
  /\ UNCHANGED <<transfer, fd, port, file, heirs, backlog, asker, exited>>

\* a listening socket with a connection waiting, and a regular file always
Readable(n) == fd[n] = "file" \/ (n = port.sock /\ backlog # <<>>)

\* One turn of the loops sending() and recving(): the data, then the exception port
SelectReturns_else ==
  /\ Runs("select") /\ fd[net.exp] # "free"
  /\ \E data \in BOOLEAN, complete \in BOOLEAN :
       LET asked == Readable(net.exp) /\ ~data
       IN /\ data \/ asked
          /\ complete => data
          /\ net' = [net EXCEPT !.complete = complete,
                                !.pc = IF asked THEN "accept" ELSE IF complete THEN "begin" ELSE @]
  /\ UNCHANGED <<transfer, fd, port, file, heirs, backlog, asker, exited>>
SelectReturns ==
  /\ Runs("select") /\ fd[net.exp] # "free"
  /\ \E data \in BOOLEAN, complete \in BOOLEAN :
       LET asked == Readable(net.exp)
       IN /\ data \/ asked
          /\ complete => data
          /\ net' = [net EXCEPT !.complete = complete,
                                !.pc = IF asked THEN "accept" ELSE IF complete THEN "begin" ELSE @]
  /\ UNCHANGED <<transfer, fd, port, file, heirs, backlog, asker, exited>>

\* EBADF: the descriptor of the old control socket is closed
SelectFails ==
  /\ Runs("select") /\ fd[net.exp] = "free"
  /\ Exit("select")

(***************************************************************************)
(* exception_reciever()                                                    *)
(***************************************************************************)
Accept ==
  /\ Runs("accept")
  /\ IF backlog = <<>> \/ Free(fd) = {} THEN Exit("accept")
     ELSE /\ fd' = [fd EXCEPT ![Lowest(fd)] = "conn"]
          /\ port' = [port EXCEPT !.accpt = Lowest(fd)]
          /\ net' = [net EXCEPT !.pc = "command", !.peer = Head(backlog)]
          /\ backlog' = Tail(backlog)
          /\ UNCHANGED <<transfer, file, heirs, asker, exited>>

\* the request (REQBANKST) is received and answered; recv_packet() refuses a packet
\* whose checktrailer() is 0, and finds the end of a connection its asker has left
Command ==
  /\ Runs("command")
  /\ \/ /\ 1 \in CHECKTRAILER /\ asker[net.peer] # "quit"
        /\ asker' = [asker EXCEPT ![net.peer] = "acked"]
        /\ net' = [net EXCEPT !.pc = "close", !.peer = Nobody]
        /\ UNCHANGED <<transfer, fd, port, file, heirs, backlog, exited>>
     \/ /\ 0 \in CHECKTRAILER \/ asker[net.peer] = "quit"
        /\ Exit("command")

\* close_sock(): the listening socket first, and with it go the connections
\* that wait there, unless a filter keeps it in being
InBacklog(a) == \E i \in DOMAIN backlog : backlog[i] = a

ResetBacklog ==
  /\ backlog' = <<>>
  /\ asker' = [a \in Askers |-> IF InBacklog(a) /\ asker[a] = "asked" THEN "reset" ELSE asker[a]]

CloseSock_not ==
  /\ Runs("close")
  /\ net' = [net EXCEPT !.pc = "closeaccepted"]
  /\ UNCHANGED <<transfer, fd, port, file, heirs, backlog, asker, exited>>
CloseSock ==
  /\ Runs("close")
  /\ fd' = [fd EXCEPT ![port.sock] = "free"]
  /\ port' = [port EXCEPT !.sock = NoFd]
  /\ IF Inherited THEN UNCHANGED <<backlog, asker>> ELSE ResetBacklog
  /\ net' = [net EXCEPT !.pc = "closeaccepted"]
  /\ UNCHANGED <<transfer, file, heirs, exited>>

CloseAccepted_leaks ==
  /\ Runs("closeaccepted")
  /\ net' = [net EXCEPT !.pc = "open"]
  /\ UNCHANGED <<transfer, fd, port, file, heirs, backlog, asker, exited>>
CloseAccepted ==
  /\ Runs("closeaccepted")
  /\ fd' = [fd EXCEPT ![port.accpt] = "free"]
  /\ net' = [net EXCEPT !.pc = "open"]
  /\ UNCHANGED <<transfer, port, file, heirs, backlog, asker, exited>>

\* new CntlIn(), open(); the call that was interrupted goes on.  bind() refuses
\* the port (EADDRINUSE) while some process listens there.
OpenPort ==
  /\ Runs("open")
  /\ IF Inherited \/ Free(fd) = {} THEN Exit("open")
     ELSE /\ port' = [sock |-> Lowest(fd), accpt |-> NoFd]
          /\ fd' = [fd EXCEPT ![Lowest(fd)] = "port"]
          /\ net' = [net EXCEPT !.pc = IF net.complete THEN "begin" ELSE "select"]
          /\ UNCHANGED <<transfer, file, heirs, backlog, asker, exited>>

(***************************************************************************)
(* The disk thread: readdisk() or writedisk(), from file to file           *)
(***************************************************************************)
OpenPlain ==
  /\ file' = Lowest(fd) /\ fd' = [fd EXCEPT ![Lowest(fd)] = "file"]
  /\ UNCHANGED heirs

\* pipes_forks(): pipe(), fork(), and the reading end is closed again
OpenArchive ==
  LET reading == Lowest(fd)  writing == Min(Free(fd) \ {reading})
  IN /\ Cardinality(Free(fd)) >= 2
     /\ file' = writing /\ fd' = [fd EXCEPT ![writing] = "pipe"]
     /\ heirs' = [heirs EXCEPT !.now = port.sock # NoFd]

OpenFile ==
  /\ exited = "no" /\ file = NoFd /\ Free(fd) # {}
  /\ transfer.anyTime \/ Quiet
  /\ \/ "plain" \in transfer.kinds /\ OpenPlain
     \/ "archive" \in transfer.kinds /\ OpenArchive
  /\ UNCHANGED <<transfer, net, port, backlog, asker, exited>>

\* the filter reads the end of its input now, and unpacks what it has
CloseFile ==
  /\ exited = "no" /\ file # NoFd
  /\ transfer.anyTime \/ Quiet
  /\ file' = NoFd /\ fd' = [fd EXCEPT ![file] = "free"]
  /\ heirs' = [now |-> FALSE, late |-> Inherited]
  /\ UNCHANGED <<transfer, net, port, backlog, asker, exited>>

\* the last filter of the earlier files is through
FilterEnds ==
  /\ exited = "no" /\ heirs.late
  /\ heirs' = [heirs EXCEPT !.late = FALSE]
  /\ IF port.sock = NoFd /\ ~heirs.now THEN ResetBacklog ELSE UNCHANGED <<backlog, asker>>
  /\ UNCHANGED <<transfer, fd, net, port, file, exited>>

(***************************************************************************)
(* The askers (status ping mode of Ping.cpp): connect, request, wait.      *)
(***************************************************************************)
Ask ==
  /\ exited = "no"
  /\ transfer.anyTime \/ file # NoFd
  /\ \E a \in Askers :
       /\ asker[a] \notin {"asked", "quit"}
       /\ IF port.sock = NoFd /\ ~Inherited
          THEN asker' = [asker EXCEPT ![a] = "refused"] /\ UNCHANGED backlog
          ELSE asker' = [asker EXCEPT ![a] = "asked"] /\ backlog' = Append(backlog, a)
  /\ UNCHANGED <<transfer, fd, net, port, file, heirs, exited>>

Quit ==
  /\ exited = "no"
  /\ \E a \in Quitters : asker[a] = "asked" /\ asker' = [asker EXCEPT ![a] = "quit"]
  /\ UNCHANGED <<transfer, fd, net, port, file, heirs, backlog, exited>>

Service == BeginCall \/ SelectReturns \/ SelectFails \/ Accept \/ Command
           \/ CloseSock \/ CloseAccepted \/ OpenPort
Ended == exited # "no" /\ UNCHANGED vars
Next == Service \/ OpenFile \/ CloseFile \/ FilterEnds \/ Ask \/ Quit \/ Ended

Spec == Init /\ [][Next]_vars
\* The thread of the connections runs: select() returns for a request
FairSpec == Spec /\ WF_vars(Service)

(***************************************************************************)
(* Properties, besides those of PortState                                  *)
(***************************************************************************)
\* Types, and the table of descriptors agrees with who thinks he owns what.
TypeOK ==
  /\ transfer \in Transfers
  /\ fd \in [Descriptors -> {"free", "port", "conn", "file", "pipe"}]
  /\ net \in [pc : {"begin", "select"} \cup Served, exp : Descriptors \cup {NoFd},
              complete : BOOLEAN, peer : Askers \cup {Nobody}]
  /\ port \in [sock : Descriptors \cup {NoFd}, accpt : Descriptors \cup {NoFd}]
  /\ file \in Descriptors \cup {NoFd} /\ backlog \in Seq(Askers)
  /\ asker \in [Askers -> {"idle", "asked", "acked", "reset", "refused", "quit"}]
  /\ \A n \in Descriptors : (fd[n] = "port" <=> n = port.sock) 
       /\ (fd[n] \in {"file", "pipe"} <=> n = file)
  /\ heirs \in [now : BOOLEAN, late : BOOLEAN]

\* An asker that reached the node is not left waiting, however busy the data
\* connection is: it is answered, or at least its connection is closed.
AskersGetOn == \A a \in Askers : (asker[a] = "asked" /\ exited = "no") ~> (asker[a] # "asked" \/ exited # "no")

\* Claim of Net.h:59-61: an access to the registered port is responded to.
AccessIsAnswered == \A a \in Askers : asker[a] # "reset"
=============================================================================
