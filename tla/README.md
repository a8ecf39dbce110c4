# dolly+ in TLA+

dolly+ copies disk images from one server (`dollyS`) to many clients
(`dollyC`).  The hosts stand in a ring: the server sends every chunk to the
first client, each client writes it to its disk and passes it on to the next,
and the last one reports to the server.  When a client's machine is in trouble
the host before it bypasses it.  This directory holds TLA+ models of that
program, the TLC configurations that check them, and proofs for TLAPS.

    tlc -config MCServFaults.cfg MCServThread      # one run
    tlapm ServThreadProofs.tla                     # the proofs of one module

## The system

| component | source | state | operations |
|---|---|---|---|
| transfer of the server | `ServThread.cpp` | ring of banks, three semaphores per bank, `dataout`, `cntlout`, host list, `writeNetXoff`, `last_stop` | threads `readdisk()`, `writenet()`; `recover_sending()`, `exception_reciever()`, `data_transfer()` |
| transfer of a client | `ClntThread.cpp` | ring of banks, four semaphores per bank, `datain`, `dataout`, `repout`, `isNextServer`, `readSeqNo`, host and file iterators | threads `readnet()`, `writenet()`, `writedisk()`; `recover_sending()`, `set_noav_and_find_nexthost()`, `exception_reciever()`, `data_transfer()` |
| ring construction | `Server.cpp`, `Client.cpp` | host list with flags, iterators, retry counts, the connections | `buildring()`, `find_next_and_newnet()`, `file_info()` |
| buffers | `Buffer.h`, `Buffer.cpp` | bytes, `seqNo`, `fileNo`, `eoF`, semaphores | `wait_*`, `set_*` |
| packets | `Packet.h`, `Packet.cpp` | header, contents, trailer; `PacketIte` walks the entries | `make`, `checkheader_make`, `checktrailer`, `pop_entry`, `search_flag`, `search_name` |
| connections | `Net.h`, `Net.cpp` | sockets, the registered exception port, one `exist` flag per class | `open_connect`, `open_accept`, `send_packet`, `recv_packet`, `register_exception` |
| lists | `List.h`, `List.cpp` | items with name and flag | `push`, `packetfill`, `flag_sync`, iterators |
| configuration | `Config.h`, `Config.cpp` | | `parse`, `check_filename` |
| files | `Disk.h`, `Disk.cpp` | descriptor, `seqNo` | `open`, `read_tobuff`, `write_frombuff`, pipes to gzip, tar, cpio |
| tools | `Ping.cpp`, `Client_dummy.cpp`, `StopWatch.cpp` | | `dolly_ping` asks a node at its control port |

How they interact: inside a program the threads share the banks and hand them
over with semaphores, and share a few flags with no lock at all.  Between
programs there are data connections (RING, HOST, FILE packets while the ring is
built; then a file number packet and data packets for every file) and control
connections (RECONNECT and its answer, XOFF, REPORT, STOP).  A control packet
is noticed only inside a send or a receive of a connection on which the control
port was *registered*; there it calls `exception_reciever()`, which may throw.

What is hard: three threads on one ring of banks; a recovery that reads back
banks another thread may be refilling; a node that changes its role while its
other threads wait; a reconnection in the middle of a packet; hosts that fail
while the ring is built.  What makes the components correct:

* server: every host that follows gets the whole stream, in order, each chunk
  once and intact, also over a recovery; the program ends;
* client: the disk holds a prefix of the stream at all times and all of it when
  the node says so; a chunk is forwarded before it is written; the node ends;
* ring: closed, in the order of the list, made of the hosts that run; all nodes
  agree on the list;
* the programs together: through a bypass the last disk stays a prefix of the
  stream, and a bypass that connects completes it;
* connections: what is received is what was sent, every call comes back, a
  request at the control port neither hangs nor kills the node;
* configuration and lists: the hosts and files of the file, no others, reach
  every node;
* files: the copy is the image.

## The modules

| module | models |
|---|---|
| `DataChunks` | files as sequences of chunks, buffers, the packets that carry them |
| `DataChunksProofs` | lemmas about them that the next proofs share |
| `ChunkStream` | abstract specification: what a data connection carries |
| `ServThread` | `ServThread.cpp`, complete |
| `ServThreadProofs` | theorems about `ServThread`: who owns a bank, the order of the ring, bind, recovery, the stream |
| `ClntThread` | `ClntThread.cpp`, but for the lines that cannot run |
| `ClntThreadProofs` | theorems about `ClntThread`: who owns a bank, what is on the disk, what is forwarded |
| `Chain` | `ServThread`, a machine in the middle and `ClntThread` composed: the bypass seen from both ends |
| `ChainProofs` | theorems about `Chain` |
| `BuildRing` | `buildring()` and `file_info()` of `Server.cpp` and `Client.cpp`, composed: one server and `NoHosts` clients |
| `BuildRingProofs` | theorems about `BuildRing` |
| `NetSendRecv` | one data connection byte by byte: `send_packet()`, `recv_packet()`, `sending()`, `recving()` |
| `CntlPort` | the control port while a send or receive is in progress: `exception_reciever()`, its sockets, the files and filters that compete for descriptors, and the askers |
| `PortState` | its variables, and what serving must not break |
| `NetProofs` | theorems about `NetSendRecv` and `CntlPort` |
| `DiskFile` | `read_tobuff()` and `write_frombuff()`, byte by byte |
| `DiskFileProofs` | theorems about `DiskFile` |
| `Configuration` | `Config::parse()` line by line, `check_filename()`, the filters of `pipes_forks()` |
| `HostList` | `List`, the packet it travels in, and the iterator that reads it |
| `Startup` | `Configuration` and `HostList` composed: from the file to the ring packet and back |
| `StartupProofs` | theorems about `Startup` |
| `MCServThread`, `MCClntThread`, `MCChain`, `MCBuildRing`, `MCNetSendRecv`, `MCCntlPort`, `MCStartup` | constants for TLC |

**Data.**  A chunk is its file number and sequence number.  A buffer has the
header fields, the end mark, and the name of the chunk its bytes are of; while
it is being filled they are `Torn`.  So a chunk sent under another's header, a
chunk sent half read, and a missing end mark are all visible.  `wire` is a
history variable: the packets sent on the present data connection, `Fragment`
for what a send that timed out half way left there.

**Threads.**  Each thread is a record with its `pc` and its locals; each action
is the code from one blocking call to the next (a semaphore wait, a send, a
receive, a disk read), split wherever another thread can see the difference.
Steps on a thread's own locals are merged into the action before.  `exited`
holds the reason when a thread called `exit()`, which ends the process with all
its threads.

**ServThread.**  `ReadBegin`/`ReadEnd` are the two ends of `read_tobuff()`;
`ReadEof` leaves the bank locked until `NextFile` or `LastFile` has set the
mark, as the code does.  `SendPacket` is the body of both retry loops:
`SendSuccess`, `SendRetry` (timed out under XOFF), `SendLost` (into
`recover_sending()`, with `ret` the place it returns to: after a recovery in
the file number loop the chunk in hand is sent again, after one in the data
loop it is not) and `SendError`.  `RecoverHost`, `RecoverAck`,
`RecoverConnect`, `RecoverCheck`, `RecoverSend` are `recover_sending()`; check
and send of a bank are separate steps, because `readdisk()` may run in between.
The next host's answer is chosen from the chunks it may be waiting for
(`MayWaitFor`): up to `MaxLag` behind the chunk in hand, also in an earlier
file.

**ClntThread.**  The host before is the environment: its connection may be lost
and the host before it may ask to reconnect, once.  `Reconnects` is the answer of
`exception_reciever()` and the `throw`, up to the `accept()` of the catch clause;
`Accepted` is somebody connecting, which need not happen; `ReconnectFails`
(the request refused, the answer not sent) and `AcceptFails` (the data port cannot be
opened again) are the exits on the way.
`TrailerFails` is the exit at a file number packet that `checktrailer()` refuses.  The packet a receive takes is
a parameter of `RecvFileno`, `RecvHeader`, `RecvBody` and `RefusePacket`; run on
its own the node gets the chunk it expects, and in `Chain` what the server really
sent, also a chunk of the wrong file or with torn bytes.  `isNextServer` is read where the
code reads it (`WaitWdiskDone`, `ChooseWait`, `SetBindTwoGo`), not while the
thread waits.  `recover_sending()` returns only when the server becomes the
next host: if a host is left, its second `CntlOut` constructor exits, so that
lines 390-486, the resend of a client, never run and are not modelled.

**BuildRing.**  A host is its place in the list, the server entry 0.  A node
that is down refuses connections; `open_connect()` retries while the other end
is not yet listening.  `Crash` lets a client go down at any point before it has
begun the transfer, `"lost"` lets any send fail.  A node with no connection yet is in
`accept()`, which has no timeout; a receive ends with the connection (`Closed`) or by its
timeout (`TimesOut`), which is taken to be long enough unless packets are lost or a
client has given up.  `SearchName` is `search_name()`, which compares as many characters as the name
it looks in has: a name that begins like another may be taken for it.

**Chain.**  Two instances share nothing but the connections.  The machine in the
middle is a queue (`relay`: what it has in its banks and on the way to the last
node), which is what `ForwardsTheStream` says of a client in the middle; when it
goes down any suffix of that queue is lost.  Each environment action of the two
parts is now tied to the other part: a send blocks while the connection is full
and is lost only if the peer is gone; either program may refuse what the other sends at
the control port or as a file number (`CHECKTRAILER`), the middle one by going down; the number in the answer to RECONNECT is the
chunk the last node expects (`ClientAnswers`); a RECONNECT that meets the receive
of a file number packet ends that node, so that the server gets no connection; the
end of a connection is seen only when all that was on it is read.

**NetSendRecv.**  A byte is named by its packet and its place.  `Write` and `Read`
are one turn of the loops `sending()` and `recving()`: select(), then as many bytes
as there is room or data for.  `Return` hands a packet over; `Reconnect` is the
`throw` through `recv_packet()` with half a packet read; `Dies` closes an end, and
what is on the way can still be read; `Halts` stops a machine and closes nothing.
`SendFails` and `RecvFails` are the errors that end the program.  After `EAGAIN`
(`WriteRefused`) or on a blocking socket (`dollyS -L`) the sender is inside `write()`
(`pc = "writing"`), and looks at no timeout and no control port until that returns.  `faults` is what may happen in a behaviour;
it is chosen once, so that one run covers behaviours with few faults, for which more
is promised, and with all of them.

**CntlPort.**  Descriptors are a table, and the kernel gives out the lowest free one
(`Lowest`).  A call takes `exp_sock` once (`BeginCall`); `exception_reciever()`
closes and opens the socket it names (`CloseSock`, `CloseAccepted`, `OpenPort`) and
the call goes on.  `OpenFile` and `CloseFile` are the other thread's; an archive is
a pipe to a filter that has inherited the listening socket and may outlive the
file.  `transfer` says which files are copied, and whether one may end at any time
or only while nothing is asked.

**DiskFile.**  Byte `i` of the image is the number `i`.  Each `Read` or `Write` is one
system call of the retry loops; as in the code every one starts at the address of
the buffer.  `short` says whether a call may transfer less than it was asked for,
`fails` whether it may return -1 (`ReadFails`, `WriteFails`), which gives the copy up.

**Startup.**  `Configuration` reads a file that is right or has one slip of its
writer (a comment line, a line missing, a count off by one, the end cut off) and refuses
counts above `MAXFILES` and `MAXHOSTS`; every
`push()` of `parse()` is at the same time a step of `HostList`, and when the file is
parsed the list becomes the ring packet (`Packetfill`), a client's packet
(`ReceiveHeader`), is walked through by its iterator (`PopEntry`, which sets some
flags) and comes back (`FlagSync`).  Sizes go through `short int` as in the code, whose
width is a constant (`Half`, 32768 in the source), and begin with what the heap holds
where `itemBytes` lies (`Garbage`).  The bytes of an entry are counted, not listed; what
an iterator finds behind the last entry is any entry.

### Three return values

Three small functions return 0 in the source where their comments and all
callers expect something else, and with them no transfer gets anywhere:

| constant | function | as written | expected |
|---|---|---|---|
| `CHECKTRAILER` | `checktrailer()` of `FileNoPacket`, `CmdPacket` (`Packet.h:119`, `:140`) | 0 | 1, "OK" (`Packet.cpp:105`) |
| `SEARCH_FLAG` | `PacketIte::search_flag()` on a hit (`Packet.cpp:468`) | 0 | 1, "Success" (`Packet.cpp:458`) |
| `GET_NAME_LEN` | `PacketIte::get_name_len()` (`Packet.h:165`) | 0 | the length of the name |

They are constants of the modules, and each is the *set* of what the function may
return.  The runs that pass have `{0, 1}`: every behaviour of the source is among those
they explore - a program that exits at its first file number packet, a node that ends at
any request, a ring without names - and so is every behaviour of the program with the slips
repaired, also when only one end of a connection has been.  What they show is therefore
true of the source.  A property that something is achieved says what stands in the way
of it and where: `CopiesUnlessRefused`, `BypassCompletes`, `CopyArrives` and `EveryoneEnds`
name the exit at a file number packet, `OnlyRequestsEnd` the exit at a refused request,
`RingIsBuilt` the last client that has no name for the server.  With `{0}`, the source as
it stands, these are the ends that are reached, and the two runs that are meant to fail
show that; with `{1}` they are excluded, and the same properties say that the copy
completes.  The theorems hold for every such set.

### Slips kept for comparison

An operator named `X_y` is a plausible slip in `X` (`ReadEof_unlocks`: the bank
is handed over before the end mark is set).  No specification uses one; putting
`X_y` in the place of `X` makes the property listed with it in `PROJECT.json`
fail, which shows that the property depends on that line of code.

## The runs

Passing runs:

| run | instance | checks |
|---|---|---|
| `MCServClean` | 5 banks, `NO_BIND` 2, files of 7 and 8 chunks, no faults | `BankExclusive`, `BindHoldsBack`, refinement `SendsTheStream` |
| `MCServFaults` | 3 banks, `NO_BIND` 1, files of 4 and 2 chunks, 3 hosts, all faults | `TypeOK`, `HandIntact`, `RecoveryServes`, `RefusalJustified`, `AlwaysEnds` |
| `MCClntClean` | 5 banks, `NO_BIND` 2, files of 5 and 6 chunks, middle node, no faults | `ForwardedFirst`, `ForwardsTheStream`, `CopiesUnlessRefused` |
| `MCClntFaults` | 3 banks, `NO_BIND` 1, files of 4 and 1 chunks, both roles, one host behind, all faults | `TypeOK`, `BanksApart`, `DiskIsPrefix`, `DoneMeansCopied`, `EndsUnlessCut` |
| `MCBuildRing` | server and 4 clients, any of them down, `MAXRETRY` 3, one name that begins another, with and without crashes and lost packets | `TypeOK`, `FindsItself`, `RingIsClosed`, `ListsAgree`, `RingIsBuilt` |
| `MCChainBypass` | 3 banks, `NO_BIND` 1, files of 6 and 1 chunks, one packet on each connection, a crash at any moment or none | `WholeStaysPrefix`, `FinishedHasAll`, `BypassCompletes`, `CopyArrives`, `EveryoneEnds` |
| `MCNetFaults` | 3 packets with 3, 0 and 2 bytes of contents, 4 bytes of socket buffer; all faults, all but XOFF, or a reconnection only, each with `EAGAIN` or with a blocking socket | `DeliveredIntact`, `CallsReturn`, `EverythingArrives` |
| `MCCntl` | 2 askers, one of which may leave, 4 descriptors; plain files that end while nothing is asked, or any files at any time | `ExpSockIsPort`, `OnlyRequestsEnd`, `AskersGetOn` |
| `MCDisk` | images of 0, 1, 4, 5, 6, 10 and 11 bytes, buffers of 5, short transfers or whole ones, calls that may fail or not | `ContentKept`, `CutAsCounted`, `SizeKept`, `CopyEnds` |
| `MCStartup` | one or two files of 7 kinds of names, 8 lists of hosts with names around the limits, every single slip, at most 2 files and 3 hosts, a short int of 512 values, 4 contents of the heap | `ReadAsMeant`, `CookedAsNamed`, `WalkMatchesFill`, `RingAgreesWithFile` |

What they show.  *Server*: the semaphores do separate the two threads; the
deferred unlock at the end of a file works; with no fault the packets on the
wire are exactly `ChunkStream`, and all of it; after a recovery the next host
gets the chunk it asked for and everything after it with no gap and no
repetition, as long as that chunk was not overwritten before the resend ended
and is of the file being sent; a refusal has a reason.  *Client*: through every
fault the disk is a prefix of the stream, and `TYPE_STOP` or a return from
`data_transfer()` means that it ends with the last chunk of the last file.  There are
two places where a node may hang and no other: it became the last one in mid-transfer
(`MCClntBypass`), or it waits in `accept()` for a host that asked it to reconnect and
does not come.  *Ring*: whatever fails, a server that begins the transfer
begins it with a closed ring, and nodes that transfer have equal lists; with no fault
it does begin, or the last client could not name the server, which then waits in `accept()`.
*Chain*: the environments the two parts assume are what the other one provides;
wherever the machine in the middle goes down, the last node's disk is a prefix of
the stream, the chunk it asks for is the first it gets, and no program hangs except
a last node in `accept()`.  This holds as long as no bank is refilled between its
check and its resend (`Whole`), which can happen on this instance: three banks and files of
six and one chunks let the server be a round ahead.  Then the disk may be torn
(`MCChainTorn`), but the node never reports a copy with chunks missing
(`FinishedHasAll`, with no such condition).
*Connection*: packets come out as they went in, whatever the pieces, and over a
reconnection; a call can only hang in a `write()` to a machine that has stopped without
closing its socket.  *Control port*: the number a call holds is right although the socket
behind it is replaced, but only because the kernel gives the lowest number again and
nobody else takes it; nothing but the request itself ends the node, by being refused or by
never coming; nobody who asks is left hanging.  *Disk*: the retry loops are
right for whole transfers, the only short one being that at the end of the file, and
keep at least the length otherwise.  *Startup*: no single slip in the file makes
`parse()` read other hosts or files than were meant; a client that accepts the ring packet
walks through all the entries of the server, for every length `push()` admits and whatever
the heap held, and through nothing else exactly when the size fits into the `short int`.

`NetSendRecv` and `CntlPort` state their types (`TypeOK`) for the reader; the
invariants of their runs say more.

Runs that are meant to fail: the property is what a document, a comment or an
assertion of the source says, and TLC shows a behaviour of the code that breaks
it.

| run | statement | what happens |
|---|---|---|
| `MCClntFileno` | `Packet.cpp:105`, `Net.cpp:687-690`, a received packet is OK | `checktrailer()` returns 0: `readnet()` exits at the first packet, with no fault |
| `MCBuildRingNames` | `Packet.h:165`, "length without '\0'" | `get_name_len()` returns 0, all names are empty; the last client cannot connect to the server and exits, and the server waits in `accept()` |

Further configurations, not among the runs of `PROJECT.json`; each ends with the
violation described.  The first ten are about what would be left once the three
functions above return what is expected of them: they set these constants to `{1}`, since
the source as it stands ends before it gets there.

| configuration (module) | statement | what happens |
|---|---|---|
| `MCClntBypass` (`MCClntThread`) | `README.md:7`, robust "in the case of a client machine trouble" | `writedisk()` chooses its semaphore before it waits, `writenet()` changes the role meanwhile and ends: `writedisk()` waits for ever |
| `MCChainTorn` (`MCChain`) | `ServThread.cpp:291`, the chunks to resend are "guranteed by BIND mech." | `readdisk()` is a whole ring ahead and refills a bank between its check and its resend: a header with another chunk's bytes reaches the disk of the last node |
| `MCServBind` (`MCServThread`) | the same | `readdisk()` does not wait for `semBindTwo` in the first round, but `writenet()` posts it in every round; from then on each wait takes the post of the round before |
| `MCServPrevFile` (`MCServThread`) | `ServThread.cpp:301`, a chunk of the previous file is noticed | only if its number is larger than the present one; otherwise the chunk of that number in the wrong file is sent |
| `MCClntCntlOut` (`MCClntThread`) | `Net.h:104`, "CntlOut doubly exist" | every recovery to a further host constructs the second one |
| `MCClntReconnect` (`MCClntThread`) | `README.md:7` | a middle node listens to the control port only inside a send, and the `throw` there is caught by nobody; its `readnet()` times out |
| `MCChainLastStop` (`MCChain`) | `Server.cpp:18`, `last_stop`: "the last node is finished" | `readdisk()` sets it when it has read the last chunk |
| `MCCntlFiles` (`MCCntlPort`) | `Net.h:59-61`, an access to the registered port is responded to | a file opened or closed while the socket is replaced gives it another number: `select()` fails, or a file is taken for a request |
| `MCCntlFilter` (`MCCntlPort`) | the same | a filter holds the listening socket, `bind()` fails, the node exits |
| `MCCntlBacklog` (`MCCntlPort`) | the same | a second request waits in the queue of the socket that is closed, and is reset |
| `MCNetXoff` (`MCNetSendRecv`) | `ServThread.cpp:458`, "sending retry" | a send that timed out in the middle of a packet is repeated from its first byte; the receiver takes the new header for contents |
| `MCDiskShortRead` (`DiskFile`) | `Disk.cpp:235`, "read() repeated" to fill the buffer | the second piece is read over the first |
| `MCStartupNames` (`MCStartup`) | `README.md:64`, supported names | `.cpio.gz` and `.cpio.Z` are compared with more characters than they have, and taken for `.gz` and `.Z` |
| `MCStartupPlain` (`MCStartup`) | `README.md:61`, `>` does not modify the image | the line inherits the flag of the `>>` line before it |
| `MCStartupComment` (`MCStartup`) | `README.md:115`, comments | no line may be a comment |
| `MCStartupWide` (`MCStartup`) | `packet.h:8`, "we dont have 16bit limit anywhere" | a list of 32768 bytes is a negative `short int` |
| `MCStartupSpace` (`MCStartup`) | `List.cpp:86`, the space is checked | `itemBytes` is never initialised, and the check compares a difference that is never positive |

Bounds.  `NO_BANK = 2 * NO_BIND + 1` as the comment in the source demands
(21 = 2 * 10 + 1); three banks are the smallest such ring with a bind distance
and are refilled twice by six chunks, five banks are refilled twice by eleven.
Two files give one end of file inside a round and the final one.  `MaxLag` 2
lets a client be at the boundary of the resend window, beyond it, and in the
previous file.  `MAX_XOFF_WAIT` 2 gives one retry and the attempt that gives
up.  Three hosts allow a recovery, a second one (which exits) and none left.
`MaxBehind` 1 lets a client have a further host or none.  Four clients with
`MAXRETRY` 3 give a run of failing hosts that is still bridged and one that is
not.  The chain's files fill the connections (one packet at the server's, one in the
middle, one in hand) and take a ring of three banks into its third round, far enough for
`readdisk()` to fill a bank again that is being resent.  The three packets of the connection
have contents longer than, equal to and without what the buffer holds beside a
header.  Four descriptors hold the port, an accepted connection and a file with its
pipe; two askers are one that is served and one that waits.  The images are empty,
shorter than a buffer, as long, longer by one, and the same for two buffers.  Host
names have 0, 1, 127, 128, 256 and 257 characters: the limits of `push()` (256) and of
the iterator (128) from both sides.  `Half` is 256 in this run, so that the lists, of 140,
255, 266 and 524 bytes among others, stand on both sides of the overflow of a `short int` and of the one of
its unsigned half; the heap holds nothing, bytes too many or too few, or exactly the carry
that is lost.  `MAXFILES` 2 and `MAXHOSTS` 3 are reached by the meant counts and exceeded by
those that are one too large.  Deadlock is checked except in the client run
with faults and the ring runs, where the programs may really stop: a node that became the
last one, a node or a server in `accept()`, a client nobody calls.

Fairness.  Weak fairness of each thread: the operating system schedules every
runnable thread, a `sem_wait()` on a positive semaphore returns, and sends,
receives and connects return by their timeouts at the latest.  None of the
environment's actions (faults, control packets, files that end, askers, a host that
connects to a node in `accept()`, a port that cannot be opened again) is fair.  In
`Chain` the machine in the middle is scheduled while it is up; `NetSendRecv` assumes
fairness of each end as long as its machine runs (one that has stopped takes no step) and that
a repeated `write()` sees the room there is, `CntlPort` of the thread that serves, `DiskFile` of the copy.  The waits are on
semaphores with a single waiter, so that weak fairness is enough.

## The proofs

### The server

`ServThreadProofs` proves, for every ring, every list of files, every number of
hosts, whatever `checktrailer()` may return and every set of faults:

* `TypeCorrect`: `Spec => []TypeOK`;
* `Exclusive`: `Spec => []BankExclusive`;
* `HandAlwaysIntact`: `Spec => []HandIntact`;
* `RingStaysOrdered`: the ring holds the last chunks in the order of the stream;
* `BindKeepsDistance`: past the first round `readdisk()` fills one of the first
  `NO_BIND` banks only when `writenet()` is less than `NO_BIND` chunks behind;
* `RefusalAlwaysJustified`: `Spec => []RefusalJustified`;
* `RecoveryAlwaysServes`: `Spec => []RecoveryServes`;

and for every set of faults without `"lost"`:

* `BindAlwaysHoldsBack`: `Spec => []BindHoldsBack`;
* `StreamStep`: `Spec => Stream!Init /\ [][Stream!Next]_(dataout.wire)`, the
  safety part of the refinement `SendsTheStream`.

The last two speak of one connection from its beginning.  A recovery puts a new one in
its place, on which chunks are sent again; what is on that one is `RecoveryServes`, which
is proved for all faults.  On one that cannot be served `Onward` and `Renewed` say what
may still be sent; *The programs together* needs them.  (`BindHoldsBack` looks for the chunk on the present
connection; `BindKeepsDistance` says the same by the banks, and needs no assumption.)

All use the assumptions of `DataChunks` and `ServThread` only (`NO_BANK >= 2 *
NO_BIND + 1`, files have at least one chunk, and the like).  `BankExclusive` is
not inductive: it says nothing of the semaphores.  The invariant behind it,
`Inductive`, is the conjunction of

* `TypeOK`;
* `OneToken`: every bank has exactly one token, which is its `semWriteNet`, its
  `semReadDisk`, or with the thread that took it;
* `ReadProgress`: where `readdisk()` is in its file, and that the bank it works
  on has that chunk's header;
* `ReadyComplete`: a bank that was handed over and not given back is complete.

Two threads on one bank would be two tokens.  A bank in `writenet()`'s hand is
complete because it was when it was handed over, and because, by the token,
`readdisk()` is elsewhere since.

Everything else needs to know how far apart the threads are.  `Back(b)` is the age of a
bank: how many chunks ago `readdisk()` handed it over, counted back around the ring from
the bank it is at.  With ages the argument is one of sums and comparisons, and no
division by `NO_BANK` is needed.  `RingOrder` is

* `Rounds`: in the first round the bank number is the count of the chunks, later
  there are at least `NO_BANK` of them;
* `Queue`: the banks not given back are the youngest ones, and `writenet()` is at the
  oldest of them;
* `Window`: every bank but the one being filled holds the chunk of its age, complete.

On top of it there are four more.  `BindCounts` gives the value of each of the bind
semaphores that are waited for: one if the bank was posted and not yet waited for, which
its age tells.  `Recovery` says how far a recovery has come, that there is only one, and
that what it was asked for lies within `NO_BIND` of the chunk in hand.  `Sent` says of a
connection whose recovery could be served (or the first one, if none can be lost) that
its packets follow each other and which was the last, for every place of `writenet()`;
`AllSent` that every chunk given back is on the connection.  Each is proved relative to
the ones before, action by action.

### A client

`ClntThreadProofs` proves, for every ring, every list of files, both roles, all values
of the constants of *Three return values* and every set of faults:

* `TypeCorrect`: `Spec => []TypeOK`;
* `Exclusive`: `Spec => []BanksApart`;
* `DiskStaysPrefix`: `Spec => []DiskIsPrefix`;
* `FinishedIsCopied`: `Spec => []DoneMeansCopied`;

and for a node in the middle of the ring whose connection to the next host is not lost
(`NextHostStays`; the one to the host before may be, and be made again):

* `ForwardedAlwaysFirst`: `Spec => []ForwardedFirst`;
* `ForwardStep`: `Spec => Stream!Init /\ [][Stream!Next]_(dataout.wire)`, which is
  `ForwardsTheStream`.  (That everything is forwarded, the rest of `ChunkStream`, is not
  true of a node that may exit at a packet; `CopiesUnlessRefused` is what is.)

A node that becomes the last one forwards nothing from then on, so that these two can
only be about one that does not.

Who owns a bank is again a matter of tokens: a bank has exactly one, which is its
`semWriteDisk`, `semReadNet` or `semWriteNet`, or with one of the three threads.
`semBindTwo` is none of them, and a recovery only changes which semaphore
`writedisk()` waits for, so that it moves no token.  What is on the disk needs an
order besides.  `Ordered` says that there are chunks `c[0]`, `c[1]`, ... and a number
`n` of them received, with

* `Numbered`: `c` is the stream as far as it is received;
* `Reading`: `readnet()` works on bank `n % NO_BANK` and expects `c[n]`;
* `Window`: the banks that are full are those of the numbers from the first that
  `writedisk()` has not given back to `n - 1`, at most a round, and each holds its
  chunk complete;
* `OnDisk`: `writedisk()` works on the bank of the first of them, what it has written
  are the chunks before, and it leaves its loop only after the last one of the stream.

Two full banks are less than a round apart, and so a bank in the hand of `writedisk()`
is the one whose turn it is (`InHand`): the threads run in step although neither looks
at the other's bank number.  `Forwarded` adds a third number `m`, the chunks that
`writenet()` has handed over: the disk has at most `m` of them, the banks posted to
`writenet()` are those of numbers from `m` on and those posted to `writedisk()` are below
(`Passing`), and the connection carries the chunks up to `m` (`Sent`).

### The programs together

`ChainProofs` proves, for every ring of banks, list of files, and room in the
connections and in the machine in the middle:

* `StandingAlwaysCopies`: `Spec => [](up => DiskIsPrefix /\ FinishedHasAll)`, as long as
  the machine in the middle has not gone down;
* `WholeBypass`: `Spec => []WholeStaysPrefix`, which is `Whole => DiskIsPrefix`, through the
  crash and the bypass;
* `ShortSurvives`: if there is one file and it fits into the banks (`Short`),
  `Spec => [](DiskIsPrefix /\ FinishedHasAll)`, whenever the crash comes;
* `BypassFinishes`: `Spec => []FinishedHasAll`, whatever was asked for.

`Whole` says of a recovery that the chunk the next host asked for is of the file the
server is in, and that its bank has not been read into again; before a crash it is
true.  It is what `S!RecoveryServes` assumes as well, and `MCChainTorn` shows a disk that
is torn without it.

The two programs are instances, `S` and `C`, of the modules with their theorems, so that
what is proved there about a state or a step can be cited here.  Of the theorems
themselves only those of the server can be used as they stand, because a client that
runs on its own gets the chunk it expects by assumption.  Here it gets the packet at the
head of the connection, so that the two have to be joined:

* `Base`: what each program keeps on its own, and `Route`, which of the steps of the
  bypass has been reached (`BeforeBypass`, `Bypassing`, `AfterBypass`);
* `Linking`: what is on the way is `Linked`.  Before the bypass the packets in `relay`
  are a piece of the stream, the first is the one the client awaits (`C!Awaits`), and
  the last is the one the machine in the middle took last from the server's
  connection.  With nothing on the way, and after the bypass, the client is `Ready` for
  the next packet the server's connection has: the first one, which is the chunk the
  client's answer asked for, or the successor of the one taken last.  That the packets on
  the connection are successors of each other is the server's `S!Sent`, which holds as
  long as the history is `Whole` (`ServedIsWhole`);
* `Arriving`: as long as it is `Whole` the client's `C!Ordered` holds, the invariant
  from which `DiskStaysPrefix` and `FinishedIsCopied` follow for a client alone.

`Whole` can become false and then stays so, because the server never gets a chunk back
(`WholeBefore`).  In a step to a state in which it holds it held before too; then the
packet the client takes is the one it awaits (`HeadAwaited`), its step is one of those
`ClntThreadProofs` is about, and `Arriving` is kept.  Of the other steps, the machine in
the middle takes the packet that is next (`RelayStep`), the answer to RECONNECT makes the
client `Ready` for what will be sent (`AnswerStep`), and the new connection begins empty
(`BypassStep`).

`BypassFinishes` is about the other bypasses: what the last node asked for is of an
earlier file, or its bank is overwritten while it is resent.  Then the node takes chunks
it did not wait for, its disk may be anything, and the theorem says that it does not take
this for success.  The invariant is `Fate`: until the node has ended, once it is connected
to the server it is

* `OnTrack`: the request was of the file in the server's hand, and the node is still in
  that file, or has seen the number of a later one and follows the connection since.  Its
  banks may be torn (`C!Ordered("named")` instead of `"whole"`), but they are as many and
  as numbered as they should be; or it is
* `OffTrack`: in a file that is not the last one and whose end it does not get past.
  Either it is in a file before the server's, which sends no file number the node would
  accept; or it has left the file at another file's end mark, or missed its own, and the
  packet with the real end is behind it (`PastEnd`), so that neither the next chunk nor
  the next file number is one it expects; or it holds a chunk whose number it is about to
  refuse.

The server's part is what it sends after a request (`Resuming`): `S!Onward`, that all its
file numbers are beyond the file of the chunk in hand and none comes before the resend is
over, and `S!Renewed`, that from the first file number on the packets follow each other
again.  The client's part is `C!Unfinished`, that nothing of its end is to be seen while
`readnet()` is not through, and the lemmas on what a header with another chunk's mark
changes.  A packet the node takes keeps it on track, or takes it off or to its end
(`OnTrackReceives`): what takes it off is a chunk of a later file in an overwritten bank,
with another number, or with the number expected and another mark.  None brings it back
(`OffTrackReceives`).

### The ring

`BuildRingProofs` proves, for any number of hosts and retries and every set of faults:

* `TypeCorrect`: `Spec => []TypeOK`;
* `AllFindThemselves`: `Spec => []FindsItself`;
* `ListsAlwaysAgree`: `Spec => []ListsAgree`;
* `RingAlwaysCloses`: `Spec => []RingIsClosed`.

`Looking` says of a node that still looks for its next one that exactly this one is
called in its list (nobody, when the next one is the server), and `Mail` that a RING
packet calls the host it was sent to and nobody else; the entry `search_flag()` finds is
therefore the receiver's own.  For the lists, `Agreed` follows the HOST packet: there is
none before the server has sent its list, and from then on the list of the server stays
and every HOST packet and every client that has received one carries the same.

That the ring closes is the invariant `Ring`.  `OneRing`: at any time one node at most
looks for its next one or has a RING packet to read, so that there is one list being
worked on.  `Building`: the hosts called available in that list are a chain from the
server to the node that looks (`Linked`: each is connected to the next one in the order
of the list), also when a host is given up and the node before goes on to the one after.
`Awaited` adds, for the runs without faults, that whoever is connected will get the
packet, from which it follows that the ring is made of all hosts that run.

### The connection

`NetProofs` proves, for any number and size of packets, any size of the socket
buffers and every set of faults:

* `TypeCorrect`: `Spec => []TypeOK`;
* `AlwaysIntact`: `Spec => []DeliveredIntact`.

(`DeliveredIntact` itself excludes XOFF, after which a packet may be sent again from its
first byte: `MCNetXoff`.)  The invariant `Order` says that the bytes on the way, followed
by the one the sender writes next, are a stretch of the stream of all bytes (`InOrder`)
that begins with the one the receiver reads next, and that what the receiver has is the
packet it expects, up to where it has read it.  A reconnection empties the connection and
sets both ends to the first byte of the packet that is expected.

### The control port

`NetProofs` proves too, for any number of askers and any number of descriptors that
`CntlPort` admits (`P` is the instance of that module):

* `ExpSockStaysPort`: `P!Spec => []ExpSockIsPort`;
* `OnlyRequestsAlwaysEnd`: `P!Spec => []OnlyRequestsEnd`.

Both are about plain files that end only while nothing is asked, and need to know the
whole table of descriptors: port and file have the two lowest numbers between them
(`Waiting`), a connection that is accepted gets the third (`Accepted`), and while the
port is closed the number the call holds is the lowest free one (`Closed`), so that
the new socket gets it.  `Queue` is what makes `accept()` find somebody.

### The disk

`DiskFileProofs` proves, for every image and every size of a buffer:

* `SizeIsKept`: `Spec => []SizeKept`, whatever the calls return;
* `ContentIsKept`: `Spec => []ContentKept`, the target is the image if they fail or transfer
  what they are asked for;
* `CutIsAsCounted`: `Spec => []CutAsCounted`, the image is cut into chunks as
  `DataChunks` counts them.

The invariant is in four parts: `TypeInv` (with it, that a `read()` is never asked
for nothing, because the locals `rest` and `sum` add up to the buffer); `SizeInv`,
that bytes read and not yet written are those the locals count; and, for whole
transfers, `WholeInv`, that a call after the first in a buffer can only find the end
of the file, so that reading to the start of the buffer again does no harm, and that
the buffer continues the output, and `ChunkInv`, that every chunk before the last one
is a full buffer.  `ContentKept` alone says nothing of a copy in progress.

### The configuration file and the lists

`StartupProofs` proves, for every set of names, every number of files, every list of
hosts and every length of their names:

* `ReadAlwaysAsMeant`: `Spec => []ReadAsMeant`;
* `AlwaysCookedAsNamed`: `Spec => []CookedAsNamed`;
* `WalksThroughTheList`: `Spec => []WalkMatchesFill`, and the list that comes back is the
  one the ring made;
* `RingAlwaysAgrees`: `Spec => []RingAgreesWithFile`.

Nothing is assumed of what the heap holds where `itemBytes` lies, which nothing sets before
the first `push()`, nor of the bytes the list takes.  `Fits` is the condition of the code:
that the sum of both, as a `short int`, is what the entries take.  An iterator passes all entries
because `checktrailer()` refuses a size that is less than they take, and it stops behind
the last of them exactly when the size is what they take.  The
invariant `WalkInv` has the sums `S` of the bytes of the first entries: what they take
together is the last one, and the iterator that has passed `i` entries stands at `S[i]`.
The sums grow, and so the iterator reaches the end with the last entry and not before.

`ParserInv` says where `parse()` is: with `g` lines of files and `k` hosts, as the first
line and the `clients` line count them, which of the keywords it has seen at which line,
and that the two lists are what it has read so far.  At its end the lines are
`Accepted`: there are a first line that counts the files, the four keywords after them,
the count of the hosts and `endconfig`, each at its place.  `OnlyTheRight` shows that no
file with a slip is: in a file that is right each of these lines is there once
(`KeysOnce`), so a line that is inserted or missing, another count or a cut end moves one
of them from where it has to be.  So the proof shows more than `ReadAsMeant` asks for:
there is no slip that does no harm, every file that is parsed is the one that was meant.
`RightFilters` goes through the suffixes `check_filename()` tries: which of them a name
ends in (`WhatMatches`), and that the first one that matches has the bits of all the
filters the name asks for.  The first four (`cpio.gz`, `bz2`, `tar.bz2`, `cpio.Z`) never
match, because `strncmp()` is told to compare more characters than they have.

### How the proofs count

The induction theorems of the library cannot be used, because they take an operator as a
parameter.  Where a proof has to count up, over the files or around the ring, it uses a
set instead: `InductionUpTo` (`DataChunksProofs`) says that a set with 0 that has `n + 1`
with every `n` has all numbers, and is proved by the pigeonhole principle; where a proof
needs a first or nearest one, it takes the minimum of a set of naturals (`WFMin`).

### Only model-checked

* Liveness: `AlwaysEnds`, `CopiesUnlessRefused`, `EndsUnlessCut`, `RingIsBuilt`, `CopyArrives`,
  `EveryoneEnds`, `BypassCompletes`, `CallsReturn`, `EverythingArrives`, `AskersGetOn`,
  `CopyEnds`, and with it the fairness of the refinement `SendsTheStream`.  The prover does
  not do liveness under fairness.
* `SendsTheStream` and `ForwardsTheStream` when a connection may be lost: they do not hold then.

## Not modelled

* The resend of a client, which cannot run (above).
* The layout of packets beyond what is counted: the magic numbers are a byte that is
  right or wrong, the operands of commands are values.  In the modules of the threads
  a lost or repeated part of a packet is a `Fragment`.
* Freed memory: `exceptionNet` after `exception_reciever()` replaced `cntlin` (the
  socket is `CntlPort`'s, the object is taken to lie where the old one lay), and the
  four-byte names of `new char(len+1)`.  A send through the deleted `dataout` is a
  choice between nothing and the end of the process.
* What zcat, tar and cpio make of their input and whether they succeed; the working
  directory that opening an archive changes; the descriptor of a compressed file that
  the parent never closes (at most `MAXFILES` of them).
* The resolution of host names, the number of connection attempts and the time
  between them, and the `sleep()`s: an attempt succeeds or fails.
* The command line, and the text of the configuration file below the level of
  keyword and argument.
* `dolly_ping` beyond a request and its answer: its file mode fetches the first buffer
  of one file and belongs to no transfer (`Client.cpp:343`, "actually not dolly").
* `Client_dummy.cpp` (a `find_next_and_newnet()` for tests) and `StopWatch.cpp` (which
  measures time for messages).

## Plan

Done, in this order: `DataChunks` and `ChunkStream`; `ServThread` with its runs
and proofs; `ClntThread`; `BuildRing`; `Chain`; `NetSendRecv`; `CntlPort`;
`DiskFile` with its proofs; `Configuration`, `HostList` and `Startup`; the proofs about
`CntlPort`, `ClntThread` and `BuildRing`; the order of the server's ring, bind, recovery and
the steps of the stream; forwarding; the closed ring; the connection; the lists and the
configuration file; the programs together, and the end of a bypass that mixes up two files.

Every invariant of the runs is now stated by a theorem; what is left is under *Only
model-checked* and *Not modelled*.
