------------------------------ MODULE Startup ------------------------------
(***************************************************************************)
(* From the configuration file to the ring: Config::parse() pushes every   *)
(* host it reads to the List, the list is written into the ring packet, a  *)
(* client walks through it entry by entry, and the packet that comes back  *)
(* tells the server what has become of every host (Server.cpp:60-160).     *)
(* Configuration is the parser, HostList the list and the packet; a push() *)
(* is a step of both.                                                      *)
(***************************************************************************)
EXTENDS Integers, SequencesExt

CONSTANTS Names, HostLists, MostFiles, MAXFILES, MAXHOSTS, Flags, Garbage, Half,
  NameLength       \* length of every name a host list uses, and of "server"

KeywordLength == 9     \* a line that is taken for a host without being one

ASSUME StartupAssumption ==
  /\ Names \subseteq Seq({"gz", "Z", "bz2", "tar", "cpio"})
  /\ <<>> \notin HostLists /\ HostLists # {} /\ MostFiles \in Nat \ {0}
  /\ MAXFILES \in Nat /\ MAXHOSTS \in Nat /\ Half \in Nat \ {0}
  /\ Garbage \subseteq Int /\ Flags # {}
  /\ NameLength \in [DOMAIN NameLength -> Nat] /\ "server" \in DOMAIN NameLength
  /\ HostLists \subseteq Seq(DOMAIN NameLength)

VARIABLES meant, lines, at, want, left, cook_flag, infile, filelist, hostlist,
          list, itemBytes, heap, taken, packet, ite, state

C == INSTANCE Configuration
H == INSTANCE HostList

config == <<meant, lines, at, want, left, cook_flag, infile, filelist, hostlist>>
ring == <<list, itemBytes, heap, taken, packet, ite, state>>
vars == <<config, ring>>

Length(name) == IF name \in DOMAIN NameLength THEN NameLength[name] ELSE KeywordLength

Init == C!Init /\ H!Init

\* A line of the file; it may end the program, or push a host, which may end it too
Parse ==
  /\ state = "config" /\ C!Parse
  /\ IF hostlist' = hostlist THEN UNCHANGED ring
     ELSE H!PushEntry(Last(hostlist').name, Length(Last(hostlist').name), Last(hostlist').flag)

\* The list as the file has made it goes round the ring
RoundTrip == want = "parsed" /\ H!RoundTrip /\ UNCHANGED config

Working == want # "refused" /\ state \in {"config", "sent", "received", "walked"}
Ended == ~Working /\ UNCHANGED vars

Next == Parse \/ RoundTrip \/ Ended
Spec == Init /\ [][Next]_vars

(***************************************************************************)
(* Properties                                                              *)
(***************************************************************************)
\* A file with one slip of its writer is refused or read as it was meant: see
\* Configuration (Config.cpp:31-278).
ReadAsMeant == C!ReadAsMeant

\* A file that is to be cooked goes through the filters its name asks for, whatever
\* stood in the lines before it: see Configuration (Config.cpp:288-330).
CookedAsNamed == C!CookedAsNamed

\* What a client walks through is the list, entry by entry, and that alone exactly when
\* the size of the packet fits: see HostList (List.cpp:44-93, Packet.cpp:421-454).
WalkMatchesFill == H!WalkMatchesFill

\* The hosts a client finds in the ring packet are the server and then those the
\* writer of the configuration file had in mind, in that order, although the file has a
\* slip, its lines are counted, and the bytes of the names are counted on one side, from
\* whatever the heap held, and walked through on the other; it finds no others exactly
\* when the size fits; and when the packet is back the server has of every host the flag
\* the ring has given it (Config.cpp:247-267, List.cpp:44-111, Packet.cpp:421-454).
RingAgreesWithFile ==
  LET hosts == <<"server">> \o meant.hosts
  IN /\ state \in {"walked", "synced"} =>
          /\ Len(ite.seen) >= Len(hosts)
          /\ \A i \in DOMAIN hosts : ite.seen[i].name = hosts[i]
          /\ H!Fits <=> Len(ite.seen) = Len(hosts)
     /\ state = "synced" => \A i \in DOMAIN list : list[i] = ite.seen[i]

\* The claims of the documents that the further configurations refute
PlainStaysPlain == C!PlainStaysPlain
SupportedIsCooked == C!SupportedIsCooked
CommentsAreSkipped == C!CommentsAreSkipped
NoSixteenBitLimit == H!NoSixteenBitLimit
SpaceIsChecked == H!SpaceIsChecked
=============================================================================
