--------------------------- MODULE Configuration ---------------------------
(***************************************************************************)
(* Config::parse(): the configuration file, read line by line into the     *)
(* list of files and the list of hosts, and what becomes of the flag of a  *)
(* file on the clients: the filters ToDisk::pipes_forks() puts before the  *)
(* output.  A line is its keyword ("compressed_infile" for the two words)  *)
(* and its argument; a file name is the sequence of its extensions,        *)
(* "boot.tar.Z" is <<"tar", "Z">>.                                         *)
(***************************************************************************)
EXTENDS Integers, SequencesExt

CONSTANTS
  Names,      \* input names: sequences of extensions
  HostLists,  \* the hosts a file lists in this order: a set of sequences of names
  MAXFILES,   \* 32: the files there may be
  MAXHOSTS,   \* 1024: the hosts there may be
  MostFiles   \* bound: files in an iofiles section

(***************************************************************************)
(* check_filename(): the flag is the set of its bits (packet.h).           *)
(***************************************************************************)
FLAG_GZ == {0}
FLAG_Z == {1}
FLAG_CPIO == {2}
FLAG_TAR == {3}
FLAG_BZIP2 == {0, 2}
MASK_COMPRESS == {0, 1}
MASK_ARCHIVE == {2, 3}

\* In the order they are tried, with the number of characters strncmp() compares
KnownSuffixes ==
  <<[ext |-> <<"cpio", "gz">>,  chars |-> 11, flag |-> FLAG_CPIO \cup FLAG_GZ],
    [ext |-> <<"bz2">>,         chars |-> 10, flag |-> FLAG_BZIP2],
    [ext |-> <<"tar", "bz2">>,  chars |-> 9,  flag |-> FLAG_TAR \cup FLAG_BZIP2],
    [ext |-> <<"cpio", "Z">>,   chars |-> 8,  flag |-> FLAG_CPIO \cup FLAG_Z],
    [ext |-> <<"tar", "gz">>,   chars |-> 7,  flag |-> FLAG_TAR \cup FLAG_GZ],
    [ext |-> <<"tar", "Z">>,    chars |-> 6,  flag |-> FLAG_TAR \cup FLAG_Z],
    [ext |-> <<"cpio">>,        chars |-> 5,  flag |-> FLAG_CPIO],
    [ext |-> <<"tar">>,         chars |-> 4,  flag |-> FLAG_TAR],
    [ext |-> <<"gz">>,          chars |-> 3,  flag |-> FLAG_GZ],
    [ext |-> <<"Z">>,           chars |-> 2,  flag |-> FLAG_Z]>>

CharsOf == [gz |-> 3, Z |-> 2, bz2 |-> 4, tar |-> 4, cpio |-> 5]   \* with the dot
Chars(ext) == CharsOf[ext[1]] + IF Len(ext) = 2 THEN CharsOf[ext[2]] ELSE 0   \* no suffix has more parts

\* More characters than the suffix has never agree: its '\0' is compared too
Matches(i, name) == KnownSuffixes[i].chars = Chars(KnownSuffixes[i].ext) /\ IsSuffix(KnownSuffixes[i].ext, name)
Matching(name) == {i \in DOMAIN KnownSuffixes : Matches(i, name)}

CheckFilename_shortestFirst(name) == IF Matching(name) = {} THEN {} ELSE KnownSuffixes[Max(Matching(name))].flag
CheckFilename(name) == IF Matching(name) = {} THEN {} ELSE KnownSuffixes[Min(Matching(name))].flag

\* pipes_forks(): the processes the data of a file goes through
Pipeline(flag) ==
  (IF flag \cap MASK_COMPRESS # {} THEN <<"zcat">> ELSE <<>>)
  \o (IF flag \cap MASK_ARCHIVE = FLAG_CPIO THEN <<"cpio">>
      ELSE IF flag \cap MASK_ARCHIVE = FLAG_TAR THEN <<"tar">> ELSE <<>>)

(***************************************************************************)
(* The files: a complete one, or one with a single slip of its writer.     *)
(***************************************************************************)
Line(key, arg) == [key |-> key, arg |-> arg]
IoFile(op, name) == [op |-> op, name |-> name]
IoFiles == {IoFile(op, name) : op \in {">", ">>"}, name \in Names}

FilesSections ==
  {<<Line("compressed_infile", n), Line("outfile", 0)>> : n \in Names}
  \cup {<<Line("infile", n), Line("outfile", 0)>> : n \in Names}
  \cup UNION {{<<Line("iofiles", n)>> \o [i \in 1 .. n |-> Line("file", files[i])] :
                  files \in [1 .. n -> IoFiles]} :
              n \in 1 .. MostFiles}
HostsSection(hosts) ==
  <<Line("server", 0), Line("firstclient", 0), Line("lastclient", 0), Line("clients", Len(hosts))>>
  \o [i \in DOMAIN hosts |-> Line("host", hosts[i])] \o <<Line("endconfig", 0)>>

Counts(line) == line.key \in {"iofiles", "clients"}
Slips(whole) ==
  {InsertAt(whole, i, Line("#", 0)) : i \in DOMAIN whole}
  \cup {SubSeq(whole, 1, i) : i \in 0 .. Len(whole) - 1}
  \cup {ReplaceAt(whole, i, Line(whole[i].key, whole[i].arg + d)) :
          i \in {j \in DOMAIN whole : Counts(whole[j])}, d \in {-1, 1}}
  \cup {RemoveAt(whole, i) : i \in DOMAIN whole}

VARIABLES
  meant,      \* what its writer had in mind: the lines of the files, and the hosts
  lines,      \* the file
  at,         \* the line fgets() returns next
  want,       \* what parse() does with it, or "parsed", "refused"
  left,       \* lines left of the loop over the files or the hosts
  cook_flag,  \* the local variable of parse(), set by a '>>' line
  infile,     \* name of the infile line
  filelist,   \* [name, op, flag] of every file pushed; op is not in the source
  hostlist    \* [name, flag] of every push() to the list of hosts

vars == <<meant, lines, at, want, left, cook_flag, infile, filelist, hostlist>>

MeantLines == meant.files \o HostsSection(meant.hosts)

Init ==
  /\ meant \in [files : FilesSections, hosts : HostLists]
  /\ lines \in {MeantLines} \cup Slips(MeantLines)
  /\ at = 1 /\ want = "files" /\ left = 0 /\ cook_flag = {} /\ infile = <<>>
  /\ filelist = <<>> /\ hostlist = <<>>

(***************************************************************************)
(* Config::parse(), one line at a time                                     *)
(***************************************************************************)
Reads(state) == want = state /\ at <= Len(lines)
line == lines[at]
Refuse == want' = "refused" /\ UNCHANGED <<meant, lines, at, left, cook_flag, infile, filelist, hostlist>>
Go(state) == at' = at + 1 /\ want' = state

\* fgets() returns NULL
EndOfFile == want \notin {"parsed", "refused"} /\ at > Len(lines) /\ Refuse

FirstLine ==
  /\ Reads("files")
  /\ CASE line.key \in {"infile", "compressed_infile"} ->
            /\ infile' = line.arg
            /\ cook_flag' = IF line.key = "infile" THEN {} ELSE CheckFilename(line.arg)
            /\ Go("outfile") /\ UNCHANGED left
       [] line.key = "iofiles" /\ line.arg \in 1 .. MAXFILES ->
            /\ left' = line.arg
            /\ Go("file") /\ UNCHANGED <<infile, cook_flag>>
       [] OTHER -> want' = "refused" /\ UNCHANGED <<at, left, infile, cook_flag>>
  /\ UNCHANGED <<meant, lines, filelist, hostlist>>

OutfileLine ==
  /\ Reads("outfile")
  /\ IF line.key = "outfile"
     THEN /\ filelist' = <<[name |-> infile, op |-> lines[1].key, flag |-> cook_flag]>>
          /\ Go("server") /\ UNCHANGED <<meant, lines, left, cook_flag, infile, hostlist>>
     ELSE Refuse

\* cooked is set by every line, cook_flag by a '>>' line only
FileLine ==
  /\ Reads("file")
  /\ IF line.key = "file"
     THEN /\ cook_flag' = IF line.arg.op = ">>" THEN CheckFilename(line.arg.name) ELSE cook_flag
          /\ filelist' = Append(filelist, [name |-> line.arg.name, op |-> line.arg.op, flag |-> cook_flag'])
          /\ left' = left - 1
          /\ Go(IF left = 1 THEN "server" ELSE "file")
          /\ UNCHANGED <<meant, lines, infile, hostlist>>
     ELSE Refuse

\* The lines that must be there and set nothing
Following == [server |-> "firstclient", firstclient |-> "lastclient", lastclient |-> "clients",
              endconfig |-> "parsed"]
KeywordLine_noEnd ==
  /\ want \in DOMAIN Following /\ at <= Len(lines)
  /\ IF line.key = want \/ want = "endconfig"
     THEN Go(Following[want]) /\ UNCHANGED <<meant, lines, left, cook_flag, infile, filelist, hostlist>>
     ELSE Refuse
KeywordLine ==
  /\ want \in DOMAIN Following /\ at <= Len(lines)
  /\ IF line.key = want
     THEN Go(Following[want]) /\ UNCHANGED <<meant, lines, left, cook_flag, infile, filelist, hostlist>>
     ELSE Refuse

\* the list gets one slot more than there are clients; the server is the first
ClientsLine_noServer ==
  /\ Reads("clients")
  /\ IF line.key = "clients" /\ line.arg \in 1 .. MAXHOSTS
     THEN /\ left' = line.arg
          /\ Go("host") /\ UNCHANGED <<meant, lines, cook_flag, infile, filelist, hostlist>>
     ELSE Refuse
ClientsLine ==
  /\ Reads("clients")
  /\ IF line.key = "clients" /\ line.arg \in 1 .. MAXHOSTS
     THEN /\ left' = line.arg
          /\ hostlist' = <<[name |-> "server", flag |-> "AVAIL_HOST"]>>
          /\ Go("host") /\ UNCHANGED <<meant, lines, cook_flag, infile, filelist>>
     ELSE Refuse

\* any text is a host name
HostLine ==
  /\ Reads("host")
  /\ hostlist' = Append(hostlist, [name |-> IF line.key = "host" THEN line.arg ELSE line.key,
                                   flag |-> IF Len(hostlist) = 1 THEN "CALL_HOST" ELSE "NOAVIL_HOST"])
  /\ left' = left - 1
  /\ Go(IF left = 1 THEN "endconfig" ELSE "host")
  /\ UNCHANGED <<meant, lines, cook_flag, infile, filelist>>

Ended == want \in {"parsed", "refused"} /\ UNCHANGED vars
Parse == EndOfFile \/ FirstLine \/ OutfileLine \/ FileLine \/ KeywordLine \/ ClientsLine \/ HostLine
Next == Parse \/ Ended
Spec == Init /\ [][Next]_vars

(***************************************************************************)
(* Properties                                                              *)
(***************************************************************************)
\* The file parameters of an iofiles section: a line each after the first
MeantFiles == [i \in 1 .. Len(meant.files) - 1 |-> meant.files[i + 1].arg]

\* A file with one slip of its writer - a line too many or missing, a wrong count,
\* the end cut off - is refused or read as it was meant, never with other files or
\* hosts; and the flags make the first client the one that is called
\* (Config.cpp:31-278, Server.cpp:72).
ReadAsMeant ==
  want = "parsed" =>
    /\ hostlist = <<[name |-> "server", flag |-> "AVAIL_HOST"]>>
                   \o [i \in DOMAIN meant.hosts |-> [name |-> meant.hosts[i],
                         flag |-> IF i = 1 THEN "CALL_HOST" ELSE "NOAVIL_HOST"]]
    /\ IF meant.files[1].key = "iofiles"
       THEN [i \in DOMAIN filelist |-> IoFile(filelist[i].op, filelist[i].name)] = MeantFiles
       ELSE Len(filelist) = 1 /\ filelist[1].name = meant.files[1].arg

\* What the name of a file asks for: uncompress it, then unpack it
Undo(part) == IF part \in {"gz", "Z"} THEN <<"zcat">> ELSE IF part \in {"tar", "cpio"} THEN <<part>> ELSE <<>>
AsNamed(name) ==
  IF name = <<>> THEN <<>>
  ELSE IF Last(name) \in {"gz", "Z"} /\ Len(name) > 1 /\ name[Len(name) - 1] \in {"tar", "cpio"}
       THEN <<"zcat", name[Len(name) - 1]>>
       ELSE Undo(Last(name))

Cooked(file) == file.op \in {">>", "compressed_infile"}
Compressed(name) == \E z \in {"gz", "Z"} : IsSuffix(<<"cpio", z>>, name)

\* A file that is to be cooked goes through the filters its name asks for, all of
\* them, whatever stood in the lines before it (the two suffixes of compressed cpio
\* archives excepted, see SupportedIsCooked).
CookedAsNamed ==
  \A i \in DOMAIN filelist :
    Cooked(filelist[i]) /\ ~Compressed(filelist[i].name)
      => Pipeline(filelist[i].flag) = AsNamed(filelist[i].name)

\* Claim of README.md:61: '>' means dolly+ does not modify the image.
PlainStaysPlain == \A i \in DOMAIN filelist : filelist[i].op = ">" => Pipeline(filelist[i].flag) = <<>>

\* Claim of README.md:64: "'.tar.', '.gz', 'tar.gz','tar.Z','cpio','cpio.gz','cpio.Z'
\* are supported."
SupportedIsCooked ==
  \A i \in DOMAIN filelist : Cooked(filelist[i]) => Pipeline(filelist[i].flag) = AsNamed(filelist[i].name)

\* Claim of README.md:115: a line with '#' is recognized as a comment.
CommentsAreSkipped == SelectSeq(lines, LAMBDA l : l.key # "#") = MeantLines => want # "refused"
=============================================================================
