------------------------------- MODULE FtpServer -------------------------------
(***************************************************************************)
(* One control connection of the FTP server: the commands that the parser  *)
(* of ftpcmd.cpp accepts or refuses, and the handlers of ftpd.cpp.         *)
(*                                                                         *)
(* The server is one thread: it reads a line, runs its handler to the end  *)
(* and reads the next.  Only a transfer waits for others, so it is cut     *)
(* into steps: the command, the data connection (Connect), one unit of     *)
(* data (Send, Receive), the end.  Between them the client goes on or cuts *)
(* the connection (Cut).                                                   *)
(*                                                                         *)
(* A file is a sequence of units, of which "n" is a newline and "0" the    *)
(* filling of a hole.  There is one drive with one directory below it; a   *)
(* name is given with its directory, or relative to where the server is.   *)
(* Of what a command answers, the final codes are kept (said).             *)
(*                                                                         *)
(* Limits (spoilt): what the properties say, they say up to there.         *)
(*   "stray"      a refused PORT has overwritten the address in force      *)
(*   "again"      a PORT that a PASV had replaced is in force again        *)
(*   "forgotten"  a listing with nothing to list forgets the listening     *)
(*                socket, which stays open                                 *)
(*   "silent"     STOU of a name too long ends without an answer           *)
(*   "newlines"   the restart point of a text counts its newlines twice    *)
(*   "holed"      a restarted STOR has thrown away what stood before       *)
(***************************************************************************)
EXTENDS Integers, Sequences, SequencesExt, FiniteSets

CONSTANTS
  Ports,      \* addresses the client may give in a PORT
  Twisted,    \* those whose two port bytes, read the wrong way round, are reserved
  Reserved,   \* those whose port is reserved
  Foreign,    \* those with the address of another machine
  Offsets,    \* bound: restart points
  MaxUnits,   \* bound: units the client stores in one transfer
  MaxLines,   \* bound: lines the client sends
  Original,   \* what the one file holds at first
  None        \* no name, no address

ASSUME FtpAssumption ==
  /\ Twisted \subseteq Ports /\ Reserved \subseteq Ports /\ Foreign \subseteq Ports
  /\ Ports \cap {"default", "pasv", "peer"} = {}
  /\ Offsets \subseteq Nat \ {0} /\ MaxUnits \in Nat /\ MaxLines \in Nat
  /\ Original \in Seq(STRING)

VARIABLES
  logged,      \* logged_in
  asked,       \* askpasswd
  type,        \* "A" or "I" (TYPE_L is treated like TYPE_I)
  fromname,    \* what a RNFR has named
  restart,     \* restart_point
  passive,     \* pdata: the listening socket
  usedefault,  \* no PORT is in force
  dest,        \* data_dest
  root, cwd,   \* the flag, and the directory of the process
  fs,          \* the files: a function from the paths that exist to contents
  below,       \* the directory below the drive exists
  job,         \* the transfer in progress, or NoJob
  said,        \* final replies to the last line
  alive,       \* the control connection is open
  \* ghosts
  last,        \* the last line that the parser has reduced to a command
  agreed,      \* where the client has been told that data will go
  got,         \* what has gone over the data connection
  want,        \* the file transferred, and what the client expects: of a file it
               \* fetches the rest, of one it stores what stands before
  broken,      \* the data connection of the last transfer was cut by the client
  spoilt, lines

session == <<logged, asked, type>>
place == <<root, cwd>>
data == <<passive, usedefault, dest>>
disk == <<fs, below>>
moved == <<got, want, broken>>
vars == <<session, fromname, restart, data, place, disk, job, said, alive,
          last, agreed, moved, spoilt, lines>>

NoJob == [kind |-> "none"]
NoWant == [path |-> None, text |-> <<>>]
Here == "here"
Dirs == {"drive", "below"}
Bases == {"file", "file.1"}
Names == {<<Here, "file">>, <<"drive", "file">>, <<"below", "file">>}

\* internalName, and what the system makes of a name that is not absolute
Where(name) == <<IF name[1] = Here THEN cwd ELSE name[1], name[2]>>
There(dir) == dir = "drive" \/ below
Exists(path) == path \in DOMAIN fs
With(path, content) == [p \in DOMAIN fs \cup {path} |-> IF p = path THEN content ELSE fs[p]]
Without(path) == [p \in DOMAIN fs \ {path} |-> fs[p]]

Init ==
  /\ logged = FALSE /\ asked = FALSE /\ type = "A"
  /\ fromname = None /\ restart = 0
  /\ passive = FALSE /\ usedefault = TRUE /\ dest = None
  /\ root = TRUE /\ cwd = "drive"
  /\ fs = [path \in {<<"drive", "file">>} |-> Original] /\ below = TRUE
  /\ job = NoJob /\ said = <<220>> /\ alive = TRUE
  /\ last = <<"none">> /\ agreed = "default" /\ got = <<>> /\ want = NoWant /\ broken = FALSE
  /\ spoilt = {} /\ lines = 0

(***************************************************************************)
(* Lines                                                                   *)
(***************************************************************************)
Begins ==
  /\ alive /\ job = NoJob /\ lines < MaxLines
  /\ lines' = lines + 1
  /\ got' = <<>> /\ broken' = FALSE

Line == Begins /\ want' = NoWant

\* Mutant: a restart point stays until a transfer uses it
ReducedRestartStays(name) ==
  /\ fromname' = None /\ UNCHANGED restart
  /\ last' = <<name>>

\* cmd_list: cmd_list cmd
Reduced(name) ==
  /\ fromname' = None /\ restart' = 0
  /\ last' = <<name>>

\* A command with check_login whose handler is not run
Refused(name) ==
  /\ Line /\ ~logged
  /\ Reduced(name) /\ said' = <<530>>
  /\ UNCHANGED <<session, data, place, disk, job, alive, agreed, spoilt>>

\* check_login has answered before the rest of the line is read
Checked(answers) == IF logged THEN answers ELSE <<530>> \o answers

\* yylex cannot go on: it leaves the parser by a longjmp, and nothing is reduced
GivenUp(answers) == said' = answers /\ UNCHANGED <<fromname, restart, last>>

\* The grammar refuses a token before the end of the line.  yyerror answers and writes a
\* NUL over the newline; the tokens that follow are discarded, and where the newline was
\* yylex calls yyerror once more and gives up.
Twice == <<500, 500>>

(***************************************************************************)
(* The lexer does not know the command or one of its characters, or the    *)
(* command is not implemented; or the grammar refuses a token, with or     *)
(* without check_login before.  Only if that token is the end of the line  *)
(* does the grammar recover, and its `error' is reduced like a command.    *)
(***************************************************************************)
BadLine ==
  /\ Line
  /\ \/ \E answers \in {<<500>>, <<502>>, Twice, Checked(<<500>>), Checked(Twice)} :
          GivenUp(answers)
     \/ said' = Checked(<<500>>) /\ Reduced("error")
  /\ UNCHANGED <<session, data, place, disk, job, alive, agreed, spoilt>>

(***************************************************************************)
(* The session                                                             *)
(***************************************************************************)
\* user, with end_login: nobody is a guest and nothing is chrooted here
User ==
  /\ Line /\ Reduced("user")
  /\ logged' = FALSE /\ asked' = TRUE /\ said' = <<331>>
  /\ UNCHANGED <<type, data, place, disk, job, alive, agreed, spoilt>>

\* pass goes to the top of the drive, and leaves the flag root as it is
Pass ==
  /\ Line /\ Reduced("pass")
  /\ \/ /\ logged \/ ~asked
        /\ said' = <<503>> /\ UNCHANGED <<logged, asked, cwd>>
     \/ /\ ~logged /\ asked
        /\ asked' = FALSE
        /\ \/ said' = <<550>> /\ UNCHANGED <<logged, cwd>>
           \/ said' = <<230>> /\ logged' = TRUE /\ cwd' = "drive"
  /\ UNCHANGED <<type, data, root, disk, job, alive, agreed, spoilt>>

\* QUIT, or the end of the control connection
Quit ==
  /\ Line /\ Reduced("quit")
  /\ said' = <<221>> /\ alive' = FALSE
  /\ UNCHANGED <<session, data, place, disk, job, agreed, spoilt>>

\* TYPE, STRU, MODE and ALLO: only a type that is taken changes anything
Setting ==
  /\ Line /\ logged /\ Reduced("setting")
  /\ \/ \E t \in {"A", "I"} : type' = t /\ said' = <<200>>
     \/ UNCHANGED type /\ said' \in {<<200>>, <<202>>, <<502>>, <<504>>}
  /\ UNCHANGED <<logged, asked, data, place, disk, job, alive, agreed, spoilt>>

\* A command that answers and changes nothing that is modelled here
Answers(codes) ==
  /\ Line /\ Reduced("answered") /\ said' \in codes
  /\ UNCHANGED <<session, data, place, disk, job, alive, agreed, spoilt>>

Pwd == logged /\ Answers({<<257>>, <<550>>})
Stat == logged /\ Answers({<<211>>})
Size == logged /\ Answers({<<213>>, <<504>>, <<550>>})
Site == logged /\ Answers({<<200>>, <<215>>, <<501>>, <<213>>, <<550>>})
Help == Answers({<<200>>, <<214>>, <<502>>})

(***************************************************************************)
(* Where data goes                                                         *)
(***************************************************************************)
\* Mutant: the listening socket is not closed
PortBesidePassive(address) ==
  /\ Line /\ logged /\ Reduced("port")
  /\ address \notin Twisted \cup Foreign
  /\ dest' = address /\ usedefault' = FALSE
  /\ agreed' = address /\ said' = <<200>>
  /\ UNCHANGED <<passive, session, place, disk, job, alive, spoilt>>

\* Mutant: a refused address is answered, and the command goes on
PortFallsThrough(address) ==
  /\ Line /\ logged /\ Reduced("port")
  /\ dest' = address /\ usedefault' = FALSE /\ passive' = FALSE /\ agreed' = address
  /\ said' = IF address \in Twisted \cup Foreign THEN <<500, 200>> ELSE <<200>>
  /\ UNCHANGED <<session, place, disk, job, alive, spoilt>>

Port(address) ==
  /\ Line /\ logged /\ Reduced("port")
  /\ dest' = address
  /\ \/ /\ address \in Twisted \cup Foreign
        /\ usedefault' = TRUE /\ said' = <<500>>
        /\ agreed' = IF agreed = "pasv" THEN "pasv" ELSE "default"
        /\ UNCHANGED passive
     \/ /\ address \notin Twisted \cup Foreign
        /\ usedefault' = FALSE /\ passive' = FALSE
        /\ agreed' = address /\ said' = <<200>>
  /\ UNCHANGED <<session, place, disk, job, alive, spoilt>>

\* A number above 255: host_port does not touch data_dest
PortOutOfRange ==
  /\ Line /\ logged /\ Reduced("port")
  /\ usedefault' = TRUE /\ said' = <<500>>
  /\ agreed' = IF agreed = "pasv" THEN "pasv" ELSE "default"
  /\ UNCHANGED <<session, passive, dest, place, disk, job, alive, spoilt>>

\* host_port has written data_dest, and the command is refused: nobody is logged in,
\* or the line does not end there but goes on with a character or a token too much
PortLost(address) ==
  /\ Line /\ dest' = address
  /\ \/ ~logged /\ Reduced("port") /\ said' = <<530>>
     \/ \E answers \in {<<500>>, Twice} : GivenUp(Checked(answers))
  /\ spoilt' = IF usedefault THEN spoilt ELSE spoilt \cup {"stray"}
  /\ UNCHANGED <<session, passive, usedefault, place, disk, job, alive, agreed>>

Superseded == IF usedefault THEN spoilt ELSE spoilt \cup {"again"}

\* passive: the old socket is closed before the new one can fail
Pasv ==
  /\ Line /\ logged /\ Reduced("pasv")
  /\ \/ passive' = TRUE /\ agreed' = "pasv" /\ said' = <<227>> /\ UNCHANGED spoilt
     \/ /\ passive' = FALSE /\ said' = <<425>>
        /\ IF agreed = "pasv"
           THEN agreed' = "default" /\ spoilt' = Superseded
           ELSE UNCHANGED <<agreed, spoilt>>
  /\ UNCHANGED <<session, usedefault, dest, place, disk, job, alive>>

(***************************************************************************)
(* Files and directories                                                   *)
(***************************************************************************)
\* cwd: at the top the process stays where it is, only the flag is set
Cwd(target) ==
  LET to == CASE target = ".." -> "drive" [] target = "." -> cwd [] OTHER -> target IN
  /\ Line /\ logged /\ Reduced("cwd")
  /\ IF target = "/" \/ (target = ".." /\ cwd = "drive")
     THEN root' = TRUE /\ said' = <<250>> /\ UNCHANGED cwd
     ELSE \/ ~There(to) /\ said' = <<550>> /\ UNCHANGED place
          \/ There(to) /\ said' = <<250>> /\ root' = FALSE /\ cwd' = to
  /\ UNCHANGED <<session, data, disk, job, alive, agreed, spoilt>>

Mkd ==
  /\ Line /\ logged /\ Reduced("mkd")
  /\ below' = TRUE /\ said' = IF below THEN <<550>> ELSE <<257>>
  /\ UNCHANGED <<session, data, place, fs, job, alive, agreed, spoilt>>

\* RMD, and DELE of a directory
Rmd ==
  LET empty == below /\ \A path \in DOMAIN fs : path[1] # "below" IN
  /\ Line /\ logged /\ Reduced("rmd")
  /\ below' = (below /\ ~empty) /\ said' = IF empty THEN <<250>> ELSE <<550>>
  /\ UNCHANGED <<session, data, place, fs, job, alive, agreed, spoilt>>

Dele(name) ==
  /\ Line /\ logged /\ Reduced("dele")
  /\ IF Exists(Where(name))
     THEN fs' = Without(Where(name)) /\ said' = <<250>>
     ELSE UNCHANGED fs /\ said' = <<550>>
  /\ UNCHANGED <<session, data, place, below, job, alive, agreed, spoilt>>

\* RNFR is no `cmd': what it names lasts until one has been reduced
Rnfr(name) ==
  /\ Line /\ restart' = 0 /\ last' = <<"rnfr", name>>
  /\ \/ ~logged /\ said' = <<530>> /\ UNCHANGED fromname
     \/ /\ logged /\ Exists(Where(name))
        /\ fromname' = name /\ said' = <<350>>
     \/ /\ logged /\ ~Exists(Where(name))
        /\ fromname' = None /\ said' = <<550>>
  /\ UNCHANGED <<session, data, place, disk, job, alive, agreed, spoilt>>

\* Nor is REST
Rest(n) ==
  /\ Line /\ last' = <<"rest", n>>
  /\ \/ ~logged /\ said' = <<530>> /\ UNCHANGED <<fromname, restart>>
     \/ logged /\ said' = <<350>> /\ fromname' = None /\ restart' = n
  /\ UNCHANGED <<session, data, place, disk, job, alive, agreed, spoilt>>

Rnto(name) ==
  LET from == Where(fromname)  to == Where(name) IN
  /\ Line /\ logged /\ Reduced("rnto")
  /\ \/ fromname = None /\ said' = <<503>> /\ UNCHANGED fs
     \/ fromname # None /\ said' = <<550>> /\ UNCHANGED fs
     \/ /\ fromname # None /\ Exists(from) /\ There(to[1])
        /\ said' = <<250>>
        /\ fs' = [p \in (DOMAIN fs \ {from}) \cup {to} |-> IF p = to THEN fs[from] ELSE fs[p]]
  /\ UNCHANGED <<session, data, place, below, job, alive, agreed, spoilt>>

(***************************************************************************)
(* Transfers                                                               *)
(***************************************************************************)
\* The command ends before it has asked for a data connection
Ends(name, code) ==
  /\ Reduced(name) /\ said' = <<code>>
  /\ UNCHANGED <<data, job, agreed>>

\* It goes on to dataconn; fromname and restart_point stay until it is reduced
Goes(started) ==
  /\ job' = started /\ said' = <<>>
  /\ UNCHANGED <<fromname, restart, last, data, agreed>>

Newlines(text, n) == Cardinality({i \in 1..n : text[i] = "n"})

\* How far the loop of retrieve reads a text to get to a restart point, if it gets there
TextPositions(text) ==
  {k \in 0..Len(text) : /\ k + Newlines(text, k) >= restart
                        /\ \A j \in 0..(k - 1) : j + Newlines(text, j) < restart}

WaysToSend ==
  IF type = "A" THEN {"text"} ELSE IF restart = 0 THEN {"mapped", "blocks"} ELSE {"blocks"}

\* In a binary file it is sought, also beyond the end
Position(text) ==
  IF type = "A" THEN TextPositions(text) ELSE {restart}

\* retrieve: what is not there or is a directory ends at once
Retr(name) ==
  LET path == Where(name) IN
  /\ Begins /\ logged
  /\ \/ /\ Exists(path) => Position(fs[path]) = {}
        /\ Ends("retr", 550)
        /\ want' = NoWant /\ UNCHANGED spoilt
     \/ /\ Exists(path)
        /\ \E at \in Position(fs[path]), way \in WaysToSend :
             /\ Goes([kind |-> "retr", way |-> way, stage |-> "connect", peer |-> None,
                      lost |-> FALSE, todo |-> SubSeq(fs[path], at + 1, Len(fs[path]))])
             /\ spoilt' = IF at = restart THEN spoilt ELSE spoilt \cup {"newlines"}
        /\ want' = [path |-> path, text |-> SubSeq(fs[path], restart + 1, Len(fs[path]))]
  /\ UNCHANGED <<session, place, disk, alive>>

\* What the file holds before the first unit comes: "w" has thrown away what it held
Opened(path, mode) ==
  IF mode = "w" \/ ~Exists(path) THEN <<>> ELSE fs[path]

Longest(m, n) == IF m > n THEN m ELSE n

\* A write at a place beyond the end leaves a hole before it
Written(text, at, unit) ==
  [i \in 1..Longest(Len(text), at) |->
     IF i = at THEN unit ELSE IF i <= Len(text) THEN text[i] ELSE "0"]

(***************************************************************************)
(* store, of a file that can be opened.  A restart of a text reads what    *)
(* has just been opened for writing, and finds nothing; in a binary file   *)
(* the place is sought, but in mode "a" every write goes to the end.       *)
(***************************************************************************)
StoreIn(path, mode) ==
  LET text == Opened(path, mode) IN
  /\ fs' = With(path, text)
  /\ IF type = "A" /\ restart > 0
     THEN Ends("store", 550) /\ want' = NoWant /\ UNCHANGED spoilt
     ELSE /\ Goes([kind |-> "store", stage |-> "connect", peer |-> None, path |-> path,
                   at |-> IF mode = "a" THEN Len(text) ELSE restart])
          /\ want' = [path |-> path, text |-> text]
          /\ spoilt' = IF restart > 0 THEN spoilt \cup {"holed"} ELSE spoilt

\* STOR and APPE
Store(name, mode) ==
  LET path == Where(name) IN
  /\ Begins /\ logged
  /\ \/ Ends("store", 553) /\ want' = NoWant /\ UNCHANGED <<fs, spoilt>>
     \/ There(path[1]) /\ StoreIn(path, mode)
  /\ UNCHANGED <<session, place, below, alive>>

(***************************************************************************)
(* STOU, with guniquefd: of the 99 names it tries there is one here.  With *)
(* restart_point the new file is opened with "r+" instead of "w", which is *)
(* the same for a new file.                                                *)
(***************************************************************************)
Stou(name) ==
  LET path == Where(name)  other == <<path[1], "file.1">> IN
  /\ Begins /\ logged
  /\ \/ /\ Ends("store", 553) /\ want' = NoWant /\ UNCHANGED <<fs, spoilt>>
     \/ /\ There(path[1]) /\ ~Exists(path)
        /\ StoreIn(path, "w")
     \/ /\ Exists(path) /\ ~Exists(other)
        /\ StoreIn(other, "w")
     \/ /\ Exists(path) /\ Exists(other)
        /\ Ends("store", 452) /\ want' = NoWant /\ UNCHANGED <<fs, spoilt>>
     \/ /\ Exists(path)
        /\ Reduced("store") /\ said' = <<>> /\ spoilt' = spoilt \cup {"silent"}
        /\ want' = NoWant /\ UNCHANGED <<fs, data, job, agreed>>
  /\ UNCHANGED <<session, place, below, alive>>

(***************************************************************************)
(* send_file_list.  The top lists the drives, a file lists nothing, and a  *)
(* directory opens the connection at its first entry.                      *)
(***************************************************************************)
Entries(dir) ==
  {path \in DOMAIN fs : path[1] = dir} \cup (IF dir = "drive" /\ below THEN {<<dir, "below">>} ELSE {})

Listed == [kind |-> "list", stage |-> "connect", peer |-> None]

\* Nothing was opened, and both sockets are forgotten
NothingToList ==
  /\ Reduced("list") /\ said' = <<550>>
  /\ passive' = FALSE
  /\ spoilt' = IF passive THEN spoilt \cup {"forgotten"} ELSE spoilt
  /\ UNCHANGED <<usedefault, dest, job, agreed>>

List(target) ==
  LET dir == IF target = "." THEN cwd ELSE target IN
  /\ Line /\ logged
  /\ \/ /\ target = "/" \/ (root /\ target = ".")
        /\ Goes(Listed) /\ UNCHANGED spoilt
     \/ /\ target # "/" /\ ~(root /\ target = ".")
        /\ \/ /\ There(dir) /\ Entries(dir) # {}
              /\ Goes(Listed) /\ UNCHANGED spoilt
           \/ There(dir) /\ Entries(dir) = {} /\ NothingToList
           \/ ~There(dir) /\ Ends("list", 550) /\ UNCHANGED spoilt
  /\ UNCHANGED <<session, place, disk, alive>>

ListFile(name) ==
  /\ Line /\ logged
  /\ IF Exists(Where(name)) THEN Goes(Listed) ELSE Ends("list", 550)
  /\ UNCHANGED <<session, place, disk, alive, spoilt>>

\* The transfer ends: the sockets are closed, the command is reduced
Closes(code) ==
  /\ job' = NoJob /\ said' = <<code>> /\ Reduced(job.kind)
  /\ agreed' = "default"

Moving == job # NoJob /\ job.stage = "move"


\* dataconn in passive mode: who connects must be the client, from a port of its own
Accept ==
  /\ job # NoJob /\ job.stage = "connect" /\ passive
  /\ passive' = FALSE
  /\ \/ /\ job' = [job EXCEPT !.stage = "move", !.peer = "pasv"]
        /\ UNCHANGED <<said, fromname, restart, last, agreed, spoilt>>
     \/ \E code \in {425, 435} : Closes(code) /\ spoilt' = Superseded
  /\ UNCHANGED <<session, usedefault, dest, place, disk, alive, moved, lines>>

\* dataconn otherwise: a PORT serves once, whether the connection is made or not
Connect ==
  LET to == IF usedefault THEN "peer" ELSE dest IN
  /\ job # NoJob /\ job.stage = "connect" /\ ~passive
  /\ dest' = to /\ usedefault' = TRUE
  /\ \/ Closes(425)
     \/ to \in Foreign \ Reserved /\ Closes(435)
     \/ /\ to \notin Foreign \cup Reserved
        /\ job' = [job EXCEPT !.stage = "move", !.peer = to]
        /\ UNCHANGED <<said, fromname, restart, last, agreed>>
  /\ UNCHANGED <<session, passive, place, disk, alive, moved, spoilt, lines>>

\* The client cuts the data connection
Cut ==
  /\ Moving /\ ~broken /\ broken' = TRUE
  /\ UNCHANGED <<session, fromname, restart, data, place, disk, job, said, alive,
                 last, agreed, got, want, spoilt, lines>>

\* One step of the data, or the end of the transfer
Moves ==
  /\ Moving
  /\ UNCHANGED <<session, data, place, below, alive, want, broken, lines>>

GoesOn == UNCHANGED <<fromname, restart, said, last, agreed, spoilt>>
Stops(code) == Closes(code) /\ spoilt' = Superseded /\ UNCHANGED got

\* Mutant: a write that took less than it was given is not looked at
SendEndsShort ==
  \/ (job.todo = <<>> \/ job.way = "blocks") /\ Stops(226)
  \/ broken /\ job.way = "text" /\ job.todo = <<>> /\ Stops(426)

\* The answers of send_data: what is written in blocks must be taken whole
SendEnds ==
  \/ job.todo = <<>> /\ ~job.lost /\ Stops(226)
  \/ broken /\ (job.way = "text" => job.todo = <<>>) /\ Stops(426)
  \/ job.way = "blocks" /\ job.todo # <<>> /\ Stops(426)
  \/ job.way # "mapped" /\ job.todo # <<>> /\ Stops(551)
  \/ job.way = "blocks" /\ got = <<>> /\ Stops(451)

\* send_data: a text goes through a buffer, and what is lost shows when it is flushed
Send ==
  /\ Moves /\ job.kind = "retr" /\ UNCHANGED fs
  /\ \/ /\ job.todo # <<>> /\ ~broken
        /\ job' = [job EXCEPT !.todo = Tail(@)]
        /\ got' = Append(got, Head(job.todo)) /\ GoesOn
     \/ /\ job.todo # <<>> /\ broken /\ job.way = "text"
        /\ job' = [job EXCEPT !.todo = Tail(@), !.lost = TRUE]
        /\ UNCHANGED got /\ GoesOn
     \/ SendEnds

\* receive_data: a connection that breaks is the end of the data like any other
Receive ==
  /\ Moves /\ job.kind = "store"
  /\ \/ /\ ~broken /\ Len(got) < MaxUnits
        /\ got' = Append(got, "u")
        /\ fs' = [fs EXCEPT ![job.path] = Written(@, job.at + 1, "u")]
        /\ job' = [job EXCEPT !.at = @ + 1] /\ GoesOn
     \/ \E code \in {226, 452} : Stops(code) /\ UNCHANGED fs

\* The end of send_file_list
SendList ==
  /\ Moves /\ job.kind = "list" /\ UNCHANGED fs
  /\ Stops(226) \/ (broken /\ Stops(550))

Transfers ==
  \/ \E name \in Names : \/ Retr(name) \/ Stou(name) \/ ListFile(name)
                         \/ \E mode \in {"w", "a"} : Store(name, mode)
  \/ \E target \in Dirs \cup {".", "/"} : List(target)
  \/ Accept \/ Connect \/ Cut \/ Send \/ Receive \/ SendList

Next ==
  \/ BadLine \/ Refused("refused") \/ User \/ Pass \/ Quit \/ Setting
  \/ Pwd \/ Stat \/ Size \/ Site \/ Help
  \/ (\E address \in Ports : Port(address) \/ PortLost(address)) \/ PortOutOfRange \/ Pasv
  \/ (\E target \in Dirs \cup {"..", ".", "/"} : Cwd(target)) \/ Mkd \/ Rmd
  \/ (\E name \in Names : Dele(name) \/ Rnfr(name) \/ Rnto(name))
  \/ \E n \in Offsets : Rest(n)
  \/ Transfers

Spec == Init /\ [][Next]_vars

(***************************************************************************)
(* Properties                                                              *)
(***************************************************************************)
\* A name to rename and a restart point belong to the last line that was understood,
\* and no other command or transfer finds them: rename and retrieve at the wrong place
\* are far away from the line that forgot to clear them.
NextOnly ==
  /\ fromname # None => last = <<"rnfr", fromname>>
  /\ restart # 0 => last = <<"rest", restart>>

\* Data goes where the client has been told last, once: to the socket of PASV, to the
\* address of PORT, or else to the client itself; and after an accepted PASV somebody
\* listens there as long as no transfer or PORT has followed.
WhereAgreed ==
  spoilt \cap {"stray", "again", "forgotten"} = {} =>
    /\ Moving => job.peer = IF agreed = "default" THEN "peer" ELSE agreed
    /\ ~Moving => (passive <=> agreed = "pasv")

\* How a line that is no command is refused: up to three times
Refusals == {<<500>>, <<502>>, Twice, <<530>> \o <<500>>, <<530>> \o Twice}

\* What is answered to a line: one final answer, or refusals and nothing else
OneAnswer ==
  Len(said) = 1 \/ (said \in Refusals /\ (said[1] = 530 => ~logged))

\* A line that is run has one final answer when it is done; one that yyerror has refused
\* may be refused again, but is answered by nothing else; and 226 means that all of the
\* file was sent, or that all the client sent stands in the file behind what was to stay,
\* if nobody cut it short.
Truthful ==
  spoilt \cap {"silent", "newlines", "holed"} = {} =>
    /\ job # NoJob => said = <<>>
    /\ job = NoJob => OneAnswer
    /\ (job = NoJob /\ said = <<226>> /\ want.path # None) =>
         IF last = <<"retr">> THEN got = want.text
         ELSE broken \/ fs[want.path] = want.text \o got
===============================================================================
