----------------------------- MODULE FileTransfer -----------------------------
(***************************************************************************)
(* /request file (Assignment2): the requester's program starts a receiver  *)
(* thread that listens, and sends the command; the chat server looks       *)
(* whether the file may be read and forwards the command; the owner's      *)
(* program loads the file, connects to the listener, trying again for a    *)
(* while, and sends it; the receiver saves it.                             *)
(*                                                                         *)
(* The n-th command typed has the n-th receiver thread.  A listener's      *)
(* address is its client and the port: clients are on hosts of their own,  *)
(* and the command names the requester's.  TLS is a stream that may break. *)
(***************************************************************************)
EXTENDS SaveFile

CONSTANTS
  Clients,      \* the programs, one for each user
  Files, Ports,
  Commands,     \* what may be typed: a requester, an owner, a file, a port
  Room,         \* pieces a connection holds that are not read yet
  Tries,        \* 30 in the code
  NoClient, NoFile,
  MaxChanges,   \* bound on changes of files and ACLs
  MaxFaults     \* bound on failures, breaks and programs that end

ASSUME TransferAssumption ==
  /\ Savers \subseteq Nat \ {0} /\ \A n \in Savers : 1 .. n \subseteq Savers
  /\ Pids = Clients /\ Paths = Clients \X Files
  /\ Commands \subseteq [from : Clients, owner : Clients, file : Files, port : Ports]
  /\ NoClient \notin Clients /\ NoFile \notin Files
  /\ {Room, Tries} \subseteq Nat \ {0} /\ {MaxChanges, MaxFaults} \subseteq Nat

VARIABLES
  up,       \* the programs that run
  main,     \* the main loop of each
  typed,    \* commands the server has not read yet, by requester
  server,   \* the server's thread for each client: the command it forwards
  inbox,    \* FILE_REQUEST lines not read yet, by owner
  receiver, \* tls_receive_thread, one for each command
  disk,     \* the users' files
  readers,  \* whom the ACL of each lets read it
  changes, faults,
  asked,    \* history: the commands typed; what the file and its ACL were since
  shared    \* history: paths two receivers saved at a time

vars == <<named, tmp, inodes, save, up, main, typed, server, inbox, receiver,
          disk, readers, changes, faults, asked, shared>>

InLoop == [pc |-> "loop", command |-> 0, data |-> NoData, tries |-> 0, peer |-> 0]

NoReceiver == [pc |-> "none", from |-> NoClient, sender |-> NoClient, file |-> NoFile,
               data |-> NoData, sent |-> 0, got |-> 0]

\* a command's file is there and its user may read it
MayRead(cmd, files, rights) ==
  /\ files[cmd.owner][cmd.file] # NoData
  /\ cmd.from = cmd.owner \/ cmd.from \in rights[cmd.owner][cmd.file]

Init ==
  /\ SaveInit
  /\ up = Clients
  /\ main = [c \in Clients |-> InLoop]
  /\ typed = [c \in Clients |-> <<>>]
  /\ server = [c \in Clients |-> 0]
  /\ inbox = [c \in Clients |-> <<>>]
  /\ receiver = [n \in Savers |-> NoReceiver]
  /\ \E texts \in [Files -> Data] : disk = [c \in Clients |-> texts]
  /\ \E rights \in [Files -> {{}, Clients}] : readers = [c \in Clients |-> rights]
  /\ changes = 0
  /\ faults = 0
  /\ asked = <<>>
  /\ shared = {}

Fault == faults < MaxFaults /\ faults' = faults + 1
-----------------------------------------------------------------------------
(* The requester's main loop, and the chat server's thread for it.         *)

Loops(c) == c \in up /\ main[c].pc = "loop"

\* maybe_start_file_receiver, then send_all
request_file(cmd) ==
  /\ Loops(cmd.from) /\ Len(asked) + 1 \in Savers
  /\ asked' = Append(asked,
       [command |-> cmd, allowed |-> MayRead(cmd, disk, readers),
        contents |-> {disk[cmd.owner][cmd.file]}])
  /\ receiver' = [receiver EXCEPT ![Len(asked')].pc = "start", ![Len(asked')].from = cmd.from]
  /\ typed' = [typed EXCEPT ![cmd.from] = Append(@, Len(asked'))]
  /\ UNCHANGED <<savevars, up, main, server, inbox, disk, readers, changes, faults, shared>>

\* A faulty server: it forwards what may not be read.
ForwardsAnything(cmd) == disk[cmd.owner][cmd.file] # NoData

can_read_user_file(cmd) == MayRead(cmd, disk, readers)

\* the server's thread reads the command and looks: ERR file-denied, or on
handle_request_file(c) ==
  /\ server[c] = 0 /\ typed[c] # <<>>
  /\ server' = [server EXCEPT ![c] =
       IF can_read_user_file(asked[Head(typed[c])].command) THEN Head(typed[c]) ELSE 0]
  /\ typed' = [typed EXCEPT ![c] = Tail(@)]
  /\ UNCHANGED <<savevars, up, main, inbox, receiver, disk, readers, changes, faults,
                 asked, shared>>

\* to an owner who is there, FILE_REQUEST_SENT in either case
send_to_user(c) ==
  /\ server[c] # 0
  /\ LET owner == asked[server[c]].command.owner
     IN  inbox' = IF owner \in up THEN [inbox EXCEPT ![owner] = Append(@, server[c])]
                                  ELSE inbox
  /\ server' = [server EXCEPT ![c] = 0]
  /\ UNCHANGED <<savevars, up, main, typed, receiver, disk, readers, changes, faults,
                 asked, shared>>
-----------------------------------------------------------------------------
(* The owner's main loop: handle_server_line and send_file_tls.            *)

MainOnly == UNCHANGED <<savevars, up, typed, server, disk, readers, changes, faults,
                        asked, shared>>

load_file(c, f) == disk[c][f]

\* send_file_tls loads the file before it connects
handle_server_line(c) ==
  /\ Loops(c) /\ inbox[c] # <<>>
  /\ LET n == Head(inbox[c])
         d == load_file(c, asked[n].command.file)
     IN  main' = IF d = NoData THEN main
                 ELSE [main EXCEPT ![c] = [InLoop EXCEPT !.pc = "connect", !.command = n,
                                                         !.data = d]]
  /\ inbox' = [inbox EXCEPT ![c] = Tail(@)]
  /\ UNCHANGED receiver
  /\ MainOnly

\* the thread that has the listener of the command's address: it keeps it while
\* it receives and saves
Listening(n) == receiver[n].pc \notin {"none", "start", "ended"}
Bound(from, port) ==
  {n \in Savers : Listening(n) /\ receiver[n].from = from /\ asked[n].command.port = port}
Addressed(c) ==
  LET cmd == asked[main[c].command].command IN Bound(cmd.from, cmd.port)

\* a connection is made when the kernel has it, before it is accepted
tcp_connect(c) ==
  /\ c \in up /\ main[c].pc = "connect"
  /\ \E n \in Addressed(c) : main' = [main EXCEPT ![c].pc = "queued", ![c].peer = n]
  /\ UNCHANGED <<inbox, receiver>>
  /\ MainOnly

\* A faulty owner: it tries for ever.
NeverGivesUp(c) ==
  /\ c \in up /\ main[c].pc = "connect" /\ Addressed(c) = {}
  /\ main' = [main EXCEPT ![c].tries = (@ + 1) % Tries]
  /\ UNCHANGED <<inbox, receiver>>
  /\ MainOnly

\* a tenth of a second later the next try
connect_fails(c) ==
  /\ c \in up /\ main[c].pc = "connect" /\ Addressed(c) = {}
  /\ main' = IF main[c].tries + 1 = Tries THEN [main EXCEPT ![c] = InLoop]
                                          ELSE [main EXCEPT ![c].tries = @ + 1]
  /\ UNCHANGED <<inbox, receiver>>
  /\ MainOnly

\* the connection is refused or broken: SSL_connect or SSL_write fails
connection_lost(c) ==
  /\ c \in up /\ main[c].pc \in {"queued", "send"}
  /\ \/ main[c].pc = "queued" /\ ~Listening(main[c].peer)
     \/ main[c].pc = "send" /\ receiver[main[c].peer].sender # c
  /\ main' = [main EXCEPT ![c] = InLoop]
  /\ UNCHANGED <<inbox, receiver>>
  /\ MainOnly

\* the header is the first piece, the file the others
Pieces(d) == Size[d] + 1

\* SSL_write: it waits while the connection is full
send_piece(c) ==
  LET n == main[c].peer
  IN  /\ c \in up /\ main[c].pc = "send" /\ receiver[n].sender = c
      /\ receiver[n].sent < Pieces(main[c].data)
      /\ receiver[n].sent - receiver[n].got < Room
      /\ receiver' = [receiver EXCEPT ![n].sent = @ + 1]
      /\ UNCHANGED <<main, inbox>>
      /\ MainOnly

\* A faulty owner: what it sent and nobody has read goes with its connection.
ClosesAbruptly(c) ==
  LET n == main[c].peer
  IN  /\ c \in up /\ main[c].pc = "send" /\ receiver[n].sender = c
      /\ receiver[n].sent = Pieces(main[c].data)
      /\ receiver' = [receiver EXCEPT ![n].sender = NoClient, ![n].sent = receiver[n].got]
      /\ main' = [main EXCEPT ![c] = InLoop]
      /\ UNCHANGED inbox
      /\ MainOnly

\* what is sent and not read yet stays readable
send_file_done(c) ==
  LET n == main[c].peer
  IN  /\ c \in up /\ main[c].pc = "send" /\ receiver[n].sender = c
      /\ receiver[n].sent = Pieces(main[c].data)
      /\ receiver' = [receiver EXCEPT ![n].sender = NoClient]
      /\ main' = [main EXCEPT ![c] = InLoop]
      /\ UNCHANGED inbox
      /\ MainOnly
-----------------------------------------------------------------------------
(* The receiver thread: tls_receive_thread.                                *)

ReceiverOnly == UNCHANGED <<up, typed, server, inbox, disk, readers, changes, asked>>
At(n, pc) == receiver[n].pc = pc

\* another thread of the program may have the port
tcp_listen(n) ==
  /\ At(n, "start")
  /\ receiver' = [receiver EXCEPT ![n].pc =
       IF Bound(receiver[n].from, asked[n].command.port) = {} THEN "accept" ELSE "ended"]
  /\ UNCHANGED <<savevars, main, faults, shared>>
  /\ ReceiverOnly

\* accept and both ends of the TLS handshake
accept(n) ==
  /\ At(n, "accept")
  /\ \E c \in up :
       /\ main[c].pc = "queued" /\ main[c].peer = n
       /\ receiver' = [receiver EXCEPT ![n].pc = "read", ![n].sender = c,
                                       ![n].file = asked[main[c].command].command.file,
                                       ![n].data = main[c].data]
       /\ main' = [main EXCEPT ![c].pc = "send"]
  /\ UNCHANGED <<savevars, faults, shared>>
  /\ ReceiverOnly

\* A faulty receiver: it counts a piece that has not come.
ReadsAhead(n) ==
  /\ At(n, "read") /\ receiver[n].got <= receiver[n].sent
  /\ receiver' = [receiver EXCEPT ![n].got = @ + 1]
  /\ UNCHANGED <<savevars, main, faults, shared>>
  /\ ReceiverOnly

\* ssl_read_line for the first piece, SSL_read for the others
read_piece(n) ==
  /\ At(n, "read") /\ receiver[n].got < receiver[n].sent
  /\ receiver' = [receiver EXCEPT ![n].got = @ + 1]
  /\ UNCHANGED <<savevars, main, faults, shared>>
  /\ ReceiverOnly

Complete(n) == receiver[n].got = Pieces(receiver[n].data)

\* the connection ends before the length announced: nothing is saved
read_ends(n) ==
  /\ At(n, "read") /\ ~Complete(n)
  /\ receiver[n].got = receiver[n].sent /\ receiver[n].sender = NoClient
  /\ receiver' = [receiver EXCEPT ![n].pc = "ended"]
  /\ UNCHANGED <<savevars, main, faults, shared>>
  /\ ReceiverOnly

\* the process is the client's, the path is named by the header
save_received(n) ==
  LET path == <<receiver[n].from, receiver[n].file>>
  IN  /\ At(n, "read") /\ Complete(n)
      /\ save_file_atomic(n, receiver[n].from, path, receiver[n].data)
      /\ receiver' = [receiver EXCEPT ![n].pc = "save"]
      /\ shared' = IF \E m \in Savers : Saving(m) /\ save[m].path = path
                   THEN shared \cup {path} ELSE shared
      /\ UNCHANGED <<named, tmp, inodes, main, faults>>
      /\ ReceiverOnly

save_step(n) ==
  /\ At(n, "save") /\ SaveStep(n)
  /\ UNCHANGED <<main, receiver, faults, shared>>
  /\ ReceiverOnly

save_fails(n) ==
  /\ At(n, "save") /\ SaveFault(n) /\ Fault
  /\ UNCHANGED <<main, receiver, shared>>
  /\ ReceiverOnly

\* out: the connection and the listener are closed
finish(n) ==
  /\ At(n, "save") /\ ~Saving(n)
  /\ receiver' = [receiver EXCEPT ![n].pc = "ended", ![n].sender = NoClient]
  /\ UNCHANGED <<savevars, main, faults, shared>>
  /\ ReceiverOnly
-----------------------------------------------------------------------------
(* What else happens.                                                      *)

\* The connection breaks: what was not read is lost, and either end finds out.
\* So it may after the owner has closed it.
break(n) ==
  /\ At(n, "read") /\ Fault
  /\ receiver' = [receiver EXCEPT ![n].sender = NoClient, ![n].sent = receiver[n].got]
  /\ UNCHANGED <<savevars, main, shared>>
  /\ ReceiverOnly

\* A program ends, all its threads with it.
leave(c) ==
  /\ c \in up /\ Fault
  /\ up' = up \ {c}
  /\ main' = [main EXCEPT ![c] = InLoop]
  /\ inbox' = [inbox EXCEPT ![c] = <<>>]
  /\ receiver' = [n \in Savers |->
       IF receiver[n].from = c THEN [receiver[n] EXCEPT !.pc = "ended", !.sender = NoClient]
       ELSE IF receiver[n].sender = c THEN [receiver[n] EXCEPT !.sender = NoClient]
       ELSE receiver[n]]
  /\ save' = [n \in Savers |-> IF Saving(n) /\ save[n].pid = c
                               THEN [save[n] EXCEPT !.stage = "failed"] ELSE save[n]]
  /\ UNCHANGED <<named, tmp, inodes, typed, server, disk, readers, changes, asked, shared>>

\* what a change does to the history
Witnessed ==
  asked' = [n \in DOMAIN asked |->
    [command |-> asked[n].command,
     allowed |-> asked[n].allowed \/ MayRead(asked[n].command, disk', readers'),
     contents |-> asked[n].contents
                    \cup {disk'[asked[n].command.owner][asked[n].command.file]}]]

\* An owner replaces or removes a file that is asked for, or sets its ACL.
change(c, f) ==
  /\ \E cmd \in Commands : cmd.owner = c /\ cmd.file = f
  /\ changes < MaxChanges /\ changes' = changes + 1
  /\ \/ /\ \E d \in Data \cup {NoData} : disk' = [disk EXCEPT ![c][f] = d]
        /\ UNCHANGED readers
     \/ /\ \E users \in {{}, Clients} : readers' = [readers EXCEPT ![c][f] = users]
        /\ UNCHANGED disk
  /\ Witnessed
  /\ UNCHANGED <<savevars, up, main, typed, server, inbox, receiver, faults, shared>>

ServerStep(c) == handle_request_file(c) \/ send_to_user(c)
MainStep(c) == \/ handle_server_line(c) \/ tcp_connect(c) \/ connect_fails(c)
               \/ connection_lost(c) \/ send_piece(c) \/ send_file_done(c)
ReceiverStep(n) == \/ tcp_listen(n) \/ accept(n) \/ read_piece(n) \/ read_ends(n)
                   \/ save_received(n) \/ save_step(n) \/ finish(n)

Next ==
  \/ \E cmd \in Commands : request_file(cmd)
  \/ \E c \in Clients : ServerStep(c) \/ MainStep(c) \/ leave(c)
  \/ \E n \in Savers : ReceiverStep(n) \/ save_fails(n) \/ break(n)
  \/ \E c \in Clients, f \in Files : change(c, f)

Spec == Init /\ [][Next]_vars

\* Every program and every thread of the server runs.  Nobody has to type.
FairSpec == /\ Spec
            /\ \A c \in Clients : WF_vars(ServerStep(c)) /\ WF_vars(MainStep(c))
            /\ \A n \in Savers : WF_vars(ReceiverStep(n))
-----------------------------------------------------------------------------
Asked == [command : Commands, allowed : BOOLEAN, contents : SUBSET (Data \cup {NoData})]
Mains == [pc : {"loop", "connect", "queued", "send"}, command : Nat,
          data : Data \cup {NoData}, tries : Nat, peer : Nat]
Receivers == [pc : {"none", "start", "accept", "read", "save", "ended"},
              from : Clients \cup {NoClient}, sender : Clients \cup {NoClient},
              file : Files \cup {NoFile}, data : Data \cup {NoData}, sent : Nat, got : Nat]

TypeOK ==
  /\ SaveTypeOK
  /\ up \subseteq Clients
  /\ main \in [Clients -> Mains]
  /\ typed \in [Clients -> Seq(Nat)]
  /\ server \in [Clients -> Nat]
  /\ inbox \in [Clients -> Seq(Nat)]
  /\ receiver \in [Savers -> Receivers]
  /\ disk \in [Clients -> [Files -> Data \cup {NoData}]]
  /\ readers \in [Clients -> [Files -> SUBSET Clients]]
  /\ changes \in 0 .. MaxChanges
  /\ faults \in 0 .. MaxFaults
  /\ asked \in Seq(Asked) /\ DOMAIN asked \subseteq Savers
  /\ shared \subseteq Paths
  /\ \A n \in Savers : receiver[n].got <= receiver[n].sent

\* What a receiver has saved is what the file it is called after contained at
\* some moment since its user asked for it, and the user could read it at some
\* moment since, though the file and its ACL change between the server's look
\* and the owner's, and a listener may get the file of another command.
SavedAsAsked ==
  \A n \in Savers : InStage(n, "saved") =>
    \E m \in DOMAIN asked :
      /\ <<asked[m].command.from, asked[m].command.file>> = save[n].path
      /\ asked[m].allowed
      /\ save[n].data \in asked[m].contents

\* A downloaded file is all of one version of some owner's file, unless two
\* receivers of the program saved a file of that name at the same time: they
\* share the temporary's name, and one writes into the other's file even after
\* it was renamed.
WholeUnlessShared ==
  \A path \in Paths \ shared : named[path] # NoInode =>
    \E d \in Data : inodes[named[path]] = Whole(d)

\* The owner's program comes back to its loop: it neither tries nor waits for
\* ever, so that it reads from the chat server again.
OwnerReturns == \A c \in Clients : main[c].pc # "loop" ~> main[c].pc = "loop"

\* Who listens already when the owner's program has the request gets a file,
\* unless something failed, the file is gone, or two receivers saved one name at
\* a time.
ListenerServed ==
  \A n \in Savers :
    (receiver[n].pc = "accept" /\ \E c \in Clients : \E i \in DOMAIN inbox[c] : inbox[c][i] = n)
      ~> \/ InStage(n, "saved") \/ faults > 0 \/ shared # {}
         \/ n \in DOMAIN asked /\ NoData \in asked[n].contents
=============================================================================
