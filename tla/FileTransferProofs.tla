-------------------------- MODULE FileTransferProofs --------------------------
(***************************************************************************)
(* For every number of programs, files, ports and commands: the types, and *)
(* the two safety properties of FileTransfer.                              *)
(*                                                                         *)
(* The invariant follows a command on its way.  What the server forwards   *)
(* is granted, what the owner's program has loaded was the file's content  *)
(* since the command was typed, and the receiver it is connected to is one *)
(* of the user who typed it, though perhaps of another command.            *)
(***************************************************************************)
EXTENDS FileTransfer, SaveFileProofs

\* Some command was granted that the datum answers, under the name of the file.
Earned(from, file, d) ==
  \E m \in DOMAIN asked :
    /\ asked[m].command.from = from /\ asked[m].command.file = file
    /\ asked[m].allowed
    /\ d \in asked[m].contents

Granted(n) == n \in DOMAIN asked /\ asked[n].allowed

\* The history knows what is the case now.
AskedInv ==
  \A n \in DOMAIN asked :
    /\ disk[asked[n].command.owner][asked[n].command.file] \in asked[n].contents
    /\ MayRead(asked[n].command, disk, readers) => asked[n].allowed

RequestInv ==
  \A c \in Clients :
    /\ \A i \in DOMAIN typed[c] : typed[c][i] \in DOMAIN asked
    /\ server[c] # 0 => Granted(server[c])
    /\ \A i \in DOMAIN inbox[c] :
         Granted(inbox[c][i]) /\ asked[inbox[c][i]].command.owner = c

Connected(c) == main[c].pc \in {"queued", "send"}

MainInv ==
  \A c \in Clients :
    /\ main[c].pc # "loop" =>
         /\ Granted(main[c].command)
         /\ main[c].data \in Data
         /\ main[c].data \in asked[main[c].command].contents
    /\ Connected(c) =>
         /\ main[c].peer \in DOMAIN asked
         /\ receiver[main[c].peer].from = asked[main[c].command].command.from

Receiving(n) == receiver[n].pc \in {"read", "save"}

ReceiverInv ==
  \A n \in Savers :
    /\ n \notin DOMAIN asked => receiver[n] = NoReceiver
    /\ Receiving(n) =>
         /\ receiver[n].from \in Clients /\ receiver[n].file \in Files
         /\ receiver[n].data \in Data
         /\ Earned(receiver[n].from, receiver[n].file, receiver[n].data)

SavedInv ==
  \A n \in Savers : ~InStage(n, "none") =>
    Earned(save[n].path[1], save[n].path[2], save[n].data)

\* Two savers with one path are recorded.
SharedInv ==
  \A r, s \in Savers :
    r # s /\ Saving(r) /\ Saving(s) /\ save[r].path = save[s].path => save[s].path \in shared

TransferInv == /\ TypeOK /\ AskedInv /\ RequestInv /\ MainInv /\ ReceiverInv
               /\ SavedInv /\ SharedInv /\ SaveInv(shared) /\ WholeUnlessShared
-----------------------------------------------------------------------------
(* The history of the commands only grows.                                 *)

Grows ==
  /\ DOMAIN asked \subseteq DOMAIN asked'
  /\ \A m \in DOMAIN asked :
       /\ asked'[m].command = asked[m].command
       /\ asked[m].allowed => asked'[m].allowed
       /\ asked[m].contents \subseteq asked'[m].contents

LEMMA SameGrows == UNCHANGED asked => Grows
BY DEF Grows

LEMMA CommandTypes ==
  ASSUME TypeOK, NEW n \in DOMAIN asked
  PROVE  /\ asked[n].command \in Commands
         /\ asked[n].command.from \in Clients /\ asked[n].command.owner \in Clients
         /\ asked[n].command.file \in Files /\ asked[n].command.port \in Ports
         /\ asked[n].allowed \in BOOLEAN
         /\ asked[n].contents \subseteq Data \cup {NoData}
         /\ n \in Savers /\ n \in Nat \ {0}
<1>1. asked \in Seq(Asked) /\ DOMAIN asked \subseteq Savers
  BY DEF TypeOK
<1>2. asked[n] \in Asked /\ n \in Nat \ {0}
  BY <1>1
<1> QED
  BY <1>1, <1>2, TransferAssumption DEF Asked

LEMMA AppendGrows ==
  ASSUME TypeOK, NEW cmd \in Commands, request_file(cmd)
  PROVE  Grows /\ DOMAIN asked' = DOMAIN asked \cup {Len(asked) + 1}
         /\ Len(asked') = Len(asked) + 1 /\ Len(asked) + 1 \in Savers \ DOMAIN asked
         /\ asked'[Len(asked) + 1] = [command |-> cmd, allowed |-> MayRead(cmd, disk, readers),
                                      contents |-> {disk[cmd.owner][cmd.file]}]
<1> DEFINE new == [command |-> cmd, allowed |-> MayRead(cmd, disk, readers),
                   contents |-> {disk[cmd.owner][cmd.file]}]
<1>1. asked' = Append(asked, new) /\ Len(asked) + 1 \in Savers
  BY DEF request_file
<1>2. asked \in Seq(Asked)
  BY DEF TypeOK
<1> HIDE DEF new
<1>3. /\ DOMAIN asked' = DOMAIN asked \cup {Len(asked) + 1}
      /\ Len(asked') = Len(asked) + 1 /\ Len(asked) + 1 \notin DOMAIN asked
      /\ asked'[Len(asked) + 1] = new
      /\ \A m \in DOMAIN asked : asked'[m] = asked[m]
  BY <1>1, <1>2
<1> QED
  BY <1>1, <1>3 DEF Grows, new

LEMMA ChangeGrows ==
  ASSUME NEW c \in Clients, NEW f \in Files, change(c, f)
  PROVE  Grows /\ DOMAIN asked' = DOMAIN asked
BY DEF change, Witnessed, Grows

LEMMA StepGrows ==
  ASSUME TypeOK, [Next]_vars
  PROVE  Grows
<1>1. ASSUME NEW cmd \in Commands, request_file(cmd) PROVE Grows
  BY <1>1, AppendGrows
<1>2. ASSUME NEW c \in Clients, NEW f \in Files, change(c, f) PROVE Grows
  BY <1>2, ChangeGrows
<1>3. ASSUME NEW c \in Clients, ServerStep(c) \/ MainStep(c) \/ leave(c) PROVE UNCHANGED asked
  BY <1>3 DEF ServerStep, MainStep, leave, handle_request_file, send_to_user,
       handle_server_line, tcp_connect, connect_fails, connection_lost, send_piece,
       send_file_done, MainOnly
<1>4. ASSUME NEW n \in Savers, ReceiverStep(n) \/ save_fails(n) \/ break(n) PROVE UNCHANGED asked
  BY <1>4 DEF ReceiverStep, save_fails, break, tcp_listen, accept, read_piece, read_ends,
       save_received, save_step, finish, ReceiverOnly
<1>5. UNCHANGED vars => UNCHANGED asked
  BY DEF vars
<1> QED
  BY <1>1, <1>2, <1>3, <1>4, <1>5, SameGrows DEF Next

LEMMA EarnedStays ==
  ASSUME Grows, NEW from, NEW file, NEW d, Earned(from, file, d)
  PROVE  Earned(from, file, d)'
BY DEF Grows, Earned

LEMMA GrantedStays ==
  ASSUME Grows, NEW n, Granted(n)
  PROVE  /\ Granted(n)' /\ asked'[n].command = asked[n].command
         /\ asked[n].contents \subseteq asked'[n].contents
BY DEF Grows, Granted
-----------------------------------------------------------------------------
(* The types, action by action.                                            *)

LEMMA SaveTypesStay ==
  ASSUME SaveTypeOK, UNCHANGED savevars
  PROVE  SaveTypeOK'
BY DEF SaveTypeOK, savevars, InStage, Inodes

LEMMA InitTypes == Init => TypeOK
<1> SUFFICES ASSUME Init PROVE TypeOK
  OBVIOUS
<1>1. SaveTypeOK
  BY SaveAssumption DEF Init, SaveInit, SaveTypeOK, InStage, NotSaving, SaveStates, Stages, Inodes
<1>2. /\ up \subseteq Clients /\ main \in [Clients -> Mains] /\ typed \in [Clients -> Seq(Nat)]
      /\ server \in [Clients -> Nat] /\ inbox \in [Clients -> Seq(Nat)]
      /\ receiver \in [Savers -> Receivers]
      /\ \A n \in Savers : receiver[n].got <= receiver[n].sent
  BY DEF Init, InLoop, NoReceiver, Mains, Receivers
<1>3. /\ changes \in 0 .. MaxChanges /\ faults \in 0 .. MaxFaults
      /\ asked \in Seq(Asked) /\ DOMAIN asked \subseteq Savers /\ shared \subseteq Paths
  BY TransferAssumption DEF Init
<1>4. /\ disk \in [Clients -> [Files -> Data \cup {NoData}]]
      /\ readers \in [Clients -> [Files -> SUBSET Clients]]
  BY DEF Init
<1> QED
  BY <1>1, <1>2, <1>3, <1>4 DEF TypeOK

LEMMA RequestTypes ==
  ASSUME TypeOK, NEW cmd \in Commands, request_file(cmd)
  PROVE  TypeOK'
<1>1. SaveTypeOK'
  BY SaveTypesStay DEF TypeOK, request_file
<1>2. cmd.from \in Clients /\ cmd.owner \in Clients /\ cmd.file \in Files
  BY TransferAssumption
<1>3. asked' \in Seq(Asked) /\ DOMAIN asked' \subseteq Savers
  <2> DEFINE new == [command |-> cmd, allowed |-> MayRead(cmd, disk, readers),
                     contents |-> {disk[cmd.owner][cmd.file]}]
  <2>1. MayRead(cmd, disk, readers) \in BOOLEAN
    BY DEF MayRead
  <2>2. disk[cmd.owner][cmd.file] \in Data \cup {NoData}
    BY <1>2 DEF TypeOK
  <2>3. new \in Asked
    BY <2>1, <2>2 DEF Asked
  <2> HIDE DEF new
  <2>4. asked' = Append(asked, new)
    BY DEF request_file, new
  <2>5. asked' \in Seq(Asked)
    BY <2>3, <2>4 DEF TypeOK
  <2>6. DOMAIN asked' \subseteq Savers
    BY AppendGrows DEF TypeOK
  <2> QED
    BY <2>5, <2>6
<1>4. /\ receiver' \in [Savers -> Receivers]
      /\ \A n \in Savers : receiver'[n].got <= receiver'[n].sent
  <2> DEFINE n == Len(asked')
  <2>1. n \in Savers
    BY AppendGrows
  <2>2. receiver' = [receiver EXCEPT ![n].pc = "start", ![n].from = cmd.from]
    BY DEF request_file
  <2> HIDE DEF n
  <2>3. receiver \in [Savers -> Receivers] /\ \A m \in Savers : receiver[m].got <= receiver[m].sent
    BY DEF TypeOK
  <2>4. receiver' \in [Savers -> Receivers]
    BY <1>2, <2>1, <2>2, <2>3 DEF Receivers
  <2>5. \A m \in Savers : receiver'[m].got <= receiver'[m].sent
    BY <2>1, <2>2, <2>3 DEF Receivers
  <2> QED
    BY <2>4, <2>5
<1>5. typed' \in [Clients -> Seq(Nat)]
  <2>1. Len(asked') \in Nat
    BY <1>3
  <2> QED
    BY <1>2, <2>1 DEF TypeOK, request_file
<1> QED
  BY <1>1, <1>3, <1>4, <1>5 DEF TypeOK, request_file

LEMMA ServerTypes ==
  ASSUME TypeOK, NEW c \in Clients, ServerStep(c)
  PROVE  TypeOK'
<1>1. SaveTypeOK'
  BY SaveTypesStay DEF TypeOK, ServerStep, handle_request_file, send_to_user
<1>2. CASE handle_request_file(c)
  <2>1. typed' \in [Clients -> Seq(Nat)]
    BY <1>2 DEF TypeOK, handle_request_file
  <2>2. server' \in [Clients -> Nat]
    BY <1>2 DEF TypeOK, handle_request_file
  <2> QED
    BY <1>1, <1>2, <2>1, <2>2 DEF TypeOK, handle_request_file
<1>3. CASE send_to_user(c)
  <2>1. inbox' \in [Clients -> Seq(Nat)]
    BY <1>3 DEF TypeOK, send_to_user
  <2>2. server' \in [Clients -> Nat]
    BY <1>3 DEF TypeOK, send_to_user
  <2> QED
    BY <1>1, <1>3, <2>1, <2>2 DEF TypeOK, send_to_user
<1> QED
  BY <1>2, <1>3 DEF ServerStep

LEMMA MainTypes ==
  ASSUME TypeOK, RequestInv, MainInv, NEW c \in Clients, MainStep(c)
  PROVE  TypeOK'
<1>0. InLoop \in Mains
  BY DEF InLoop, Mains
<1>1. SaveTypeOK'
  BY SaveTypesStay DEF TypeOK, MainStep, handle_server_line, tcp_connect, connect_fails,
     connection_lost, send_piece, send_file_done, MainOnly
<1>2. CASE handle_server_line(c)
  <2>1. inbox' \in [Clients -> Seq(Nat)]
    BY <1>2 DEF TypeOK, handle_server_line
  <2>2. main' \in [Clients -> Mains]
    <3> DEFINE n == Head(inbox[c])
               d == load_file(c, asked[n].command.file)
    <3>1. n = inbox[c][1] /\ 1 \in DOMAIN inbox[c]
      BY <1>2 DEF TypeOK, handle_server_line
    <3>2. n \in DOMAIN asked /\ asked[n].command.owner = c
      BY <3>1 DEF RequestInv, Granted
    <3>3. d \in Data \cup {NoData} /\ n \in Nat
      BY <3>2, CommandTypes DEF load_file, TypeOK
    <3>4. \/ main' = main
          \/ main' = [main EXCEPT ![c] = [InLoop EXCEPT !.pc = "connect", !.command = n, !.data = d]]
      BY <1>2 DEF handle_server_line
    <3> HIDE DEF n, d
    <3>5. [InLoop EXCEPT !.pc = "connect", !.command = n, !.data = d] \in Mains
      BY <3>3 DEF InLoop, Mains
    <3> QED
      BY <3>4, <3>5 DEF TypeOK
  <2> QED
    BY <1>1, <1>2, <2>1, <2>2 DEF TypeOK, handle_server_line, MainOnly
<1>3. CASE tcp_connect(c)
  <2>1. PICK n \in Savers : main' = [main EXCEPT ![c].pc = "queued", ![c].peer = n]
    BY <1>3 DEF tcp_connect, Addressed, Bound
  <2>2. n \in Nat
    BY TransferAssumption
  <2>3. main' \in [Clients -> Mains]
    BY <2>1, <2>2 DEF TypeOK, Mains
  <2> QED
    BY <1>1, <1>3, <2>3 DEF TypeOK, tcp_connect, MainOnly
<1>4. CASE connect_fails(c)
  <2>1. main' \in [Clients -> Mains]
    <3>1. main \in [Clients -> Mains]
      BY DEF TypeOK
    <3>2. \/ main' = [main EXCEPT ![c] = InLoop]
          \/ main' = [main EXCEPT ![c].tries = @ + 1]
      BY <1>4 DEF connect_fails
    <3>3. CASE main' = [main EXCEPT ![c] = InLoop]
      BY <1>0, <3>1, <3>3
    <3>4. CASE main' = [main EXCEPT ![c].tries = @ + 1]
      BY <3>1, <3>4 DEF Mains
    <3> QED
      BY <3>2, <3>3, <3>4
  <2> QED
    BY <1>1, <1>4, <2>1 DEF TypeOK, connect_fails, MainOnly
<1>5. CASE connection_lost(c)
  BY <1>0, <1>1, <1>5 DEF TypeOK, connection_lost, MainOnly
<1>6. CASE send_piece(c) \/ send_file_done(c)
  <2> DEFINE n == main[c].peer
  <2>1. n \in Savers
    <3>1. Connected(c)
      BY <1>6 DEF send_piece, send_file_done, Connected
    <3> QED
      BY <3>1, CommandTypes DEF MainInv
  <2>2. \/ receiver' = [receiver EXCEPT ![n].sent = @ + 1]
        \/ receiver' = [receiver EXCEPT ![n].sender = NoClient]
    BY <1>6 DEF send_piece, send_file_done
  <2> HIDE DEF n
  <2>3. receiver \in [Savers -> Receivers] /\ \A m \in Savers : receiver[m].got <= receiver[m].sent
    BY DEF TypeOK
  <2>4. receiver' \in [Savers -> Receivers]
    BY <2>1, <2>2, <2>3 DEF Receivers
  <2>5. \A m \in Savers : receiver'[m].got <= receiver'[m].sent
    BY <2>1, <2>2, <2>3 DEF Receivers
  <2>6. main' \in [Clients -> Mains]
    BY <1>0, <1>6 DEF TypeOK, send_piece, send_file_done
  <2> QED
    BY <1>1, <1>6, <2>4, <2>5, <2>6 DEF TypeOK, send_piece, send_file_done, MainOnly
<1> QED
  BY <1>2, <1>3, <1>4, <1>5, <1>6 DEF MainStep
LEMMA FaultTypes ==
  ASSUME faults \in 0 .. MaxFaults, Fault \/ faults' = faults
  PROVE  faults' \in 0 .. MaxFaults
BY TransferAssumption DEF Fault

LEMMA ReceiverTypes ==
  ASSUME TypeOK, MainInv, ReceiverInv, NEW n \in Savers,
         ReceiverStep(n) \/ save_fails(n) \/ break(n)
  PROVE  TypeOK'
<1>1. /\ receiver \in [Savers -> Receivers] /\ \A m \in Savers : receiver[m].got <= receiver[m].sent
      /\ main \in [Clients -> Mains]
  BY DEF TypeOK
<1>2. /\ UNCHANGED <<up, typed, server, inbox, disk, readers, changes, asked>>
      /\ faults' \in 0 .. MaxFaults
  <2>1. faults' = faults \/ Fault
    BY DEF ReceiverStep, save_fails, break, tcp_listen, accept, read_piece, read_ends,
       save_received, save_step, finish
  <2>2. UNCHANGED <<up, typed, server, inbox, disk, readers, changes, asked>>
    BY DEF ReceiverStep, save_fails, break, tcp_listen, accept, read_piece, read_ends,
       save_received, save_step, finish, ReceiverOnly
  <2> QED
    BY <2>1, <2>2, FaultTypes DEF TypeOK
<1>3. SaveTypeOK'
  <2>1. CASE UNCHANGED savevars
    BY <2>1, SaveTypesStay DEF TypeOK
  <2>2. CASE SaveStep(n) \/ SaveFault(n)
    BY <2>2, SaveStepTypes DEF TypeOK
  <2>3. CASE save_received(n)
    <3> DEFINE path == <<receiver[n].from, receiver[n].file>>
    <3>1. /\ receiver[n].from \in Clients /\ receiver[n].file \in Files
          /\ receiver[n].data \in Data
      BY <2>3 DEF save_received, At, ReceiverInv, Receiving
    <3>2. path \in Paths /\ receiver[n].from \in Pids
      BY <3>1, TransferAssumption
    <3>3. /\ save_file_atomic(n, receiver[n].from, path, receiver[n].data)
          /\ UNCHANGED <<named, tmp, inodes>>
      BY <2>3 DEF save_received
    <3> HIDE DEF path
    <3> QED
      BY <3>1, <3>2, <3>3, CallTypes DEF TypeOK
  <2> QED
    BY <2>1, <2>2, <2>3 DEF ReceiverStep, save_fails, break, tcp_listen, accept, read_piece,
       read_ends, save_step, finish
<1>4. shared' \subseteq Paths
  <2>1. CASE save_received(n)
    <3>1. <<receiver[n].from, receiver[n].file>> \in Paths
      BY <2>1, TransferAssumption DEF save_received, At, ReceiverInv, Receiving
    <3> QED
      BY <2>1, <3>1 DEF save_received, TypeOK
  <2>2. CASE ~save_received(n)
    <3>1. shared' = shared
      BY <2>2 DEF ReceiverStep, save_fails, break, tcp_listen, accept, read_piece, read_ends,
         save_step, finish
    <3> QED
      BY <3>1 DEF TypeOK
  <2> QED
    BY <2>1, <2>2
<1>5. /\ receiver' \in [Savers -> Receivers] /\ \A m \in Savers : receiver'[m].got <= receiver'[m].sent
      /\ main' \in [Clients -> Mains]
  <2>1. CASE accept(n)
    <3>1. PICK c \in up :
            /\ main[c].pc = "queued"
            /\ receiver' = [receiver EXCEPT ![n].pc = "read", ![n].sender = c,
                                            ![n].file = asked[main[c].command].command.file,
                                            ![n].data = main[c].data]
            /\ main' = [main EXCEPT ![c].pc = "send"]
      BY <2>1 DEF accept
    <3>2. c \in Clients
      BY DEF TypeOK
    <3>3. /\ asked[main[c].command].command.file \in Files
          /\ main[c].data \in Data
      BY <3>1, <3>2, CommandTypes DEF MainInv, Granted
    <3> DEFINE file == asked[main[c].command].command.file
               d == main[c].data
    <3>4. /\ receiver' = [receiver EXCEPT ![n].pc = "read", ![n].sender = c,
                                          ![n].file = file, ![n].data = d]
          /\ file \in Files /\ d \in Data
      BY <3>1, <3>3
    <3> HIDE DEF file, d
    <3>5. receiver' \in [Savers -> Receivers]
      <4> DEFINE r == [receiver[n] EXCEPT !.pc = "read", !.sender = c, !.file = file, !.data = d]
      <4>1. receiver[n] \in Receivers
        BY <1>1
      <4>2. r \in Receivers
        BY <3>2, <3>4, <4>1 DEF Receivers
      <4>3. receiver' = [receiver EXCEPT ![n] = r]
        BY <1>1, <3>4
      <4> HIDE DEF r
      <4> QED
        BY <1>1, <4>2, <4>3
    <3>6. \A m \in Savers : receiver'[m].got <= receiver'[m].sent
      BY <1>1, <3>4 DEF Receivers
    <3>7. main' \in [Clients -> Mains]
      BY <1>1, <3>1, <3>2 DEF Mains
    <3> QED
      BY <3>5, <3>6, <3>7
  <2>2. CASE break(n) \/ finish(n)
    <3>1. /\ main' = main
          /\ \/ receiver' = [receiver EXCEPT ![n].sender = NoClient, ![n].sent = receiver[n].got]
             \/ receiver' = [receiver EXCEPT ![n].pc = "ended", ![n].sender = NoClient]
      BY <2>2 DEF break, finish
    <3>2. receiver[n].got \in Nat
      BY <1>1 DEF Receivers
    <3>3. receiver' \in [Savers -> Receivers]
      BY <1>1, <3>1, <3>2 DEF Receivers
    <3>4. \A m \in Savers : receiver'[m].got <= receiver'[m].sent
      BY <1>1, <3>1, <3>2 DEF Receivers
    <3> QED
      BY <1>1, <3>1, <3>3, <3>4
  <2>3. CASE read_piece(n)
    <3>1. /\ main' = main /\ receiver[n].got < receiver[n].sent
          /\ receiver' = [receiver EXCEPT ![n].got = @ + 1]
      BY <2>3 DEF read_piece
    <3>2. receiver' \in [Savers -> Receivers]
      BY <1>1, <3>1 DEF Receivers
    <3>3. \A m \in Savers : receiver'[m].got <= receiver'[m].sent
      BY <1>1, <3>1 DEF Receivers
    <3> QED
      BY <1>1, <3>1, <3>2, <3>3
  <2>4. CASE tcp_listen(n) \/ read_ends(n) \/ save_received(n) \/ save_step(n) \/ save_fails(n)
    <3>1. /\ main' = main
          /\ \/ receiver' = receiver
             \/ \E pc \in {"accept", "ended", "save"} : receiver' = [receiver EXCEPT ![n].pc = pc]
      BY <2>4 DEF tcp_listen, read_ends, save_received, save_step, save_fails
    <3>2. receiver' \in [Savers -> Receivers]
      BY <1>1, <3>1 DEF Receivers
    <3>3. \A m \in Savers : receiver'[m].got <= receiver'[m].sent
      BY <1>1, <3>1 DEF Receivers
    <3> QED
      BY <1>1, <3>1, <3>2, <3>3
  <2> QED
    BY <2>1, <2>2, <2>3, <2>4 DEF ReceiverStep
<1>6. up' \subseteq Clients /\ typed' \in [Clients -> Seq(Nat)] /\ server' \in [Clients -> Nat]
      /\ inbox' \in [Clients -> Seq(Nat)] /\ disk' \in [Clients -> [Files -> Data \cup {NoData}]]
      /\ readers' \in [Clients -> [Files -> SUBSET Clients]] /\ changes' \in 0 .. MaxChanges
      /\ asked' \in Seq(Asked) /\ DOMAIN asked' \subseteq Savers
  BY <1>2 DEF TypeOK
<1> QED
  BY <1>2, <1>3, <1>4, <1>5, <1>6 DEF TypeOK

LEMMA LeaveTypes ==
  ASSUME TypeOK, NEW c \in Clients, leave(c)
  PROVE  TypeOK'
<1>1. SaveTypeOK'
  <2>1. save \in [Savers -> SaveStates] /\ SaveTypeOK
    BY DEF TypeOK, SaveTypeOK
  <2>2. save' = [n \in Savers |-> IF Saving(n) /\ save[n].pid = c
                                  THEN [save[n] EXCEPT !.stage = "failed"] ELSE save[n]]
    BY DEF leave
  <2>3. save' \in [Savers -> SaveStates]
    BY <2>1, <2>2 DEF SaveStates, Stages
  <2>4. \A s \in Savers :
          \/ save'[s] = save[s]
          \/ /\ Saving(s) /\ save'[s].stage \in {"unlink", "saved", "failed"}
             /\ save'[s].path = save[s].path /\ save'[s].pid = save[s].pid
             /\ save'[s].data = save[s].data
    BY <2>1, <2>2 DEF SaveStates
  <2>5. UNCHANGED inodes /\ named' \in [Paths -> Inodes \cup {NoInode}]
        /\ tmp' \in [Paths \X Pids -> Inodes \cup {NoInode}]
    BY <2>1 DEF leave, SaveTypeOK
  <2> QED
    BY <2>1, <2>3, <2>4, <2>5, StopTypes
<1>2. /\ receiver' \in [Savers -> Receivers] /\ \A n \in Savers : receiver'[n].got <= receiver'[n].sent
  <2>1. receiver \in [Savers -> Receivers] /\ \A n \in Savers : receiver[n].got <= receiver[n].sent
    BY DEF TypeOK
  <2>2. receiver' = [n \in Savers |->
          IF receiver[n].from = c THEN [receiver[n] EXCEPT !.pc = "ended", !.sender = NoClient]
          ELSE IF receiver[n].sender = c THEN [receiver[n] EXCEPT !.sender = NoClient]
          ELSE receiver[n]]
    BY DEF leave
  <2>3. ASSUME NEW n \in Savers
        PROVE  receiver'[n] \in Receivers /\ receiver'[n].got <= receiver'[n].sent
    BY <2>1, <2>2 DEF Receivers
  <2> QED
    BY <2>2, <2>3
<1>3. main' \in [Clients -> Mains]
  BY DEF TypeOK, leave, InLoop, Mains
<1>4. inbox' \in [Clients -> Seq(Nat)] /\ up' \subseteq Clients
  <2>1. <<>> \in Seq(Nat)
    OBVIOUS
  <2>2. inbox \in [Clients -> Seq(Nat)] /\ up \subseteq Clients
    BY DEF TypeOK
  <2>3. inbox' = [inbox EXCEPT ![c] = <<>>] /\ up' = up \ {c}
    BY DEF leave
  <2> QED
    BY <2>1, <2>2, <2>3
<1>5. faults' \in 0 .. MaxFaults
  BY FaultTypes DEF TypeOK, leave
<1> QED
  BY <1>1, <1>2, <1>3, <1>4, <1>5 DEF TypeOK, leave

LEMMA ChangeTypes ==
  ASSUME TypeOK, NEW c \in Clients, NEW f \in Files, change(c, f)
  PROVE  TypeOK'
<1>1. SaveTypeOK'
  BY SaveTypesStay DEF TypeOK, change
<1>2. disk' \in [Clients -> [Files -> Data \cup {NoData}]]
  <2>1. disk \in [Clients -> [Files -> Data \cup {NoData}]]
    BY DEF TypeOK
  <2>2. PICK d \in Data \cup {NoData} : disk' = disk \/ disk' = [disk EXCEPT ![c][f] = d]
    BY DEF change
  <2> QED
    BY <2>1, <2>2
<1>3. readers' \in [Clients -> [Files -> SUBSET Clients]]
  <2>1. readers \in [Clients -> [Files -> SUBSET Clients]]
    BY DEF TypeOK
  <2>2. PICK users \in {{}, Clients} : readers' = readers \/ readers' = [readers EXCEPT ![c][f] = users]
    BY DEF change
  <2>3. users \in SUBSET Clients
    OBVIOUS
  <2> QED
    BY <2>1, <2>2, <2>3
<1>4. changes' \in 0 .. MaxChanges
  BY TransferAssumption DEF TypeOK, change
<1>5. asked' \in Seq(Asked) /\ DOMAIN asked' \subseteq Savers
  <2>1. asked \in Seq(Asked) /\ DOMAIN asked \subseteq Savers
    BY DEF TypeOK
  <2>2. ASSUME NEW n \in DOMAIN asked PROVE asked'[n] \in Asked
    <3> DEFINE cmd == asked[n].command
    <3>1. cmd \in Commands /\ cmd.owner \in Clients /\ cmd.file \in Files
          /\ asked[n].allowed \in BOOLEAN /\ asked[n].contents \subseteq Data \cup {NoData}
      BY CommandTypes
    <3>2. MayRead(cmd, disk', readers') \in BOOLEAN
      BY DEF MayRead
    <3>3. disk'[cmd.owner][cmd.file] \in Data \cup {NoData}
      BY <1>2, <3>1
    <3>4. asked'[n] = [command |-> cmd, allowed |-> asked[n].allowed \/ MayRead(cmd, disk', readers'),
                       contents |-> asked[n].contents \cup {disk'[cmd.owner][cmd.file]}]
      BY DEF change, Witnessed
    <3> HIDE DEF cmd
    <3> QED
      BY <3>1, <3>2, <3>3, <3>4 DEF Asked
  <2>3. DOMAIN asked' = DOMAIN asked /\ \E k \in Nat : DOMAIN asked = 1 .. k
    <3>1. DOMAIN asked = 1 .. Len(asked) /\ Len(asked) \in Nat
      BY <2>1
    <3> QED
      BY <3>1, ChangeGrows
  <2>4. asked' = [n \in DOMAIN asked |-> asked'[n]]
    BY DEF change, Witnessed
  <2> QED
    BY <2>1, <2>2, <2>3, <2>4
<1> QED
  BY <1>1, <1>2, <1>3, <1>4, <1>5 DEF TypeOK, change
-----------------------------------------------------------------------------
(* What leaves a part of the invariant alone.                              *)

DiskInv == SavedInv /\ SharedInv /\ SaveInv(shared) /\ WholeUnlessShared

CommandInv == AskedInv /\ RequestInv /\ MainInv /\ ReceiverInv

LEMMA Parts == TransferInv <=> TypeOK /\ CommandInv /\ DiskInv
BY DEF TransferInv, CommandInv, DiskInv

LEMMA AskedStays ==
  ASSUME AskedInv, UNCHANGED <<asked, disk, readers>>
  PROVE  AskedInv'
BY DEF AskedInv, MayRead

LEMMA RequestStays ==
  ASSUME RequestInv, Grows, UNCHANGED <<typed, server, inbox>>
  PROVE  RequestInv'
BY DEF RequestInv, Granted, Grows

\* A program that goes on with a command goes on with the same.
LEMMA MainStays ==
  ASSUME MainInv, Grows, \A n \in DOMAIN asked : receiver'[n].from = receiver[n].from,
         \A c \in Clients :
           \/ main'[c].pc = "loop"
           \/ /\ main[c].pc # "loop"
              /\ main'[c].command = main[c].command /\ main'[c].data = main[c].data
              /\ Connected(c)' => Connected(c) /\ main'[c].peer = main[c].peer
  PROVE  MainInv'
<1> SUFFICES ASSUME NEW c \in Clients
             PROVE  /\ main'[c].pc # "loop" =>
                         /\ Granted(main[c].command)' /\ main'[c].command = main[c].command
                         /\ main'[c].data \in Data
                         /\ main'[c].data \in asked'[main[c].command].contents
                    /\ Connected(c)' =>
                         /\ main'[c].peer \in DOMAIN asked'
                         /\ receiver'[main'[c].peer].from = asked'[main'[c].command].command.from
  BY DEF MainInv, Granted
<1>1. ASSUME main'[c].pc # "loop"
      PROVE  /\ Granted(main[c].command)' /\ main'[c].command = main[c].command
             /\ main'[c].data \in Data
             /\ main'[c].data \in asked'[main[c].command].contents
  BY <1>1 DEF MainInv, Granted, Grows
<1>2. ASSUME Connected(c)'
      PROVE  /\ main'[c].peer \in DOMAIN asked'
             /\ receiver'[main'[c].peer].from = asked'[main'[c].command].command.from
  <2>1. Connected(c) /\ main'[c].peer = main[c].peer /\ main'[c].command = main[c].command
        /\ main[c].pc # "loop"
    BY <1>2 DEF Connected
  <2> QED
    BY <2>1 DEF MainInv, Granted, Grows
<1> QED
  BY <1>1, <1>2

\* A receiver that goes on receiving receives the same.
LEMMA ReceiverStays ==
  ASSUME ReceiverInv, Grows,
         \A n \in Savers :
           \/ receiver'[n] = receiver[n]
           \/ /\ n \in DOMAIN asked
              /\ Receiving(n)' => /\ Receiving(n) /\ receiver'[n].from = receiver[n].from
                                  /\ receiver'[n].file = receiver[n].file
                                  /\ receiver'[n].data = receiver[n].data
  PROVE  ReceiverInv'
BY DEF ReceiverInv, Receiving, Earned, Grows

LEMMA Started ==
  ASSUME ReceiverInv, NEW n \in Savers, receiver[n].pc # "none"
  PROVE  n \in DOMAIN asked
BY DEF ReceiverInv, NoReceiver

\* The savers' files do not change, and nobody begins or goes on to write.
LEMMA DiskStays ==
  ASSUME TypeOK, DiskInv, Grows, UNCHANGED <<named, tmp, inodes, shared>>,
         \A s \in Savers :
           \/ save'[s] = save[s]
           \/ /\ ~Saving(s)' /\ ~InStage(s, "none") /\ save'[s].path = save[s].path
              /\ save'[s].data = save[s].data
  PROVE  DiskInv'
<1>1. SavedInv'
  BY DEF DiskInv, SavedInv, InStage, Earned, Grows
<1>2. SharedInv'
  BY DEF DiskInv, SharedInv, Saving
<1>3. SaveInv(shared)'
  <2>1. PICK R : R = shared
    OBVIOUS
  <2>2. SaveInv(R)
    BY <2>1 DEF DiskInv
  <2>3. \A s \in Savers : save'[s].stage = "write" => save'[s] = save[s]
    BY DEF Saving
  <2>4. SaveInv(R)'
    BY <2>2, <2>3, NoFileChanges
  <2> QED
    BY <2>1, <2>4 DEF SaveInv, OwnInv
<1>4. WholeUnlessShared'
  BY DEF DiskInv, WholeUnlessShared
<1> QED
  BY <1>1, <1>2, <1>3, <1>4 DEF DiskInv

LEMMA InitInv == Init => TransferInv
<1> SUFFICES ASSUME Init PROVE TransferInv
  OBVIOUS
<1>1. NotSaving.stage = "none" /\ InLoop.pc = "loop" /\ NoReceiver.pc = "none"
  BY DEF NotSaving, InLoop, NoReceiver
<1>2. TypeOK
  BY InitTypes
<1>3. CommandInv
  BY <1>1 DEF Init, CommandInv, AskedInv, RequestInv, MainInv, ReceiverInv, Connected, Receiving
<1>4. SavedInv /\ SharedInv
  BY <1>1 DEF Init, SaveInit, SavedInv, SharedInv, InStage, Saving
<1>5. SaveInv(shared)
  BY <1>1 DEF Init, SaveInit, SaveInv, TmpInv, OpenInv, OwnInv, InStage, TmpNames
<1>6. WholeUnlessShared
  BY DEF Init, SaveInit, WholeUnlessShared
<1> QED
  BY <1>2, <1>3, <1>4, <1>5, <1>6, Parts DEF DiskInv
-----------------------------------------------------------------------------
(* The requester's and the server's steps, and what happens besides.       *)

LEMMA RequestKeeps ==
  ASSUME TransferInv, NEW cmd \in Commands, request_file(cmd)
  PROVE  TransferInv'
<1>0. TypeOK /\ AskedInv /\ RequestInv /\ MainInv /\ ReceiverInv /\ DiskInv
  BY Parts DEF CommandInv
<1>1. TypeOK'
  BY <1>0, RequestTypes
<1>2. Grows
  BY <1>0, AppendGrows
<1> DEFINE n == Len(asked) + 1
<1>3. /\ DOMAIN asked' = DOMAIN asked \cup {n} /\ n \in Savers \ DOMAIN asked
      /\ asked'[n] = [command |-> cmd, allowed |-> MayRead(cmd, disk, readers),
                      contents |-> {disk[cmd.owner][cmd.file]}]
      /\ receiver' = [receiver EXCEPT ![n].pc = "start", ![n].from = cmd.from]
      /\ typed' = [typed EXCEPT ![cmd.from] = Append(@, n)]
  BY <1>0, AppendGrows DEF request_file
<1> HIDE DEF n
<1>4. AskedInv'
  <2>1. disk' = disk /\ readers' = readers
    BY DEF request_file
  <2>2. \A m \in DOMAIN asked : asked'[m] = asked[m]
    BY <1>0 DEF request_file, TypeOK
  <2> QED
    BY <1>0, <1>3, <2>1, <2>2 DEF AskedInv, MayRead
<1>5. RequestInv'
  <2>1. \A c \in Clients : \A i \in DOMAIN typed'[c] : typed'[c][i] \in DOMAIN asked'
    <3> SUFFICES ASSUME NEW c \in Clients, NEW i \in DOMAIN typed'[c]
                 PROVE  typed'[c][i] \in DOMAIN asked'
      OBVIOUS
    <3>1. typed[c] \in Seq(Nat)
      BY <1>0 DEF TypeOK
    <3>2. typed'[c] = typed[c] \/ typed'[c] = Append(typed[c], n)
      BY <1>0, <1>3 DEF TypeOK
    <3>3. (i \in DOMAIN typed[c] /\ typed'[c][i] = typed[c][i]) \/ typed'[c][i] = n
      BY <3>1, <3>2
    <3> QED
      BY <1>0, <1>3, <3>3 DEF RequestInv
  <2>2. UNCHANGED <<server, inbox>>
    BY DEF request_file
  <2> QED
    BY <1>0, <1>2, <2>1, <2>2 DEF RequestInv, Granted, Grows
<1>6. MainInv'
  <2>1. main' = main /\ \A m \in DOMAIN asked : receiver'[m].from = receiver[m].from
    BY <1>0, <1>3 DEF request_file, TypeOK
  <2> QED
    BY <1>0, <1>2, <2>1, MainStays DEF Connected
<1>7. ReceiverInv'
  <2>1. receiver'[n].pc = "start"
    BY <1>0, <1>3 DEF TypeOK, Receivers
  <2>2. \A m \in Savers \ {n} : receiver'[m] = receiver[m]
    BY <1>0, <1>3 DEF TypeOK
  <2> QED
    <3>1. \A m \in Savers : m \notin DOMAIN asked' => receiver'[m] = NoReceiver
      BY <1>0, <1>3, <2>2 DEF ReceiverInv
    <3>2. ASSUME NEW m \in Savers, Receiving(m)'
          PROVE  /\ receiver'[m].from \in Clients /\ receiver'[m].file \in Files
                 /\ receiver'[m].data \in Data
                 /\ Earned(receiver[m].from, receiver[m].file, receiver[m].data)'
      <4>1. receiver'[m] = receiver[m] /\ Receiving(m)
        BY <2>1, <2>2, <3>2 DEF Receiving
      <4> QED
        BY <1>0, <1>2, <4>1 DEF ReceiverInv, Earned, Grows
    <3> QED
      BY <3>1, <3>2 DEF ReceiverInv, Earned
<1>8. DiskInv'
  BY <1>0, <1>2, DiskStays DEF request_file, savevars
<1> QED
  BY <1>1, <1>4, <1>5, <1>6, <1>7, <1>8 DEF TransferInv, DiskInv

LEMMA ServerKeeps ==
  ASSUME TransferInv, NEW c \in Clients, ServerStep(c)
  PROVE  TransferInv'
<1>0. TypeOK /\ AskedInv /\ RequestInv /\ MainInv /\ ReceiverInv /\ DiskInv
  BY Parts DEF CommandInv
<1>1. UNCHANGED <<savevars, main, receiver, disk, readers, asked, shared>>
  BY DEF ServerStep, handle_request_file, send_to_user
<1>2. Grows
  BY <1>1, SameGrows
<1>3. TypeOK'
  BY <1>0, ServerTypes
<1>4. AskedInv'
  BY <1>0, <1>1, AskedStays
<1>5. RequestInv'
  <2>1. CASE handle_request_file(c)
    <3>1. /\ typed[c] # <<>> /\ typed[c] \in Seq(Nat)
          /\ typed' = [typed EXCEPT ![c] = Tail(@)] /\ inbox' = inbox
          /\ server' = [server EXCEPT ![c] =
               IF can_read_user_file(asked[typed[c][1]].command) THEN typed[c][1] ELSE 0]
      BY <1>0, <2>1 DEF handle_request_file, TypeOK
    <3>2. \A i \in DOMAIN Tail(typed[c]) : \E j \in DOMAIN typed[c] : Tail(typed[c])[i] = typed[c][j]
      <4> SUFFICES ASSUME NEW i \in DOMAIN Tail(typed[c])
                   PROVE  i + 1 \in DOMAIN typed[c] /\ Tail(typed[c])[i] = typed[c][i + 1]
        OBVIOUS
      <4> QED
        BY <3>1
    <3>3. \A b \in Clients : \A i \in DOMAIN typed'[b] : typed'[b][i] \in DOMAIN asked
      BY <1>0, <3>1, <3>2 DEF RequestInv, TypeOK
    <3>4. typed[c][1] \in DOMAIN asked
      BY <1>0, <3>1 DEF RequestInv
    <3>5. server'[c] # 0 => Granted(server'[c])
      <4>1. CASE can_read_user_file(asked[typed[c][1]].command)
        <5>1. asked[typed[c][1]].allowed
          BY <1>0, <3>4, <4>1 DEF AskedInv, can_read_user_file
        <5> QED
          BY <1>0, <3>1, <3>4, <4>1, <5>1 DEF Granted, TypeOK
      <4>2. CASE ~can_read_user_file(asked[typed[c][1]].command)
        BY <1>0, <3>1, <4>2 DEF TypeOK
      <4> QED
        BY <4>1, <4>2
    <3>6. \A b \in Clients \ {c} : server'[b] = server[b]
      BY <1>0, <3>1 DEF TypeOK
    <3> QED
      BY <1>0, <1>1, <3>1, <3>3, <3>5, <3>6 DEF RequestInv, Granted
  <2>2. CASE send_to_user(c)
    <3> DEFINE n == server[c]
               owner == asked[n].command.owner
    <3>1. n # 0 /\ Granted(n) /\ typed' = typed /\ server' = [server EXCEPT ![c] = 0]
      BY <1>0, <2>2 DEF send_to_user, RequestInv
    <3>2. owner \in Clients
      BY <1>0, <3>1, CommandTypes DEF Granted
    <3>3. inbox' = inbox \/ inbox' = [inbox EXCEPT ![owner] = Append(@, n)]
      BY <2>2 DEF send_to_user
    <3>4. \A b \in Clients : \A i \in DOMAIN inbox'[b] :
            Granted(inbox'[b][i]) /\ asked[inbox'[b][i]].command.owner = b
      <4>1. CASE inbox' = inbox
        BY <1>0, <4>1 DEF RequestInv
      <4>2. CASE inbox' = [inbox EXCEPT ![owner] = Append(@, n)]
        <5> SUFFICES ASSUME NEW b \in Clients, NEW i \in DOMAIN inbox'[b]
                     PROVE  Granted(inbox'[b][i]) /\ asked[inbox'[b][i]].command.owner = b
          OBVIOUS
        <5>1. inbox[b] \in Seq(Nat)
          BY <1>0 DEF TypeOK
        <5>2. inbox'[b] = inbox[b] \/ (b = owner /\ inbox'[b] = Append(inbox[b], n))
          BY <1>0, <4>2 DEF TypeOK
        <5>3. (i \in DOMAIN inbox[b] /\ inbox'[b][i] = inbox[b][i]) \/ (b = owner /\ inbox'[b][i] = n)
          BY <5>1, <5>2
        <5> QED
          BY <1>0, <3>1, <5>3 DEF RequestInv
      <4> QED
        BY <3>3, <4>1, <4>2
    <3>5. server'[c] = 0 /\ \A b \in Clients \ {c} : server'[b] = server[b]
      BY <1>0, <3>1 DEF TypeOK
    <3> QED
      BY <1>0, <1>1, <3>1, <3>4, <3>5 DEF RequestInv, Granted
  <2> QED
    BY <2>1, <2>2 DEF ServerStep
<1>6. MainInv'
  BY <1>0, <1>1, <1>2, MainStays DEF Connected
<1>7. ReceiverInv'
  BY <1>0, <1>1, <1>2, ReceiverStays
<1>8. DiskInv'
  BY <1>0, <1>1, <1>2, DiskStays DEF savevars
<1> QED
  BY <1>3, <1>4, <1>5, <1>6, <1>7, <1>8 DEF TransferInv, DiskInv
LEMMA LeaveKeeps ==
  ASSUME TransferInv, NEW c \in Clients, leave(c)
  PROVE  TransferInv'
<1>0. TypeOK /\ AskedInv /\ RequestInv /\ MainInv /\ ReceiverInv /\ DiskInv
  BY Parts DEF CommandInv
<1>1. UNCHANGED <<named, tmp, inodes, typed, server, disk, readers, asked, shared>>
  BY DEF leave
<1>2. Grows
  BY <1>1, SameGrows
<1>3. TypeOK'
  BY <1>0, LeaveTypes
<1>4. AskedInv'
  BY <1>0, <1>1, AskedStays
<1>5. RequestInv'
  <2>1. \A b \in Clients : inbox'[b] = inbox[b] \/ inbox'[b] = <<>>
    BY <1>0 DEF leave, TypeOK
  <2> QED
    BY <1>0, <1>1, <2>1 DEF RequestInv, Granted
<1>6. /\ receiver \in [Savers -> Receivers]
      /\ receiver' = [n \in Savers |->
           IF receiver[n].from = c THEN [receiver[n] EXCEPT !.pc = "ended", !.sender = NoClient]
           ELSE IF receiver[n].sender = c THEN [receiver[n] EXCEPT !.sender = NoClient]
           ELSE receiver[n]]
  BY <1>0 DEF leave, TypeOK
<1>7. \A n \in Savers :
        /\ receiver'[n].from = receiver[n].from /\ receiver'[n].file = receiver[n].file
        /\ receiver'[n].data = receiver[n].data
        /\ receiver'[n].pc = receiver[n].pc \/ receiver'[n].pc = "ended"
        /\ receiver[n].from # c /\ receiver[n].sender # c => receiver'[n] = receiver[n]
  BY <1>6 DEF Receivers
<1>8. MainInv'
  <2>1. \A b \in Clients : main'[b] = main[b] \/ main'[b].pc = "loop"
    BY <1>0 DEF leave, TypeOK, InLoop
  <2>2. \A n \in DOMAIN asked : receiver'[n].from = receiver[n].from
    BY <1>0, <1>7 DEF TypeOK
  <2> QED
    BY <1>0, <1>2, <2>1, <2>2, MainStays DEF Connected
<1>9. ReceiverInv'
  <2>1. \A n \in Savers : n \notin DOMAIN asked =>
          receiver[n].from = NoClient /\ receiver[n].sender = NoClient
    BY <1>0 DEF ReceiverInv, NoReceiver
  <2>2. \A n \in Savers : n \in DOMAIN asked \/ receiver'[n] = receiver[n]
    BY <1>7, <2>1, TransferAssumption
  <2>3. \A n \in Savers : Receiving(n)' => Receiving(n)
    BY <1>7 DEF Receiving
  <2> QED
    BY <1>0, <1>2, <1>7, <2>2, <2>3, ReceiverStays
<1>10. DiskInv'
  <2>1. ASSUME NEW s \in Savers
        PROVE  \/ save'[s] = save[s]
               \/ /\ ~Saving(s)' /\ ~InStage(s, "none") /\ save'[s].path = save[s].path
                  /\ save'[s].data = save[s].data
    <3>1. save[s] \in SaveStates
      BY <1>0 DEF TypeOK, SaveTypeOK
    <3>2. save'[s] = IF Saving(s) /\ save[s].pid = c
                     THEN [save[s] EXCEPT !.stage = "failed"] ELSE save[s]
      BY DEF leave
    <3> QED
      BY <3>1, <3>2 DEF SaveStates, Saving, InStage
  <2> QED
    BY <1>0, <1>1, <1>2, <2>1, DiskStays
<1> QED
  BY <1>3, <1>4, <1>5, <1>8, <1>9, <1>10 DEF TransferInv, DiskInv

LEMMA ChangeKeeps ==
  ASSUME TransferInv, NEW c \in Clients, NEW f \in Files, change(c, f)
  PROVE  TransferInv'
<1>0. TypeOK /\ AskedInv /\ RequestInv /\ MainInv /\ ReceiverInv /\ DiskInv
  BY Parts DEF CommandInv
<1>1. UNCHANGED <<savevars, main, typed, server, inbox, receiver, shared>>
  BY DEF change
<1>2. Grows
  BY ChangeGrows
<1>3. TypeOK'
  BY <1>0, ChangeTypes
<1>4. AskedInv'
  <2>1. \A n \in DOMAIN asked :
          asked'[n] = [command |-> asked[n].command,
                       allowed |-> asked[n].allowed \/ MayRead(asked[n].command, disk', readers'),
                       contents |-> asked[n].contents
                         \cup {disk'[asked[n].command.owner][asked[n].command.file]}]
    BY DEF change, Witnessed
  <2>2. DOMAIN asked' = DOMAIN asked
    BY ChangeGrows
  <2>3. ASSUME NEW n \in DOMAIN asked
        PROVE  /\ asked'[n].command = asked[n].command
               /\ disk'[asked[n].command.owner][asked[n].command.file] \in asked'[n].contents
               /\ MayRead(asked[n].command, disk', readers') => asked'[n].allowed
    <3> DEFINE may == MayRead(asked[n].command, disk', readers')
               now == disk'[asked[n].command.owner][asked[n].command.file]
    <3>1. asked'[n] = [command |-> asked[n].command, allowed |-> asked[n].allowed \/ may,
                       contents |-> asked[n].contents \cup {now}]
      BY <2>1
    <3> HIDE DEF may, now
    <3>2. asked'[n].allowed = (asked[n].allowed \/ may)
      BY <3>1
    <3>3. asked'[n].command = asked[n].command /\ now \in asked'[n].contents
      BY <3>1
    <3> QED
      BY <3>2, <3>3 DEF may, now
  <2> QED
    BY <2>2, <2>3 DEF AskedInv, MayRead
<1>5. RequestInv'
  BY <1>0, <1>1, <1>2, RequestStays
<1>6. MainInv'
  BY <1>0, <1>1, <1>2, MainStays DEF Connected
<1>7. ReceiverInv'
  BY <1>0, <1>1, <1>2, ReceiverStays
<1>8. DiskInv'
  BY <1>0, <1>1, <1>2, DiskStays DEF savevars
<1> QED
  BY <1>3, <1>4, <1>5, <1>6, <1>7, <1>8 DEF TransferInv, DiskInv
-----------------------------------------------------------------------------
(* The owner's steps.                                                      *)

LEMMA MainKeeps ==
  ASSUME TransferInv, NEW c \in Clients, MainStep(c)
  PROVE  TransferInv'
<1>0. TypeOK /\ AskedInv /\ RequestInv /\ MainInv /\ ReceiverInv /\ DiskInv
  BY Parts DEF CommandInv
<1>1. UNCHANGED <<savevars, typed, server, disk, readers, asked, shared>>
  BY DEF MainStep, handle_server_line, tcp_connect, connect_fails, connection_lost, send_piece,
     send_file_done, MainOnly
<1>2. Grows
  BY <1>1, SameGrows
<1>3. TypeOK'
  BY <1>0, MainTypes
<1>4. AskedInv'
  BY <1>0, <1>1, AskedStays
<1>5. DiskInv'
  BY <1>0, <1>1, <1>2, DiskStays DEF savevars
<1>a. main \in [Clients -> Mains] /\ receiver \in [Savers -> Receivers]
  BY <1>0 DEF TypeOK
<1>6. CASE handle_server_line(c)
  <2> DEFINE n == inbox[c][1]
             d == disk[c][asked[n].command.file]
  <2>1. inbox[c] # <<>> /\ inbox[c] \in Seq(Nat) /\ n = Head(inbox[c])
        /\ inbox' = [inbox EXCEPT ![c] = Tail(@)] /\ receiver' = receiver
    BY <1>0, <1>6 DEF handle_server_line, TypeOK
  <2>2. Granted(n) /\ asked[n].command.owner = c
    BY <1>0, <2>1 DEF RequestInv
  <2>3. d \in asked[n].contents /\ d \in Data \cup {NoData}
    BY <1>0, <2>2, CommandTypes DEF AskedInv, Granted, TypeOK
  <2>4. RequestInv'
    <3>1. \A i \in DOMAIN Tail(inbox[c]) : \E j \in DOMAIN inbox[c] : Tail(inbox[c])[i] = inbox[c][j]
      <4> SUFFICES ASSUME NEW i \in DOMAIN Tail(inbox[c])
                   PROVE  i + 1 \in DOMAIN inbox[c] /\ Tail(inbox[c])[i] = inbox[c][i + 1]
        OBVIOUS
      <4> QED
        BY <2>1
    <3>2. \A b \in Clients : \A i \in DOMAIN inbox'[b] :
            Granted(inbox'[b][i]) /\ asked[inbox'[b][i]].command.owner = b
      <4>1. inbox'[c] = Tail(inbox[c]) /\ \A b \in Clients \ {c} : inbox'[b] = inbox[b]
        BY <1>0, <2>1 DEF TypeOK
      <4>2. \A i \in DOMAIN inbox'[c] :
              Granted(inbox'[c][i]) /\ asked[inbox'[c][i]].command.owner = c
        <5> SUFFICES ASSUME NEW i \in DOMAIN inbox'[c]
                     PROVE  Granted(inbox'[c][i]) /\ asked[inbox'[c][i]].command.owner = c
          OBVIOUS
        <5>1. PICK j \in DOMAIN inbox[c] : inbox'[c][i] = inbox[c][j]
          BY <3>1, <4>1
        <5> QED
          BY <1>0, <5>1 DEF RequestInv
      <4> QED
        BY <1>0, <4>1, <4>2 DEF RequestInv
    <3> QED
      BY <1>0, <1>1, <3>2 DEF RequestInv, Granted
  <2>5. MainInv'
    <3>1. CASE main' = main
      BY <1>0, <1>2, <2>1, <3>1, MainStays DEF Connected
    <3>2. CASE main' # main
      <4>1. d # NoData /\ main' = [main EXCEPT ![c] = [InLoop EXCEPT !.pc = "connect", !.command = n,
                                                                     !.data = d]]
        BY <1>6, <2>1, <3>2 DEF handle_server_line, load_file
      <4> HIDE DEF n, d
      <4>2. main'[c].pc = "connect" /\ main'[c].command = n /\ main'[c].data = d
        BY <1>a, <4>1 DEF InLoop
      <4>3. \A b \in Clients \ {c} : main'[b] = main[b]
        BY <1>a, <4>1
      <4> QED
        BY <1>0, <1>1, <2>1, <2>2, <2>3, <4>1, <4>2, <4>3 DEF MainInv, Connected, Granted
    <3> QED
      BY <3>1, <3>2
  <2>6. ReceiverInv'
    BY <1>0, <1>2, <2>1, ReceiverStays
  <2> QED
    BY <1>3, <1>4, <1>5, <2>4, <2>5, <2>6 DEF TransferInv, DiskInv
<1>7. CASE tcp_connect(c)
  <2> DEFINE cmd == asked[main[c].command].command
  <2>1. PICK n \in Addressed(c) : main' = [main EXCEPT ![c].pc = "queued", ![c].peer = n]
    BY <1>7 DEF tcp_connect
  <2>2. n \in Savers /\ receiver[n].from = cmd.from /\ receiver[n].pc # "none"
    BY <2>1 DEF Addressed, Bound, Listening
  <2>3. n \in DOMAIN asked
    BY <1>0, <2>2, Started
  <2>4. UNCHANGED <<inbox, receiver>> /\ main[c].pc = "connect"
    BY <1>7 DEF tcp_connect
  <2>5. /\ main'[c].pc = "queued" /\ main'[c].peer = n /\ main'[c].command = main[c].command
        /\ main'[c].data = main[c].data
        /\ \A b \in Clients \ {c} : main'[b] = main[b]
    BY <1>a, <2>1 DEF Mains
  <2>6. MainInv'
    BY <1>0, <1>1, <2>2, <2>3, <2>4, <2>5 DEF MainInv, Connected, Granted
  <2>7. RequestInv' /\ ReceiverInv'
    BY <1>0, <1>1, <1>2, <2>4, RequestStays, ReceiverStays
  <2> QED
    BY <1>3, <1>4, <1>5, <2>6, <2>7 DEF TransferInv, DiskInv
<1>8. CASE connect_fails(c) \/ connection_lost(c) \/ send_piece(c) \/ send_file_done(c)
  <2>1. /\ inbox' = inbox
        /\ \/ main' = main
           \/ main' = [main EXCEPT ![c] = InLoop]
           \/ main' = [main EXCEPT ![c].tries = @ + 1]
        /\ \/ receiver' = receiver
           \/ /\ Connected(c)
              /\ \/ receiver' = [receiver EXCEPT ![main[c].peer].sent = @ + 1]
                 \/ receiver' = [receiver EXCEPT ![main[c].peer].sender = NoClient]
    BY <1>8 DEF connect_fails, connection_lost, send_piece, send_file_done, Connected
  <2>2. \A b \in Clients : \/ main'[b].pc = "loop"
                           \/ /\ main'[b].pc = main[b].pc /\ main'[b].command = main[b].command
                              /\ main'[b].data = main[b].data /\ main'[b].peer = main[b].peer
    BY <1>a, <2>1 DEF Mains, InLoop
  <2>3. \A n \in Savers : \/ receiver'[n] = receiver[n]
                          \/ /\ n \in DOMAIN asked
                             /\ receiver'[n].pc = receiver[n].pc
                             /\ receiver'[n].from = receiver[n].from
                             /\ receiver'[n].file = receiver[n].file
                             /\ receiver'[n].data = receiver[n].data
    <3>1. Connected(c) => main[c].peer \in DOMAIN asked
      BY <1>0 DEF MainInv
    <3> QED
      BY <1>a, <2>1, <3>1 DEF Receivers
  <2>4. \A n \in DOMAIN asked : receiver'[n].from = receiver[n].from
    BY <1>0, <2>3 DEF TypeOK
  <2>5. MainInv'
    BY <1>0, <1>2, <2>2, <2>4, MainStays DEF Connected
  <2>6. ReceiverInv'
    BY <1>0, <1>2, <2>3, ReceiverStays DEF Receiving
  <2>7. RequestInv'
    BY <1>0, <1>1, <1>2, <2>1, RequestStays
  <2> QED
    BY <1>3, <1>4, <1>5, <2>5, <2>6, <2>7 DEF TransferInv, DiskInv
<1> QED
  BY <1>6, <1>7, <1>8 DEF MainStep
-----------------------------------------------------------------------------
(* The receivers' steps.                                                   *)

\* Those that neither begin to receive nor have to do with the disk.
LEMMA PlainReceiverKeeps ==
  ASSUME TransferInv, NEW n \in Savers,
         tcp_listen(n) \/ read_piece(n) \/ read_ends(n) \/ finish(n) \/ break(n)
  PROVE  CommandInv' /\ DiskInv'
<1>0. TypeOK /\ AskedInv /\ RequestInv /\ MainInv /\ ReceiverInv /\ DiskInv
  BY Parts DEF CommandInv
<1>1. UNCHANGED <<savevars, main, typed, server, inbox, disk, readers, asked, shared>>
  BY DEF tcp_listen, read_piece, read_ends, finish, break, ReceiverOnly
<1>2. Grows
  BY <1>1, SameGrows
<1>3. \/ receiver[n].pc = "start" /\ \E pc \in {"accept", "ended"} : receiver' = [receiver EXCEPT ![n].pc = pc]
      \/ Receiving(n) /\ receiver' = [receiver EXCEPT ![n].got = @ + 1]
      \/ Receiving(n) /\ receiver' = [receiver EXCEPT ![n].pc = "ended"]
      \/ Receiving(n) /\ receiver' = [receiver EXCEPT ![n].pc = "ended", ![n].sender = NoClient]
      \/ Receiving(n) /\ receiver' = [receiver EXCEPT ![n].sender = NoClient, ![n].sent = receiver[n].got]
  BY DEF tcp_listen, read_piece, read_ends, finish, break, Receiving, At
<1>4. receiver \in [Savers -> Receivers]
  BY <1>0 DEF TypeOK
<1>5. /\ receiver'[n].from = receiver[n].from /\ receiver'[n].file = receiver[n].file
      /\ receiver'[n].data = receiver[n].data
      /\ \A m \in Savers \ {n} : receiver'[m] = receiver[m]
      /\ Receiving(n)' => Receiving(n)
  BY <1>3, <1>4 DEF Receivers, Receiving
<1>6. n \in DOMAIN asked
  BY <1>0, <1>3, Started DEF Receiving
<1>7. MainInv'
  <2>1. \A m \in DOMAIN asked : receiver'[m].from = receiver[m].from
    BY <1>0, <1>5 DEF TypeOK
  <2> QED
    BY <1>0, <1>1, <1>2, <2>1, MainStays DEF Connected
<1>8. ReceiverInv'
  BY <1>0, <1>2, <1>5, <1>6, ReceiverStays
<1>9. AskedInv' /\ RequestInv' /\ DiskInv'
  BY <1>0, <1>1, <1>2, AskedStays, RequestStays, DiskStays DEF savevars
<1> QED
  BY <1>7, <1>8, <1>9 DEF CommandInv

LEMMA AcceptKeeps ==
  ASSUME TransferInv, NEW n \in Savers, accept(n)
  PROVE  CommandInv' /\ DiskInv'
<1>0. TypeOK /\ AskedInv /\ RequestInv /\ MainInv /\ ReceiverInv /\ DiskInv
  BY Parts DEF CommandInv
<1>1. UNCHANGED <<savevars, typed, server, inbox, disk, readers, asked, shared>>
  BY DEF accept, ReceiverOnly
<1>2. Grows
  BY <1>1, SameGrows
<1>3. PICK c \in up :
        /\ main[c].pc = "queued" /\ main[c].peer = n
        /\ receiver' = [receiver EXCEPT ![n].pc = "read", ![n].sender = c,
                                        ![n].file = asked[main[c].command].command.file,
                                        ![n].data = main[c].data]
        /\ main' = [main EXCEPT ![c].pc = "send"]
  BY DEF accept
<1> DEFINE k == main[c].command
           file == asked[k].command.file
<1>4. /\ c \in Clients /\ receiver \in [Savers -> Receivers] /\ main \in [Clients -> Mains]
  BY <1>0 DEF TypeOK
<1>5. /\ Granted(k) /\ main[c].data \in Data /\ main[c].data \in asked[k].contents
      /\ n \in DOMAIN asked /\ receiver[n].from = asked[k].command.from
  BY <1>0, <1>3, <1>4 DEF MainInv, Connected
<1>6. file \in Files /\ asked[k].command.from \in Clients
  BY <1>0, <1>5, CommandTypes DEF Granted
<1>7. /\ receiver'[n].from = receiver[n].from
      /\ receiver'[n].file = file /\ receiver'[n].data = main[c].data
      /\ \A m \in Savers \ {n} : receiver'[m] = receiver[m]
  <2> DEFINE d == main[c].data
  <2>1. receiver' = [receiver EXCEPT ![n].pc = "read", ![n].sender = c,
                                     ![n].file = file, ![n].data = d]
    BY <1>3
  <2> HIDE DEF d, file
  <2>2. /\ receiver'[n].from = receiver[n].from /\ receiver'[n].file = file
        /\ receiver'[n].data = d
        /\ \A m \in Savers \ {n} : receiver'[m] = receiver[m]
    <3>1. receiver[n] \in Receivers
      BY <1>4
    <3> QED
      BY <1>4, <2>1, <3>1 DEF Receivers
  <2> QED
    BY <2>2 DEF d
<1>8. MainInv'
  <2>1. \A m \in DOMAIN asked : receiver'[m].from = receiver[m].from
    BY <1>0, <1>7 DEF TypeOK
  <2>2. \A b \in Clients :
          /\ main'[b].pc = main[b].pc \/ (main'[b].pc = "send" /\ main[b].pc = "queued")
          /\ main'[b].command = main[b].command /\ main'[b].data = main[b].data
          /\ main'[b].peer = main[b].peer
    BY <1>3, <1>4 DEF Mains
  <2> QED
    BY <1>0, <1>2, <2>1, <2>2, MainStays DEF Connected
<1>9. ReceiverInv'
  <2>1. \A m \in Savers : m \notin DOMAIN asked' => receiver'[m] = NoReceiver
    BY <1>0, <1>1, <1>5, <1>7 DEF ReceiverInv
  <2>2. ASSUME NEW m \in Savers, Receiving(m)'
        PROVE  /\ receiver'[m].from \in Clients /\ receiver'[m].file \in Files
               /\ receiver'[m].data \in Data
               /\ Earned(receiver[m].from, receiver[m].file, receiver[m].data)'
    <3>1. CASE m = n
      <4>1. Earned(receiver[n].from, receiver[n].file, receiver[n].data)'
        BY <1>1, <1>5, <1>7 DEF Earned, Granted
      <4> QED
        BY <1>5, <1>6, <1>7, <3>1, <4>1
    <3>2. CASE m # n
      <4>1. receiver'[m] = receiver[m] /\ Receiving(m)
        BY <1>7, <2>2, <3>2 DEF Receiving
      <4> QED
        BY <1>0, <1>1, <4>1 DEF ReceiverInv, Earned
    <3> QED
      BY <3>1, <3>2
  <2> QED
    BY <2>1, <2>2 DEF ReceiverInv
<1>10. AskedInv' /\ RequestInv' /\ DiskInv'
  BY <1>0, <1>1, <1>2, AskedStays, RequestStays, DiskStays DEF savevars
<1> QED
  BY <1>8, <1>9, <1>10 DEF CommandInv

\* The call of save_file_atomic.
LEMMA SaveReceivedKeeps ==
  ASSUME TransferInv, NEW n \in Savers, save_received(n)
  PROVE  CommandInv' /\ DiskInv'
<1>0. TypeOK /\ AskedInv /\ RequestInv /\ MainInv /\ ReceiverInv /\ DiskInv
  BY Parts DEF CommandInv
<1>1. UNCHANGED <<named, tmp, inodes, main, typed, server, inbox, disk, readers, asked>>
  BY DEF save_received, ReceiverOnly
<1>2. Grows
  BY <1>1, SameGrows
<1> DEFINE path == <<receiver[n].from, receiver[n].file>>
<1>3. /\ receiver' = [receiver EXCEPT ![n].pc = "save"] /\ Receiving(n)
      /\ save_file_atomic(n, receiver[n].from, path, receiver[n].data)
      /\ shared' = IF \E m \in Savers : Saving(m) /\ save[m].path = path
                   THEN shared \cup {path} ELSE shared
  BY DEF save_received, At, Receiving
<1>4. receiver \in [Savers -> Receivers] /\ save \in [Savers -> SaveStates]
  BY <1>0 DEF TypeOK, SaveTypeOK
<1>5. /\ Receiving(n) /\ receiver'[n].from = receiver[n].from
      /\ receiver'[n].file = receiver[n].file /\ receiver'[n].data = receiver[n].data
      /\ \A m \in Savers \ {n} : receiver'[m] = receiver[m]
  BY <1>3, <1>4 DEF Receivers
<1>6. n \in DOMAIN asked
  BY <1>0, <1>3, Started DEF Receiving
<1>7. MainInv'
  <2>1. \A m \in DOMAIN asked : receiver'[m].from = receiver[m].from
    BY <1>0, <1>5 DEF TypeOK
  <2> QED
    BY <1>0, <1>1, <1>2, <2>1, MainStays DEF Connected
<1>8. ReceiverInv'
  BY <1>0, <1>2, <1>5, <1>6, ReceiverStays
<1>9. AskedInv' /\ RequestInv'
  BY <1>0, <1>1, <1>2, AskedStays, RequestStays
<1>10. /\ save'[n].path = path /\ save'[n].data = receiver[n].data /\ save'[n].stage = "open"
       /\ \A m \in Savers \ {n} : save'[m] = save[m]
  BY <1>3, <1>4 DEF save_file_atomic
<1>11. SavedInv'
  <2>1. Earned(receiver[n].from, receiver[n].file, receiver[n].data)
    BY <1>0, <1>3 DEF ReceiverInv
  <2>2. ASSUME NEW m \in Savers, ~InStage(m, "none")'
        PROVE  Earned(save[m].path[1], save[m].path[2], save[m].data)'
    <3>1. CASE m = n
      BY <1>1, <1>10, <2>1, <3>1 DEF Earned
    <3>2. CASE m # n
      BY <1>0, <1>1, <1>10, <2>2, <3>2 DEF DiskInv, SavedInv, InStage, Earned
    <3> QED
      BY <3>1, <3>2
  <2> QED
    BY <2>2 DEF SavedInv
<1> HIDE DEF path
<1>12. SharedInv'
  <2> SUFFICES ASSUME NEW r \in Savers, NEW s \in Savers, r # s, Saving(r)', Saving(s)',
                      save'[r].path = save'[s].path
               PROVE  save'[s].path \in shared'
    BY DEF SharedInv
  <2>1. CASE r # n /\ s # n
    BY <1>0, <1>3, <1>10, <2>1 DEF DiskInv, SharedInv, Saving
  <2>2. CASE r = n \/ s = n
    <3>1. \E m \in Savers : Saving(m) /\ save[m].path = path
      BY <1>10, <2>2 DEF Saving
    <3>2. save'[s].path = path
      BY <1>10, <2>2
    <3> QED
      BY <1>3, <3>1, <3>2
  <2> QED
    BY <2>1, <2>2
<1>13. SaveInv(shared)'
  <2>1. PICK R : R = shared
    OBVIOUS
  <2>2. PICK M : M = shared'
    OBVIOUS
  <2>3. R \subseteq M /\ SaveInv(R)
    BY <1>0, <1>3, <2>1, <2>2 DEF DiskInv
  <2>4. \A s \in Savers : save'[s].stage = "write" => save'[s] = save[s]
    BY <1>10
  <2>5. SaveInv(M)'
    BY <1>1, <2>3, <2>4, NoFileChanges
  <2> QED
    BY <2>2, <2>5 DEF SaveInv, OwnInv
<1>14. WholeUnlessShared'
  BY <1>0, <1>1, <1>3 DEF DiskInv, WholeUnlessShared
<1> QED
  BY <1>7, <1>8, <1>9, <1>11, <1>12, <1>13, <1>14 DEF CommandInv, DiskInv

\* The steps of save_file_atomic.
LEMMA SavesKeep ==
  ASSUME TransferInv, NEW n \in Savers, save_step(n) \/ save_fails(n)
  PROVE  CommandInv' /\ DiskInv'
<1>0. TypeOK /\ AskedInv /\ RequestInv /\ MainInv /\ ReceiverInv /\ DiskInv
  BY Parts DEF CommandInv
<1>1. UNCHANGED <<main, receiver, typed, server, inbox, disk, readers, asked, shared>>
  BY DEF save_step, save_fails, ReceiverOnly
<1>2. Grows
  BY <1>1, SameGrows
<1>3. SaveTypeOK /\ (SaveStep(n) \/ SaveFault(n))
  BY <1>0 DEF TypeOK, save_step, save_fails
<1>4. CommandInv'
  <2>1. MainInv' /\ ReceiverInv'
    BY <1>0, <1>1, <1>2, MainStays, ReceiverStays DEF Connected
  <2> QED
    BY <1>0, <1>1, <1>2, <2>1, AskedStays, RequestStays DEF CommandInv
<1>5. /\ Saving(n) /\ save'[n].stage \in {"write", "unlink", "saved", "failed"}
      /\ save'[n].path = save[n].path /\ save'[n].data = save[n].data
      /\ \A r \in Savers \ {n} : save'[r] = save[r]
  BY <1>3, SaveStepFields
<1>6. SavedInv'
  <2>1. ASSUME NEW m \in Savers, ~InStage(m, "none")'
        PROVE  Earned(save[m].path[1], save[m].path[2], save[m].data)'
    <3>1. ~InStage(m, "none") /\ save'[m].path = save[m].path /\ save'[m].data = save[m].data
      BY <1>5, <2>1 DEF Saving, InStage
    <3> QED
      BY <1>0, <1>1, <3>1 DEF DiskInv, SavedInv, Earned
  <2> QED
    BY <2>1 DEF SavedInv
<1>7. SharedInv'
  <2>1. \A r \in Savers : /\ Saving(r)' => Saving(r)
                          /\ save'[r].path = save[r].path
    BY <1>5 DEF Saving
  <2> QED
    BY <1>0, <1>1, <2>1 DEF DiskInv, SharedInv
<1>8. PICK R : R = shared
  OBVIOUS
<1>9. SaveInv(R) /\ Alone(R)
  BY <1>0, <1>8 DEF DiskInv, SharedInv, Alone, TmpName
<1>10. SaveInv(shared)'
  <2>1. SaveInv(R)'
    BY <1>3, <1>9, SaveStepKeeps
  <2> QED
    BY <1>1, <1>8, <2>1 DEF SaveInv, OwnInv
<1>11. WholeUnlessShared'
  <2> SUFFICES ASSUME NEW path \in Paths, path \notin R, named'[path] # NoInode
               PROVE  \E d \in Data : inodes'[named'[path]] = Whole(d)
    BY <1>1, <1>8 DEF WholeUnlessShared
  <2>1. named[path] # NoInode => \E d \in Data : inodes[named[path]] = Whole(d)
    BY <1>0, <1>8 DEF DiskInv, WholeUnlessShared
  <2>2. CASE open_tmp(n)
    BY <1>3, <1>9, <2>1, <2>2, OpenKeeps
  <2>3. CASE write_piece(n)
    BY <1>3, <1>9, <2>1, <2>3, WriteKeeps
  <2>4. CASE rename_tmp(n)
    <3>1. inodes' = inodes /\ named' = [named EXCEPT ![save[n].path] = tmp[TmpName(n)]]
      BY <2>4 DEF rename_tmp
    <3>2. CASE path = save[n].path
      <4>1. inodes[tmp[TmpName(n)]] = Whole(save[n].data)
        BY <1>3, <1>9, <2>4, <3>2, RenamesWhole
      <4>2. named'[path] = tmp[TmpName(n)]
        BY <1>3, <3>1, <3>2 DEF SaveTypeOK
      <4>3. save[n].data \in Data
        BY <1>3, <1>5, SaverTypes DEF Saving, InStage
      <4> QED
        BY <3>1, <4>1, <4>2, <4>3
    <3>3. CASE path # save[n].path
      <4>1. named'[path] = named[path]
        BY <1>3, <3>1, <3>3 DEF SaveTypeOK
      <4> QED
        BY <2>1, <3>1, <4>1
    <3> QED
      BY <3>2, <3>3
  <2>5. CASE rename_finds_none(n) \/ unlink_tmp(n) \/ SaveFault(n)
    <3>1. named' = named /\ inodes' = inodes
      BY <2>5 DEF rename_finds_none, unlink_tmp, SaveFault, open_fails, write_fails
    <3> QED
      BY <2>1, <3>1
  <2> QED
    BY <1>3, <2>2, <2>3, <2>4, <2>5 DEF SaveStep
<1> QED
  BY <1>4, <1>6, <1>7, <1>10, <1>11 DEF DiskInv

LEMMA ReceiverKeeps ==
  ASSUME TransferInv, NEW n \in Savers, ReceiverStep(n) \/ save_fails(n) \/ break(n)
  PROVE  TransferInv'
<1>1. TypeOK'
  BY Parts, ReceiverTypes DEF CommandInv
<1>2. CommandInv' /\ DiskInv'
  BY PlainReceiverKeeps, AcceptKeeps, SaveReceivedKeeps, SavesKeep DEF ReceiverStep
<1> QED
  BY <1>1, <1>2 DEF TransferInv, CommandInv, DiskInv
-----------------------------------------------------------------------------
(* The theorems.                                                           *)

LEMMA StepKeeps ==
  ASSUME TransferInv, [Next]_vars
  PROVE  TransferInv'
<1>1. ASSUME NEW cmd \in Commands, request_file(cmd) PROVE TransferInv'
  BY <1>1, RequestKeeps
<1>2. ASSUME NEW c \in Clients, ServerStep(c) \/ MainStep(c) \/ leave(c) PROVE TransferInv'
  BY <1>2, ServerKeeps, MainKeeps, LeaveKeeps
<1>3. ASSUME NEW n \in Savers, ReceiverStep(n) \/ save_fails(n) \/ break(n) PROVE TransferInv'
  BY <1>3, ReceiverKeeps
<1>4. ASSUME NEW c \in Clients, NEW f \in Files, change(c, f) PROVE TransferInv'
  BY <1>4, ChangeKeeps
<1>5. CASE UNCHANGED vars
  <2>0. TypeOK /\ AskedInv /\ RequestInv /\ MainInv /\ ReceiverInv /\ DiskInv
    BY Parts DEF CommandInv
  <2>1. Grows
    BY <1>5, SameGrows DEF vars
  <2>2. TypeOK'
    <3>1. SaveTypeOK'
      BY <1>5, <2>0, SaveTypesStay DEF vars, savevars, TypeOK
    <3> QED
      BY <1>5, <2>0, <3>1 DEF vars, TypeOK
  <2>3. AskedInv' /\ RequestInv' /\ ReceiverInv'
    BY <1>5, <2>0, <2>1, AskedStays, RequestStays, ReceiverStays DEF vars
  <2>4. MainInv'
    BY <1>5, <2>0, <2>1, MainStays DEF vars, Connected
  <2>5. DiskInv'
    BY <1>5, <2>0, <2>1, DiskStays DEF vars
  <2> QED
    BY <2>2, <2>3, <2>4, <2>5 DEF TransferInv, DiskInv
<1> QED
  BY <1>1, <1>2, <1>3, <1>4, <1>5 DEF Next

LEMMA TransferInvariant == Spec => []TransferInv
<1>1. Init => TransferInv
  BY InitInv
<1>2. TransferInv /\ [Next]_vars => TransferInv'
  BY StepKeeps
<1> QED
  BY <1>1, <1>2, PTL DEF Spec

\* What every variable of the transfers can be, and that no receiver counts a
\* piece before it was sent, however many programs, ports and commands.
THEOREM TransferTypesHold == Spec => []TypeOK
<1>1. TransferInv => TypeOK
  BY Parts
<1> QED
  BY <1>1, TransferInvariant, PTL

\* A saved file is what its user asked for and could read, at moments since the
\* command: whichever listener the owner's program reached.
THEOREM SavesAreAsked == Spec => []SavedAsAsked
<1>1. TransferInv => SavedAsAsked
  <2> SUFFICES ASSUME TransferInv, NEW n \in Savers, InStage(n, "saved")
               PROVE  \E m \in DOMAIN asked :
                        /\ <<asked[m].command.from, asked[m].command.file>> = save[n].path
                        /\ asked[m].allowed
                        /\ save[n].data \in asked[m].contents
    BY DEF SavedAsAsked
  <2>1. TypeOK /\ SavedInv
    BY Parts DEF DiskInv
  <2>2. Earned(save[n].path[1], save[n].path[2], save[n].data)
    BY <2>1 DEF SavedInv, InStage
  <2>3. save[n].path \in Clients \X Files
    BY <2>1, TransferAssumption DEF TypeOK, SaveTypeOK, InStage
  <2>4. <<save[n].path[1], save[n].path[2]>> = save[n].path
    BY <2>3
  <2> QED
    BY <2>2, <2>4 DEF Earned
<1> QED
  BY <1>1, TransferInvariant, PTL

\* A file that no two receivers saved at a time is all of one datum, through
\* failures, broken connections and programs that end.
THEOREM FilesAreWhole == Spec => []WholeUnlessShared
<1>1. TransferInv => WholeUnlessShared
  BY Parts DEF DiskInv
<1> QED
  BY <1>1, TransferInvariant, PTL
=============================================================================
