--------------------------- MODULE ChatServerProofs ---------------------------
(***************************************************************************)
(* ChatServer keeps its types, its slots match its connections, and its    *)
(* lines reach those they are addressed to, for every number of users,     *)
(* descriptors, slots, groups and commands.                                *)
(*                                                                         *)
(* Types and slots are not inductive alone.  That the lists of the members *)
(* logged in hold descriptors needs the slots to be right; that the loops  *)
(* over clients[] read a send needs the lock's holder to have one; that a  *)
(* slot is found again by its user or its descriptor needs nobody to have  *)
(* two.                                                                    *)
(***************************************************************************)
EXTENDS ChatServer, WellFoundedInduction, TLAPS

\* A thread past its authentication knows its user, and before it has a slot
\* nothing is, or is to be, written to its connection.
ThreadInv ==
  \A f \in Fds :
    /\ pc[f] \in {"slot", "serving"} => user[f] \in Users
    /\ pc[f] \in {"closed", "auth", "slot"} => todo[f] = <<>> /\ out[f] = <<>>

\* Exactly the thread that holds the lock is in a loop over clients[], and it
\* is there for the first of its sends.
LockInv ==
  \A f \in Fds :
    /\ scan[f] # 0 <=> state_lock = f
    /\ scan[f] # 0 => todo[f] # <<>> /\ Head(todo[f]).op \in {"all", "names"}

IInv == TypeOK /\ ThreadInv /\ LockInv /\ SlotsMatchConnections
-----------------------------------------------------------------------------
(* Lemmas about the operators.                                             *)

\* A set of naturals has a first element.
LEMMA FirstExists ==
  ASSUME NEW S, S \subseteq Nat, S # {}
  PROVE  First(S) # {}
<1> DEFINE R == {p \in Nat \X Nat : p[1] < p[2]}
<1>1. IsWellFoundedOn(R, Nat)
  BY NatLessThanWellFounded DEF OpToRel
<1>2. PICK x \in S : \A y \in S : ~ (<<y, x>> \in R)
  BY <1>1, WFMin, Zenon
<1>3. ASSUME NEW y \in S
      PROVE  x <= y
  <2>1. <<y, x>> \in Nat \X Nat /\ <<y, x>>[1] = y /\ <<y, x>>[2] = x
    OBVIOUS
  <2> QED
    BY <1>2, <2>1
<1> QED
  BY <1>3 DEF First

\* A free name has no active slot: find_client_locked looks at all of them.
LEMMA FreeName ==
  ASSUME NEW u, ~name_taken(u), ConstantsAssumption
  PROVE  \A i \in ClientSlots : clients[i].active => clients[i].user # u
<1> DEFINE S == {i \in ClientSlots : clients[i].active /\ clients[i].user = u}
<1>1. S \subseteq Nat
  BY DEF ClientSlots, ConstantsAssumption
<1>2. S = {}
  BY <1>1, FirstExists DEF name_taken, find_client_locked
<1> QED
  BY <1>2

\* The lines the server writes are well typed.
LEMMA LineType ==
  ASSUME NEW kind \in Kinds, NEW from \in Names \cup {NoUser},
         NEW to \in Names \cup {NoUser}, NEW gid \in 0 .. MAX_GROUPS,
         NEW val \in 0 .. MaxCommands
  PROVE  Line(kind, from, to, gid, val) \in Chunk
BY DEF Line, Chunk

LEMMA AnswerType ==
  ASSUME NEW kind \in Kinds
  PROVE  Reply(Answer(kind)) \in Op /\ ToAll(Answer(kind)) \in Op
<1>1. 0 \in 0 .. MAX_GROUPS /\ 0 \in 0 .. MaxCommands
  BY ConstantsAssumption DEF ConstantsAssumption
<1>2. Answer(kind) \in Chunk
  BY <1>1, LineType DEF Answer
<1> QED
  BY <1>2 DEF Reply, ToAll, Op

LEMMA PieceType ==
  ASSUME NEW who \in Names \cup {NoUser}, NEW bol \in BOOLEAN, NEW eol \in BOOLEAN
  PROVE  /\ Piece(who, bol, eol) \in Chunk
         /\ Reply(Piece(who, bol, eol)) \in Op
         /\ WhoNames \in Op
<1>1. 0 \in 0 .. MAX_GROUPS /\ 0 \in 0 .. MaxCommands
  BY ConstantsAssumption DEF ConstantsAssumption
<1>2. ASSUME NEW w \in Names \cup {NoUser}, NEW b \in BOOLEAN, NEW e \in BOOLEAN
      PROVE  Piece(w, b, e) \in Chunk
  BY <1>1, <1>2 DEF Piece, Line, Chunk, Kinds
<1> QED
  BY <1>2 DEF Reply, WhoNames, Op

\* What is written stays well typed.
LEMMA SendToType ==
  ASSUME NEW fds, NEW chunk \in Chunk, out \in [Fds -> Seq(Chunk)],
         SendTo(fds, chunk)
  PROVE  out' \in [Fds -> Seq(Chunk)]
BY DEF SendTo
-----------------------------------------------------------------------------
(* The initial states, and the thread's life.                              *)

LEMMA InitInv == Init => IInv
<1> SUFFICES ASSUME Init PROVE IInv
  OBVIOUS
<1> USE ConstantsAssumption DEF ConstantsAssumption, Init
<1>1. TypeOK
  BY DEF TypeOK, States, Client, Group, NoClient, NoGroup, ClientSlots, GroupIds
<1>2. ThreadInv /\ LockInv
  BY DEF ThreadInv, LockInv
<1>3. SlotsMatchConnections
  BY DEF SlotsMatchConnections, NoClient
<1> QED
  BY <1>1, <1>2, <1>3 DEF IInv

LEMMA AcceptInv ==
  ASSUME IInv, NEW f \in Fds, accept(f)
  PROVE  IInv'
<1> USE DEF IInv, accept
<1>1. TypeOK'
  BY ConstantsAssumption DEF TypeOK, ConstantsAssumption, States
<1>2. ThreadInv'
  BY DEF ThreadInv, TypeOK
<1>3. LockInv'
  BY DEF LockInv
<1>4. SlotsMatchConnections'
  BY DEF SlotsMatchConnections, TypeOK
<1> QED
  BY <1>1, <1>2, <1>3, <1>4

LEMMA AuthenticateInv ==
  ASSUME IInv, NEW f \in Fds, authenticate_chat(f)
  PROVE  IInv'
<1> USE DEF IInv, authenticate_chat
<1>0. Reply(Answer("ERR")) \in Op
  BY AnswerType DEF Kinds
<1>1. TypeOK'
  <2>1. pc' \in [Fds -> States] /\ user' \in [Fds -> Users \cup {NoUser}]
    BY DEF TypeOK, States
  <2>2. \/ todo' = todo
        \/ todo' = [todo EXCEPT ![f] = <<Reply(Answer("ERR"))>>]
    OBVIOUS
  <2>3. <<Reply(Answer("ERR"))>> \in Seq(Op)
    BY <1>0
  <2>4. todo' \in [Fds -> Seq(Op)]
    BY ONLY <2>2, <2>3, IInv DEF IInv, TypeOK
  <2> QED
    BY <2>1, <2>4 DEF TypeOK
<1>2. ThreadInv'
  BY DEF ThreadInv, TypeOK
<1>3. LockInv'
  BY DEF LockInv, TypeOK, ThreadInv
<1>4. SlotsMatchConnections'
  BY DEF SlotsMatchConnections, TypeOK
<1> QED
  BY <1>1, <1>2, <1>3, <1>4

LEMMA SlotAddInv ==
  ASSUME IInv, NEW f \in Fds, client_slot_add(f)
  PROVE  IInv'
<1> DEFINE free == First({i \in ClientSlots : ~clients[i].active})
           slot == [active |-> TRUE, fd |-> f, user |-> user[f],
                    public_key |-> 0]
<1>0. /\ Reply(Answer("ERR")) \in Op
      /\ Reply(Answer("OK")) \in Op
      /\ ToAll(Answer("login")) \in Op
  BY AnswerType DEF Kinds
<1>1. CASE /\ pc' = [pc EXCEPT ![f] = "closing"]
           /\ todo' = [todo EXCEPT ![f] = <<Reply(Answer("ERR"))>>]
           /\ UNCHANGED clients
  <2> USE <1>1 DEF IInv, client_slot_add
  <2>1. TypeOK'
    BY <1>0 DEF TypeOK, States
  <2>2. ThreadInv'
    BY DEF ThreadInv, TypeOK
  <2>3. LockInv'
    BY DEF LockInv, TypeOK, ThreadInv
  <2>4. SlotsMatchConnections'
    BY DEF SlotsMatchConnections, TypeOK
  <2> QED
    BY <2>1, <2>2, <2>3, <2>4
<1>2. ASSUME ~name_taken(user[f]), NEW i \in free,
             clients' = [clients EXCEPT ![i] = slot],
             pc' = [pc EXCEPT ![f] = "serving"],
             todo' = [todo EXCEPT ![f] =
               <<Reply(Answer("OK")), ToAll(Answer("login"))>>]
      PROVE  IInv'
  <2> USE <1>2 DEF IInv, client_slot_add
  <2>1. i \in ClientSlots /\ ~clients[i].active
    BY DEF First
  <2>2. user[f] \in Users /\ pc[f] = "slot"
    BY DEF ThreadInv
  <2>3. slot \in Client
    BY <2>2, ConstantsAssumption DEF Client, ConstantsAssumption
  <2> HIDE DEF slot
  <2>4. TypeOK'
    BY <1>0, <2>1, <2>3 DEF TypeOK, States
  <2>5. ThreadInv'
    BY <2>2 DEF ThreadInv, TypeOK
  <2>6. LockInv'
    BY DEF LockInv, TypeOK, ThreadInv
  <2>7. SlotsMatchConnections'
    <3>1. \A j \in ClientSlots : clients[j].active =>
            clients[j].user # user[f] /\ clients[j].fd # f
      BY <2>2, FreeName, ConstantsAssumption DEF SlotsMatchConnections
    <3>2. \A j \in ClientSlots :
            clients'[j] = IF j = i THEN slot ELSE clients[j]
      BY <2>1 DEF TypeOK
    <3>3. slot.active /\ slot.fd = f /\ slot.user = user[f]
      BY DEF slot
    <3>4. UNCHANGED user /\ pc'[f] = "serving"
          /\ \A e \in Fds \ {f} : pc'[e] = pc[e]
      BY DEF TypeOK
    <3> QED
      BY <2>1, <3>1, <3>2, <3>3, <3>4 DEF SlotsMatchConnections
  <2> QED
    BY <2>4, <2>5, <2>6, <2>7
<1> QED
  BY <1>1, <1>2 DEF client_slot_add

LEMMA SlotRemoveInv ==
  ASSUME IInv, NEW f \in Fds, client_slot_remove(f)
  PROVE  IInv'
<1> USE DEF IInv, client_slot_remove
<1>1. PICK i \in ClientSlots : clients[i].active /\ clients[i].fd = f
  BY DEF SlotsMatchConnections
<1>2. slot_of(f) = {i}
  <2>1. {j \in ClientSlots : clients[j].active /\ clients[j].fd = f} = {i}
    BY <1>1 DEF SlotsMatchConnections
  <2> QED
    BY <1>1, <2>1 DEF slot_of, First, ClientSlots
<1>3. \A j \in ClientSlots :
        clients'[j] = IF j = i THEN NoClient ELSE clients[j]
  BY <1>2
<1>4. TypeOK'
  <2>1. clients' \in [ClientSlots -> Client]
    BY ConstantsAssumption
       DEF TypeOK, NoClient, Client, ConstantsAssumption
  <2>2. audience' \in [1 .. MaxCommands -> SUBSET Fds]
    BY DEF TypeOK
  <2> QED
    BY <2>1, <2>2 DEF TypeOK, States
<1>5. ThreadInv'
  BY DEF ThreadInv, TypeOK
<1>6. LockInv'
  BY DEF LockInv
<1>7. SlotsMatchConnections'
  <2>1. ~clients'[i].active
    BY <1>1, <1>3 DEF NoClient
  <2>2. \A j \in ClientSlots : clients'[j].active =>
          /\ j # i /\ clients'[j] = clients[j] /\ clients[j].active
          /\ clients[j].fd # f
    BY <1>1, <1>3, <2>1 DEF SlotsMatchConnections
  <2>3. UNCHANGED user /\ pc'[f] # "serving"
        /\ \A e \in Fds \ {f} : pc'[e] = pc[e]
    BY DEF TypeOK
  <2>4. \A e \in Fds \ {f} : pc[e] = "serving" =>
          \E j \in ClientSlots : clients'[j].active /\ clients'[j].fd = e
    BY <1>1, <1>3 DEF SlotsMatchConnections
  <2> QED
    BY <2>2, <2>3, <2>4 DEF SlotsMatchConnections
<1> QED
  BY <1>4, <1>5, <1>6, <1>7

LEMMA CloseInv ==
  ASSUME IInv, NEW f \in Fds, close(f)
  PROVE  IInv'
<1> USE DEF IInv, close
<1>1. TypeOK'
  BY DEF TypeOK, States
<1>2. ThreadInv'
  BY DEF ThreadInv, TypeOK
<1>3. LockInv'
  BY DEF LockInv
<1>4. SlotsMatchConnections'
  BY DEF SlotsMatchConnections, TypeOK
<1> QED
  BY <1>1, <1>2, <1>3, <1>4

LEMMA HangUpInv ==
  ASSUME IInv, NEW f \in Fds, hang_up(f)
  PROVE  IInv'
<1> USE DEF IInv, hang_up
<1>1. TypeOK'
  BY DEF TypeOK
<1> QED
  BY <1>1 DEF ThreadInv, LockInv, SlotsMatchConnections
-----------------------------------------------------------------------------
(* The sends.                                                              *)

\* A step that leaves the threads, their users and the tables alone.
Quiet == UNCHANGED <<pc, user, clients, groups, gone, received, accepted,
                     audience>>

LEMMA QuietSlots ==
  ASSUME SlotsMatchConnections, Quiet
  PROVE  SlotsMatchConnections'
BY DEF Quiet, SlotsMatchConnections

\* The thread that sends has got its slot, or has been refused one, so its
\* connection and the list of its sends may change.
LEMMA SenderRuns ==
  ASSUME IInv, NEW f \in Fds, todo[f] # <<>>
  PROVE  pc[f] \notin {"closed", "auth", "slot"}
BY DEF IInv, ThreadInv

\* Whoever is written to is logged in.
LEMMA RecipientRuns ==
  ASSUME IInv, NEW i \in ClientSlots, clients[i].active
  PROVE  clients[i].fd \in Fds /\ pc[clients[i].fd] = "serving"
BY DEF IInv, SlotsMatchConnections

\* Writing to connections whose threads are past client_slot_add.
LEMMA SendToThreads ==
  ASSUME IInv, NEW fds, NEW chunk, SendTo(fds, chunk), UNCHANGED pc,
         \A e \in Fds \cap fds : pc[e] \notin {"closed", "auth", "slot"}
  PROVE  \A e \in Fds : pc'[e] \in {"closed", "auth", "slot"} => out'[e] = <<>>
BY DEF IInv, ThreadInv, SendTo

LEMMA DoneType ==
  ASSUME IInv, NEW f \in Fds, todo[f] # <<>>
  PROVE  /\ Head(todo[f]) \in Op
         /\ Head(todo[f]).chunk \in Chunk
         /\ Done(f) => todo' \in [Fds -> Seq(Op)]
<1>1. todo[f] \in Seq(Op)
  BY DEF IInv, TypeOK
<1>2. Head(todo[f]) \in Op /\ Tail(todo[f]) \in Seq(Op)
  BY <1>1
<1> QED
  BY <1>2 DEF IInv, TypeOK, Done, Op

\* A send outside the loops: the head of todo goes to some connections.
LEMMA SendInv ==
  ASSUME IInv, NEW f \in Fds, todo[f] # <<>>, NEW fds,
         scan[f] = 0, SendTo(fds, Head(todo[f]).chunk), Done(f), Quiet,
         UNCHANGED <<scan, state_lock>>,
         \A e \in Fds \cap fds : pc[e] \notin {"closed", "auth", "slot"}
  PROVE  IInv'
<1>1. TypeOK'
  <2>1. out' \in [Fds -> Seq(Chunk)]
    BY DoneType, SendToType DEF IInv, TypeOK
  <2> QED
    BY <2>1, DoneType DEF Quiet, TypeOK, IInv
<1>2. ThreadInv'
  <2>1. \A e \in Fds : pc'[e] \in {"closed", "auth", "slot"} =>
                         todo'[e] = <<>> /\ out'[e] = <<>>
    BY SendToThreads, SenderRuns DEF Quiet, Done, IInv, ThreadInv, TypeOK
  <2> QED
    BY <2>1 DEF Quiet, IInv, ThreadInv
<1>3. LockInv'
  BY DEF IInv, TypeOK, LockInv, Done
<1> QED
  BY <1>1, <1>2, <1>3, QuietSlots DEF IInv

LEMMA SendAllInv ==
  ASSUME IInv, NEW f \in Fds, send_all(f)
  PROVE  IInv'
<1>1. todo[f] # <<>> /\ scan[f] = 0
  BY DEF send_all, NextOp, IInv, LockInv
<1>2. SendTo({f}, Head(todo[f]).chunk) /\ Done(f) /\ Quiet
      /\ UNCHANGED <<scan, state_lock>>
  BY DEF send_all, Quiet
<1>3. \A e \in Fds \cap {f} : pc[e] \notin {"closed", "auth", "slot"}
  BY <1>1, SenderRuns
<1> QED
  BY <1>1, <1>2, <1>3, SendInv

LEMMA SendToUserInv ==
  ASSUME IInv, NEW f \in Fds, send_to_user(f)
  PROVE  IInv'
<1> DEFINE chunk == Head(todo[f]).chunk
           fds == {clients[i].fd : i \in find_client_locked(chunk.to)}
<1>1. scan[f] = 0
  BY ConstantsAssumption
     DEF send_to_user, LockFree, IInv, LockInv, ConstantsAssumption
<1>2. \A e \in fds : pc[e] = "serving"
  BY RecipientRuns DEF find_client_locked, First
<1> HIDE DEF fds
<1>3. SendTo(fds, chunk) /\ Done(f) /\ todo[f] # <<>> /\ Quiet
      /\ UNCHANGED <<scan, state_lock>>
  BY DEF send_to_user, fds, NextOp, Quiet
<1> QED
  BY <1>1, <1>2, <1>3, SendInv

LEMMA TakeLockInv ==
  ASSUME IInv, NEW f \in Fds, take_lock(f)
  PROVE  IInv'
<1> USE DEF IInv, take_lock
<1>1. TypeOK'
  BY ConstantsAssumption DEF TypeOK, ConstantsAssumption
<1>2. ThreadInv'
  BY DEF ThreadInv
<1>3. LockInv'
  <2>1. \A e \in Fds : scan[e] = 0
    BY ConstantsAssumption DEF LockInv, LockFree, ConstantsAssumption
  <2> QED
    BY <2>1 DEF LockInv, TypeOK, NextOp
<1>4. SlotsMatchConnections'
  BY QuietSlots DEF Quiet
<1> QED
  BY <1>1, <1>2, <1>3, <1>4

LEMMA LoopInv ==
  ASSUME IInv, NEW f \in Fds, loop_over_clients(f)
  PROVE  IInv'
<1> DEFINE slot == clients[scan[f]]
           loop == Head(todo[f])
<1>1. scan[f] \in ClientSlots /\ scan[f] # 0 /\ todo[f] # <<>>
  BY DEF loop_over_clients, ClientSlots, IInv, LockInv
<1>2. pc[f] \notin {"closed", "auth", "slot"}
  BY <1>1, SenderRuns
<1>3. Quiet /\ UNCHANGED <<todo, state_lock>>
      /\ scan' = [scan EXCEPT ![f] = @ + 1]
  BY DEF loop_over_clients, Quiet
<1>4. \/ out' = out
      \/ slot.active /\ SendTo({slot.fd}, loop.chunk)
      \/ slot.active /\ SendTo({f}, Piece(slot.user, FALSE, FALSE))
  BY DEF loop_over_clients
<1>5. loop.chunk \in Chunk
  BY <1>1, DoneType
<1>6. Piece(slot.user, FALSE, FALSE) \in Chunk
  <2>1. slot.user \in Names \cup {NoUser}
    BY <1>1, ConstantsAssumption
       DEF IInv, TypeOK, Client, ConstantsAssumption
  <2> QED
    BY <2>1, PieceType
<1>7. slot.active => pc[slot.fd] = "serving"
  BY <1>1, RecipientRuns
<1> HIDE DEF slot, loop
<1>8. out' \in [Fds -> Seq(Chunk)]
  BY <1>4, <1>5, <1>6, SendToType DEF IInv, TypeOK
<1>9. \A e \in Fds : pc'[e] \in {"closed", "auth", "slot"} => out'[e] = <<>>
  <2>1. CASE out' = out
    BY <2>1, <1>3 DEF Quiet, IInv, ThreadInv
  <2>2. CASE slot.active /\ SendTo({slot.fd}, loop.chunk)
    <3>1. \A e \in Fds \cap {slot.fd} : pc[e] \notin {"closed", "auth", "slot"}
      BY <2>2, <1>7
    <3> QED
      BY <2>2, <3>1, <1>3, SendToThreads DEF Quiet
  <2>3. CASE slot.active /\ SendTo({f}, Piece(slot.user, FALSE, FALSE))
    <3>1. \A e \in Fds \cap {f} : pc[e] \notin {"closed", "auth", "slot"}
      BY <1>2
    <3> QED
      BY <2>3, <3>1, <1>3, SendToThreads DEF Quiet
  <2> QED
    BY <1>4, <2>1, <2>2, <2>3
<1>10. TypeOK'
  <2>1. scan' \in [Fds -> 0 .. MAX_CLIENTS + 1]
    BY <1>1, <1>3, ConstantsAssumption
       DEF IInv, TypeOK, ClientSlots, ConstantsAssumption
  <2> QED
    BY <1>3, <1>8, <2>1 DEF IInv, TypeOK, Quiet
<1>11. ThreadInv'
  BY <1>3, <1>9 DEF IInv, ThreadInv, Quiet
<1>12. LockInv'
  BY <1>1, <1>3, ConstantsAssumption
     DEF IInv, LockInv, TypeOK, ClientSlots, ConstantsAssumption
<1> QED
  BY <1>3, <1>10, <1>11, <1>12, QuietSlots DEF IInv

LEMMA FreeLockInv ==
  ASSUME IInv, NEW f \in Fds, free_lock(f)
  PROVE  IInv'
<1>1. scan[f] # 0 /\ todo[f] # <<>> /\ state_lock = f
  BY ConstantsAssumption
     DEF free_lock, IInv, LockInv, TypeOK, ConstantsAssumption
<1>2. Quiet /\ UNCHANGED out /\ Done(f) /\ state_lock' = NoFd
      /\ scan' = [scan EXCEPT ![f] = 0]
  BY DEF free_lock, Quiet
<1>3. TypeOK'
  <2>1. scan' \in [Fds -> 0 .. MAX_CLIENTS + 1]
    BY <1>2, ConstantsAssumption DEF IInv, TypeOK, ConstantsAssumption
  <2> QED
    BY <1>1, <1>2, <2>1, DoneType DEF IInv, TypeOK, Quiet
<1>4. ThreadInv'
  BY <1>1, <1>2, SenderRuns DEF IInv, ThreadInv, TypeOK, Quiet, Done
<1>5. LockInv'
  BY <1>1, <1>2, ConstantsAssumption
     DEF IInv, LockInv, TypeOK, ConstantsAssumption
<1> QED
  BY <1>2, <1>3, <1>4, <1>5, QuietSlots DEF IInv
-----------------------------------------------------------------------------
(* The commands.                                                           *)

GroupsOK == /\ groups \in [GroupIds -> Group]
            /\ \A g \in GroupIds :
                 /\ Len(groups[g].members) <= MAX_GROUP_MEMBERS
                 /\ Len(groups[g].invites) <= MAX_GROUP_MEMBERS

\* Every handler is such a step: it leaves some sends and keeps the tables.
LEMMA HandlerInv ==
  ASSUME IInv, NEW f \in Fds, NEW command, recv_line(f, command),
         NEW ops \in Seq(Op), Sends(f, ops), Unhandled,
         clients' \in [ClientSlots -> Client],
         \A i \in ClientSlots : /\ clients'[i].active = clients[i].active
                                /\ clients'[i].fd = clients[i].fd
                                /\ clients'[i].user = clients[i].user,
         GroupsOK', audience' \in [1 .. MaxCommands -> SUBSET Fds]
  PROVE  IInv'
<1>1. TypeOK'
  BY ConstantsAssumption
     DEF IInv, TypeOK, GroupsOK, recv_line, Sends, Unhandled, ConstantsAssumption
<1>2. ThreadInv'
  BY DEF IInv, ThreadInv, TypeOK, recv_line, Sends, Unhandled
<1>3. LockInv'
  BY DEF IInv, LockInv, TypeOK, recv_line, Sends, Unhandled
<1>4. SlotsMatchConnections'
  BY DEF IInv, SlotsMatchConnections, Unhandled
<1> QED
  BY <1>1, <1>2, <1>3, <1>4 DEF IInv

\* The tables may be left alone.
LEMMA TablesKept ==
  ASSUME IInv
  PROVE  /\ UNCHANGED clients => clients' \in [ClientSlots -> Client]
         /\ UNCHANGED groups => GroupsOK'
         /\ UNCHANGED audience => audience' \in [1 .. MaxCommands -> SUBSET Fds]
         /\ GroupsOK
BY DEF IInv, TypeOK, GroupsOK

\* The thread that reads a command has a user; the command's number fits.
LEMMA ReaderUser ==
  ASSUME IInv, NEW f \in Fds, NEW command, recv_line(f, command)
  PROVE  /\ user[f] \in Users /\ user[f] \in Names
         /\ number \in 1 .. MaxCommands /\ number \in 0 .. MaxCommands
BY ConstantsAssumption
   DEF IInv, ThreadInv, TypeOK, recv_line, number, ConstantsAssumption

LEMMA RefuseInv ==
  ASSUME IInv, NEW f \in Fds, NEW command, recv_line(f, command), Refuse(f),
         Unhandled, UNCHANGED <<clients, groups, audience>>
  PROVE  IInv'
<1>1. <<Reply(Answer("ERR"))>> \in Seq(Op)
  <2>1. Reply(Answer("ERR")) \in Op
    BY AnswerType DEF Kinds
  <2> QED
    BY <2>1
<1>2. Sends(f, <<Reply(Answer("ERR"))>>)
  BY DEF Refuse
<1> QED
  BY <1>1, <1>2, HandlerInv, TablesKept

\* A line to a user and, perhaps, an answer before or after it.
LEMMA UserOps ==
  ASSUME NEW kind \in Kinds, NEW answer \in Kinds,
         NEW from \in Names, NEW to \in Names,
         NEW gid \in 0 .. MAX_GROUPS, NEW val \in 0 .. MaxCommands
  PROVE  /\ ToUser(Line(kind, from, to, gid, val)) \in Op
         /\ <<ToUser(Line(kind, from, to, gid, val)), Reply(Answer(answer))>>
              \in Seq(Op)
         /\ <<Reply(Answer(answer)), ToUser(Line(kind, from, to, gid, val))>>
              \in Seq(Op)
<1>1. ToUser(Line(kind, from, to, gid, val)) \in Op
  BY LineType DEF ToUser, Op
<1>2. Reply(Answer(answer)) \in Op
  BY AnswerType
<1> HIDE DEF Op
<1> QED
  BY <1>1, <1>2

LEMMA ThreeOps ==
  ASSUME NEW a \in Op, NEW b \in Op, NEW c \in Op
  PROVE  /\ <<a>> \in Seq(Op) /\ <<a, b>> \in Seq(Op)
         /\ <<a, b, c>> \in Seq(Op)
OBVIOUS

LEMMA WhoInv ==
  ASSUME IInv, NEW f \in Fds, handle_who(f)
  PROVE  IInv'
<1> DEFINE ops == <<Reply(Piece(NoUser, TRUE, FALSE)), WhoNames,
                    Reply(Piece(NoUser, FALSE, TRUE))>>
<1>1. ops \in Seq(Op)
  <2>1. /\ Reply(Piece(NoUser, TRUE, FALSE)) \in Op
        /\ Reply(Piece(NoUser, FALSE, TRUE)) \in Op
        /\ WhoNames \in Op
    BY PieceType
  <2> QED
    BY <2>1, ThreeOps
<1> HIDE DEF ops
<1>2. /\ recv_line(f, "who") /\ Sends(f, ops)
      /\ UNCHANGED <<clients, groups, audience>> /\ Unhandled
  BY DEF handle_who, ops
<1> QED
  BY <1>1, <1>2, HandlerInv, TablesKept

LEMMA WriteAllInv ==
  ASSUME IInv, NEW f \in Fds, handle_write_all(f)
  PROVE  IInv'
<1> DEFINE op == ToAll(Line("all", user[f], NoUser, 0, number))
<1>1. op \in Op
  <2>1. user[f] \in Names /\ number \in 0 .. MaxCommands
    BY ReaderUser DEF handle_write_all
  <2>2. 0 \in 0 .. MAX_GROUPS /\ "all" \in Kinds
    BY ConstantsAssumption DEF Kinds, ConstantsAssumption
  <2>3. Line("all", user[f], NoUser, 0, number) \in Chunk
    BY <2>1, <2>2, LineType
  <2> QED
    BY <2>3 DEF ToAll, Op
<1> HIDE DEF op
<1>2. <<op>> \in Seq(Op)
  BY <1>1
<1>3. /\ recv_line(f, "write all") /\ Sends(f, <<op>>)
      /\ UNCHANGED <<clients, groups, audience>> /\ Unhandled
  BY DEF handle_write_all, op
<1> QED
  BY <1>2, <1>3, HandlerInv, TablesKept

LEMMA CreateGroupInv ==
  ASSUME IInv, NEW f \in Fds, handle_create_group(f)
  PROVE  IInv'
<1> DEFINE new == [used |-> TRUE, members |-> <<user[f]>>, invites |-> <<>>,
                   key |-> 0]
<1>1. CASE Refuse(f) /\ UNCHANGED groups
  BY <1>1, RefuseInv DEF handle_create_group
<1>2. ASSUME NEW g \in First({g \in GroupIds : ~groups[g].used}),
             groups' = [groups EXCEPT ![g] = new],
             Sends(f, <<Reply(Answer("GROUP_CREATED"))>>)
      PROVE  IInv'
  <2>1. new \in Group /\ Len(new.members) = 1 /\ Len(new.invites) = 0
    <3>1. user[f] \in Users
      BY ReaderUser DEF handle_create_group
    <3> QED
      BY <3>1, ConstantsAssumption DEF Group, ConstantsAssumption
  <2> HIDE DEF new
  <2>2. GroupsOK'
    <3>1. GroupsOK /\ g \in GroupIds
      BY TablesKept DEF First
    <3>2. \A h \in GroupIds : groups'[h] = IF h = g THEN new ELSE groups[h]
      BY <1>2, <3>1 DEF GroupsOK
    <3>3. groups' \in [GroupIds -> Group]
      BY <1>2, <2>1, <3>1 DEF GroupsOK
    <3>4. 1 <= MAX_GROUP_MEMBERS /\ 0 <= MAX_GROUP_MEMBERS
      BY ConstantsAssumption DEF ConstantsAssumption
    <3> QED
      BY <2>1, <3>1, <3>2, <3>3, <3>4 DEF GroupsOK
  <2>3. <<Reply(Answer("GROUP_CREATED"))>> \in Seq(Op)
    <3>1. Reply(Answer("GROUP_CREATED")) \in Op
      BY AnswerType DEF Kinds
    <3> QED
      BY <3>1
  <2>4. /\ recv_line(f, "create group")
        /\ UNCHANGED <<clients, audience>> /\ Unhandled
    BY DEF handle_create_group
  <2> QED
    BY <1>2, <2>2, <2>3, <2>4, HandlerInv, TablesKept
<1> QED
  BY <1>1, <1>2 DEF handle_create_group

\* One more invitation, or one more member.
Invited(group, to) == [group EXCEPT !.invites = Append(@, to)]
Joined(group, u)   == [group EXCEPT !.members = Append(@, u)]

LEMMA InvitedGroup ==
  ASSUME NEW g \in Group, NEW to \in Names
  PROVE  /\ Invited(g, to) \in Group
         /\ Invited(g, to).members = g.members
         /\ Invited(g, to).invites = Append(g.invites, to)
         /\ Len(Invited(g, to).invites) = Len(g.invites) + 1
<1>1. Append(g.invites, to) \in Seq(Names)
  BY DEF Group
<1>2. Len(Append(g.invites, to)) = Len(g.invites) + 1
  BY DEF Group
<1> QED
  BY <1>1, <1>2 DEF Group, Invited

LEMMA JoinedGroup ==
  ASSUME NEW g \in Group, NEW u \in Users
  PROVE  /\ Joined(g, u) \in Group
         /\ Joined(g, u).invites = g.invites
         /\ Joined(g, u).members = Append(g.members, u)
         /\ Len(Joined(g, u).members) = Len(g.members) + 1
<1>1. Append(g.members, u) \in Seq(Users)
  BY DEF Group
<1>2. Len(Append(g.members, u)) = Len(g.members) + 1
  BY DEF Group
<1> QED
  BY <1>1, <1>2 DEF Group, Joined

LEMMA InviteInv ==
  ASSUME IInv, NEW f \in Fds, handle_group_invite(f)
  PROVE  IInv'
<1>1. CASE Refuse(f) /\ UNCHANGED groups
  BY <1>1, RefuseInv DEF handle_group_invite
<1>2. ASSUME NEW to \in Names, NEW g \in GroupIds, MayInvite(g, user[f], to),
             groups' = [groups EXCEPT ![g].invites = Append(@, to)],
             Sends(f, <<Reply(Answer("INVITE_SENT")),
                        ToUser(Line("invite", user[f], to, g, number))>>)
      PROVE  IInv'
  <2>1. GroupsOK'
    <3>1. GroupsOK /\ Len(groups[g].invites) < MAX_GROUP_MEMBERS
      BY <1>2, TablesKept DEF MayInvite
    <3>2. \A h \in GroupIds : groups'[h] =
            IF h = g THEN Invited(groups[h], to)
                     ELSE groups[h]
      BY <1>2, <3>1 DEF GroupsOK, Invited
    <3>3. groups[g] \in Group
      BY <3>1 DEF GroupsOK
    <3>4. /\ Invited(groups[g], to) \in Group
          /\ Len(Invited(groups[g], to).invites) = Len(groups[g].invites) + 1
          /\ Invited(groups[g], to).members = groups[g].members
      BY <3>3, InvitedGroup
    <3>5. groups' \in [GroupIds -> Group]
      BY <1>2, <3>1, <3>2, <3>4 DEF GroupsOK
    <3>6. Len(groups'[g].members) <= MAX_GROUP_MEMBERS
      BY <3>1, <3>2, <3>4 DEF GroupsOK
    <3>7. Len(groups'[g].invites) <= MAX_GROUP_MEMBERS
      <4>1. Len(groups'[g].invites) = Len(groups[g].invites) + 1
        BY <3>2, <3>4
      <4>2. Len(groups[g].invites) \in Nat
        BY <3>3 DEF Group
      <4> QED
        BY <3>1, <4>1, <4>2, ConstantsAssumption DEF ConstantsAssumption
    <3> QED
      BY <3>1, <3>2, <3>5, <3>6, <3>7 DEF GroupsOK
  <2>2. <<Reply(Answer("INVITE_SENT")),
          ToUser(Line("invite", user[f], to, g, number))>> \in Seq(Op)
    <3>1. user[f] \in Names /\ number \in 0 .. MaxCommands
      BY ReaderUser DEF handle_group_invite
    <3>2. g \in 0 .. MAX_GROUPS
      BY ConstantsAssumption DEF GroupIds, ConstantsAssumption
    <3>3. "invite" \in Kinds /\ "INVITE_SENT" \in Kinds
      BY DEF Kinds
    <3> QED
      BY <3>1, <3>2, <3>3, UserOps
  <2>3. /\ recv_line(f, "invite")
        /\ UNCHANGED <<clients, audience>> /\ Unhandled
    BY DEF handle_group_invite
  <2> QED
    BY <1>2, <2>1, <2>2, <2>3, HandlerInv, TablesKept
<1> QED
  BY <1>1, <1>2 DEF handle_group_invite, find_group_locked

LEMMA AcceptGroupInv ==
  ASSUME IInv, NEW f \in Fds, handle_group_accept(f)
  PROVE  IInv'
<1>1. CASE Refuse(f) /\ UNCHANGED groups
  BY <1>1, RefuseInv DEF handle_group_accept
<1>2. ASSUME NEW g \in GroupIds, MayAccept(g, user[f]),
             groups' = [groups EXCEPT ![g].members = Append(@, user[f])],
             Sends(f, <<Reply(Answer("GROUP_JOINED"))>>)
      PROVE  IInv'
  <2>1. GroupsOK'
    <3>1. /\ GroupsOK /\ Len(groups[g].members) < MAX_GROUP_MEMBERS
          /\ user[f] \in Users
      BY <1>2, TablesKept, ReaderUser DEF MayAccept, handle_group_accept
    <3>2. \A h \in GroupIds : groups'[h] =
            IF h = g THEN Joined(groups[h], user[f])
                     ELSE groups[h]
      BY <1>2, <3>1 DEF GroupsOK, Joined
    <3>3. groups[g] \in Group
      BY <3>1 DEF GroupsOK
    <3>4. /\ Joined(groups[g], user[f]) \in Group
          /\ Len(Joined(groups[g], user[f]).members) = Len(groups[g].members) + 1
          /\ Joined(groups[g], user[f]).invites = groups[g].invites
      BY <3>1, <3>3, JoinedGroup
    <3>5. groups' \in [GroupIds -> Group]
      BY <1>2, <3>1, <3>2, <3>4 DEF GroupsOK
    <3>6. Len(groups'[g].invites) <= MAX_GROUP_MEMBERS
      BY <3>1, <3>2, <3>4 DEF GroupsOK
    <3>7. Len(groups'[g].members) <= MAX_GROUP_MEMBERS
      <4>1. Len(groups'[g].members) = Len(groups[g].members) + 1
        BY <3>2, <3>4
      <4>2. Len(groups[g].members) \in Nat
        BY <3>3 DEF Group
      <4> QED
        BY <3>1, <4>1, <4>2, ConstantsAssumption DEF ConstantsAssumption
    <3> QED
      BY <3>1, <3>2, <3>5, <3>6, <3>7 DEF GroupsOK
  <2>2. <<Reply(Answer("GROUP_JOINED"))>> \in Seq(Op)
    <3>1. Reply(Answer("GROUP_JOINED")) \in Op
      BY AnswerType DEF Kinds
    <3> QED
      BY <3>1
  <2>3. /\ recv_line(f, "accept")
        /\ UNCHANGED <<clients, audience>> /\ Unhandled
    BY DEF handle_group_accept
  <2> QED
    BY <1>2, <2>1, <2>2, <2>3, HandlerInv, TablesKept
<1> QED
  BY <1>1, <1>2 DEF handle_group_accept, find_group_locked

\* What a member of a group is sent, and who of them is logged in.
LEMMA ToMembersType ==
  ASSUME IInv, NEW kind \in Kinds, NEW from \in Names, NEW g \in GroupIds,
         number \in 0 .. MaxCommands
  PROVE  /\ ToMembers(kind, from, g) \in Seq(Op)
         /\ LoggedIn(Elems(groups[g].members)) \subseteq Fds
<1>1. groups[g].members \in Seq(Users)
  BY DEF IInv, TypeOK, Group
<1>2. ASSUME NEW i \in 1 .. Len(groups[g].members)
      PROVE  ToUser(Line(kind, from, groups[g].members[i], g, number)) \in Op
  <2>1. groups[g].members[i] \in Names /\ g \in 0 .. MAX_GROUPS
    BY <1>1, ConstantsAssumption DEF GroupIds, ConstantsAssumption
  <2> QED
    BY <2>1, LineType DEF ToUser, Op
<1>3. ToMembers(kind, from, g) \in [1 .. Len(groups[g].members) -> Op]
  BY <1>2 DEF ToMembers
<1>4. ToMembers(kind, from, g) \in Seq(Op)
  BY <1>1, <1>3, Len(groups[g].members) \in Nat
<1> QED
  BY <1>4 DEF LoggedIn, IInv, SlotsMatchConnections

LEMMA ExpectType ==
  ASSUME IInv, NEW g \in GroupIds, number \in 1 .. MaxCommands, Expect(g),
         LoggedIn(Elems(groups[g].members)) \subseteq Fds
  PROVE  audience' \in [1 .. MaxCommands -> SUBSET Fds]
BY DEF IInv, TypeOK, Expect

LEMMA GroupKeyInv ==
  ASSUME IInv, NEW f \in Fds, handle_group_key(f)
  PROVE  IInv'
<1>1. CASE Refuse(f) /\ UNCHANGED <<groups, audience>>
  BY <1>1, RefuseInv DEF handle_group_key
<1>2. ASSUME NEW g \in GroupIds,
             groups' = [groups EXCEPT ![g].key = number],
             Sends(f, ToMembers("key", user[f], g)), Expect(g)
      PROVE  IInv'
  <2>1. /\ recv_line(f, "init group")
        /\ UNCHANGED clients /\ Unhandled
    BY DEF handle_group_key
  <2>2. /\ user[f] \in Names /\ number \in 0 .. MaxCommands
        /\ number \in 1 .. MaxCommands /\ "key" \in Kinds
    BY <2>1, ReaderUser DEF Kinds
  <2>3. GroupsOK'
    <3>1. GroupsOK
      BY TablesKept
    <3>2. \A h \in GroupIds : /\ groups'[h] \in Group
                              /\ groups'[h].members = groups[h].members
                              /\ groups'[h].invites = groups[h].invites
      BY <1>2, <2>2, <3>1 DEF GroupsOK, Group
    <3>3. groups' \in [GroupIds -> Group]
      BY <1>2, <3>1, <3>2 DEF GroupsOK
    <3> QED
      BY <3>1, <3>2, <3>3 DEF GroupsOK
  <2>4. audience' \in [1 .. MaxCommands -> SUBSET Fds]
    BY <1>2, <2>2, ToMembersType, ExpectType
  <2>5. ToMembers("key", user[f], g) \in Seq(Op)
    BY <2>2, ToMembersType
  <2> QED
    BY <1>2, <2>1, <2>3, <2>4, <2>5, HandlerInv, TablesKept
<1> QED
  BY <1>1, <1>2 DEF handle_group_key, find_group_locked

LEMMA GroupWriteInv ==
  ASSUME IInv, NEW f \in Fds, handle_group_write(f)
  PROVE  IInv'
<1>1. CASE Refuse(f) /\ UNCHANGED audience
  BY <1>1, RefuseInv DEF handle_group_write
<1>2. ASSUME NEW g \in GroupIds,
             Sends(f, ToMembers("group", user[f], g)), Expect(g)
      PROVE  IInv'
  <2>1. /\ recv_line(f, "write group")
        /\ UNCHANGED <<clients, groups>> /\ Unhandled
    BY DEF handle_group_write
  <2>2. /\ user[f] \in Names /\ number \in 0 .. MaxCommands
        /\ number \in 1 .. MaxCommands /\ "group" \in Kinds
    BY <2>1, ReaderUser DEF Kinds
  <2>3. audience' \in [1 .. MaxCommands -> SUBSET Fds]
    BY <1>2, <2>2, ToMembersType, ExpectType
  <2>4. ToMembers("group", user[f], g) \in Seq(Op)
    BY <2>2, ToMembersType
  <2> QED
    BY <1>2, <2>1, <2>3, <2>4, HandlerInv, TablesKept
<1> QED
  BY <1>1, <1>2 DEF handle_group_write, find_group_locked

LEMMA ListFilesInv ==
  ASSUME IInv, NEW f \in Fds, handle_list_files(f)
  PROVE  IInv'
<1> DEFINE head == Reply(Piece(NoUser, TRUE, FALSE))
           file == Reply(Piece(NoUser, FALSE, FALSE))
           tail == Reply(Piece(NoUser, FALSE, TRUE))
<1>1. head \in Op /\ file \in Op /\ tail \in Op /\ Reply(Answer("FILES")) \in Op
  BY PieceType, AnswerType DEF Kinds
<1> HIDE DEF head, file, tail
<1>2. /\ recv_line(f, "list files")
      /\ UNCHANGED <<clients, groups, audience>> /\ Unhandled
  BY DEF handle_list_files
<1>3. \/ Sends(f, <<head, tail>>) \/ Sends(f, <<head, file, tail>>)
      \/ Sends(f, <<Reply(Answer("FILES"))>>) \/ Refuse(f)
  BY DEF handle_list_files, head, file, tail
<1>4. /\ <<head, tail>> \in Seq(Op) /\ <<head, file, tail>> \in Seq(Op)
      /\ <<Reply(Answer("FILES"))>> \in Seq(Op)
  BY <1>1, ThreeOps
<1> QED
  BY <1>2, <1>3, <1>4, HandlerInv, TablesKept, RefuseInv

LEMMA RequestFileInv ==
  ASSUME IInv, NEW f \in Fds, handle_request_file(f)
  PROVE  IInv'
<1>1. /\ recv_line(f, "request file")
      /\ UNCHANGED <<clients, groups, audience>> /\ Unhandled
  BY DEF handle_request_file
<1>2. CASE Refuse(f)
  BY <1>1, <1>2, RefuseInv
<1>3. ASSUME NEW owner \in Users,
             Sends(f, <<ToUser(Line("file request", user[f], owner, 0, number)),
                        Reply(Answer("FILE_REQUEST_SENT"))>>)
      PROVE  IInv'
  <2>1. /\ owner \in Names /\ 0 \in 0 .. MAX_GROUPS
        /\ "file request" \in Kinds /\ "FILE_REQUEST_SENT" \in Kinds
    BY ConstantsAssumption DEF ConstantsAssumption, Kinds
  <2>2. user[f] \in Names /\ number \in 0 .. MaxCommands
    BY <1>1, ReaderUser
  <2>3. <<ToUser(Line("file request", user[f], owner, 0, number)),
          Reply(Answer("FILE_REQUEST_SENT"))>> \in Seq(Op)
    BY <2>1, <2>2, UserOps
  <2> QED
    BY <1>1, <1>3, <2>3, HandlerInv, TablesKept
<1> QED
  BY <1>2, <1>3 DEF handle_request_file

LEMMA PublicKeyRequestInv ==
  ASSUME IInv, NEW f \in Fds, handle_public_key_request(f)
  PROVE  IInv'
<1>1. /\ recv_line(f, "request public key")
      /\ UNCHANGED <<clients, groups, audience>> /\ Unhandled
  BY DEF handle_public_key_request
<1>2. PICK target \in Names :
        Sends(f, <<ToUser(Line("key request", user[f], target, 0, number)),
                   Reply(Answer("PUBLIC_KEY_REQUEST_SENT"))>>)
  BY DEF handle_public_key_request
<1>3. /\ user[f] \in Names /\ number \in 0 .. MaxCommands
      /\ 0 \in 0 .. MAX_GROUPS
      /\ "key request" \in Kinds /\ "PUBLIC_KEY_REQUEST_SENT" \in Kinds
  <2>1. user[f] \in Names /\ number \in 0 .. MaxCommands
    BY <1>1, ReaderUser
  <2>2. 0 \in 0 .. MAX_GROUPS
    BY ConstantsAssumption DEF ConstantsAssumption
  <2> QED
    BY <2>1, <2>2 DEF Kinds
<1>4. <<ToUser(Line("key request", user[f], target, 0, number)),
        Reply(Answer("PUBLIC_KEY_REQUEST_SENT"))>> \in Seq(Op)
  BY <1>3, UserOps
<1> QED
  BY <1>1, <1>2, <1>4, HandlerInv, TablesKept

LEMMA SendPublicKeyInv ==
  ASSUME IInv, NEW f \in Fds, handle_send_public_key(f)
  PROVE  IInv'
<1>1. /\ recv_line(f, "send public key")
      /\ UNCHANGED <<groups, audience>> /\ Unhandled
  BY DEF handle_send_public_key
<1>2. PICK target \in Names :
        Sends(f, <<ToUser(Line("public key", user[f], target, 0, number)),
                   Reply(Answer("PUBLIC_KEY_SENT"))>>)
  BY DEF handle_send_public_key
<1>3. /\ user[f] \in Names /\ number \in 0 .. MaxCommands
      /\ 0 \in 0 .. MAX_GROUPS
      /\ "public key" \in Kinds /\ "PUBLIC_KEY_SENT" \in Kinds
  <2>1. user[f] \in Names /\ number \in 0 .. MaxCommands
    BY <1>1, ReaderUser
  <2>2. 0 \in 0 .. MAX_GROUPS
    BY ConstantsAssumption DEF ConstantsAssumption
  <2> QED
    BY <2>1, <2>2 DEF Kinds
<1>4. <<ToUser(Line("public key", user[f], target, 0, number)),
        Reply(Answer("PUBLIC_KEY_SENT"))>> \in Seq(Op)
  BY <1>3, UserOps
<1>5. clients' \in [ClientSlots -> Client]
  BY <1>3 DEF handle_send_public_key, IInv, TypeOK, Client
<1>6. \A i \in ClientSlots : /\ clients'[i].active = clients[i].active
                             /\ clients'[i].fd = clients[i].fd
                             /\ clients'[i].user = clients[i].user
  BY DEF handle_send_public_key, IInv, TypeOK, Client
<1> QED
  BY <1>1, <1>2, <1>4, <1>5, <1>6, HandlerInv, TablesKept

LEMMA CommandInv ==
  ASSUME IInv, NEW f \in Fds, process_command(f)
  PROVE  IInv'
<1>1. CASE reject_command(f)
  BY <1>1, RefuseInv DEF reject_command
<1> QED
  BY <1>1, WhoInv, WriteAllInv, CreateGroupInv, InviteInv, AcceptGroupInv,
     GroupKeyInv, GroupWriteInv, ListFilesInv, RequestFileInv,
     PublicKeyRequestInv, SendPublicKeyInv DEF process_command
-----------------------------------------------------------------------------
(* The theorems.                                                           *)

LEMMA NextInv == IInv /\ [Next]_vars => IInv'
<1> SUFFICES ASSUME IInv, [Next]_vars PROVE IInv'
  OBVIOUS
<1>1. CASE UNCHANGED vars
  BY <1>1 DEF vars, IInv, TypeOK, ThreadInv, LockInv, SlotsMatchConnections
<1>2. ASSUME NEW f \in Fds, send_step(f) PROVE IInv'
  BY <1>2, SendAllInv, SendToUserInv, TakeLockInv, LoopInv, FreeLockInv
     DEF send_step
<1> QED
  BY <1>1, <1>2, AcceptInv, AuthenticateInv, SlotAddInv, SlotRemoveInv,
     CloseInv, HangUpInv, CommandInv DEF Next

THEOREM Invariance == Spec => []IInv
BY InitInv, NextInv, PTL DEF Spec

\* The variables keep their types and no group outgrows its arrays.
THEOREM TypeCorrect == Spec => []TypeOK
BY Invariance, PTL DEF IInv

\* The slots are those of the connections being served: none outlives its
\* connection, no user and no descriptor has two.
THEOREM SlotsCorrect == Spec => []SlotsMatchConnections
BY Invariance, PTL DEF IInv
-----------------------------------------------------------------------------
(* Who gets what: a line addressed to a user reaches nobody else, a        *)
(* group's messages and keys reach its members only, and its members are   *)
(* its creator and the invited.                                            *)
(*                                                                         *)
(* A line is addressed under one hold of the lock and sent under another,  *)
(* and its recipient is looked up only then.  What carries the first       *)
(* moment to the second is that the pending sends stay lawful: members and *)
(* invitations are only ever added.  That the lookup finds the addressee's *)
(* own connection is SlotsMatchConnections.                                *)

\* A line of a group goes from a member to a member, or to one invited.
Lawful(chunk) ==
  /\ chunk.kind \in {"group", "key"} =>
       /\ chunk.gid \in GroupIds /\ chunk.to # NoUser
       /\ group_has_member(chunk.gid, chunk.to)
       /\ group_has_member(chunk.gid, chunk.from)
  /\ chunk.kind = "invite" =>
       /\ chunk.gid \in GroupIds /\ chunk.to # NoUser
       /\ group_has_invite(chunk.gid, chunk.to)
       /\ group_has_member(chunk.gid, chunk.from)

LawfulOp(op) == /\ Lawful(op.chunk)
                /\ op.op # "user" => op.chunk.to = NoUser

TodoLawful == \A f \in Fds : \A op \in Elems(todo[f]) : LawfulOp(op)

OutLawful == \A f \in Fds : \A chunk \in Elems(out[f]) :
               /\ Lawful(chunk)
               /\ chunk.to # NoUser => user[f] = chunk.to

GroupsLawful == \A g \in GroupIds :
  /\ ~groups[g].used => groups[g].members = <<>> /\ groups[g].invites = <<>>
  /\ \A i \in 2 .. Len(groups[g].members) :
       group_has_invite(g, groups[g].members[i])

DInv == IInv /\ TodoLawful /\ OutLawful /\ GroupsLawful

\* Members and invitations are only added.
GroupsGrow == \A g \in GroupIds :
  /\ Elems(groups[g].members) \subseteq Elems(groups'[g].members)
  /\ Elems(groups[g].invites) \subseteq Elems(groups'[g].invites)
-----------------------------------------------------------------------------
(* Lemmas about sequences and about the predicates.                        *)

LEMMA ElemsOfEmpty == Elems(<<>>) = {}
BY DEF Elems

LEMMA ElemsOfAppend ==
  ASSUME NEW S, NEW s \in Seq(S), NEW x \in S
  PROVE  Elems(Append(s, x)) = Elems(s) \cup {x}
<1>1. /\ Len(Append(s, x)) = Len(s) + 1 /\ Len(s) \in Nat
      /\ \A i \in 1 .. Len(s) : Append(s, x)[i] = s[i]
      /\ Append(s, x)[Len(s) + 1] = x
  OBVIOUS
<1>2. ASSUME NEW y \in Elems(Append(s, x))
      PROVE  y \in Elems(s) \cup {x}
  BY <1>1 DEF Elems
<1>3. ASSUME NEW y \in Elems(s) \cup {x}
      PROVE  y \in Elems(Append(s, x))
  <2>1. CASE y = x
    <3>1. Len(s) + 1 \in 1 .. Len(Append(s, x))
      BY <1>1
    <3> QED
      BY <1>1, <2>1, <3>1 DEF Elems
  <2>2. CASE y \in Elems(s)
    BY <1>1, <2>2 DEF Elems
  <2> QED
    BY <2>1, <2>2
<1> QED
  BY <1>2, <1>3

LEMMA ElemsOfTail ==
  ASSUME NEW S, NEW s \in Seq(S), s # <<>>
  PROVE  Head(s) \in Elems(s) /\ Elems(Tail(s)) \subseteq Elems(s)
<1>1. /\ Len(s) \in Nat \ {0} /\ Head(s) = s[1]
      /\ Len(Tail(s)) = Len(s) - 1
      /\ \A i \in 1 .. Len(Tail(s)) : Tail(s)[i] = s[i + 1]
  OBVIOUS
<1>2. ASSUME NEW i \in 1 .. Len(Tail(s))
      PROVE  Tail(s)[i] \in Elems(s)
  <2>1. i + 1 \in 1 .. Len(s)
    BY <1>1
  <2> QED
    BY <1>1, <2>1 DEF Elems
<1> QED
  BY <1>1, <1>2 DEF Elems

LEMMA ElemsOfTuples ==
  /\ \A a : Elems(<<a>>) = {a}
  /\ \A a, b : Elems(<<a, b>>) = {a, b}
  /\ \A a, b, c : Elems(<<a, b, c>>) = {a, b, c}
<1>1. ASSUME NEW a PROVE Elems(<<a>>) = {a}
  BY DEF Elems
<1>2. ASSUME NEW a, NEW b PROVE Elems(<<a, b>>) = {a, b}
  <2>1. 1 .. Len(<<a, b>>) = {1, 2}
    OBVIOUS
  <2> QED
    BY <2>1 DEF Elems
<1>3. ASSUME NEW a, NEW b, NEW c PROVE Elems(<<a, b, c>>) = {a, b, c}
  <2>1. 1 .. Len(<<a, b, c>>) = {1, 2, 3}
    OBVIOUS
  <2> QED
    BY <2>1 DEF Elems
<1> QED
  BY <1>1, <1>2, <1>3

\* A lawful line stays lawful as the groups grow.
LEMMA StaysLawful ==
  ASSUME NEW chunk, Lawful(chunk), GroupsGrow
  PROVE  Lawful(chunk)'
BY DEF Lawful, GroupsGrow, group_has_member, group_has_invite

LEMMA OpStaysLawful ==
  ASSUME NEW op, LawfulOp(op), GroupsGrow
  PROVE  LawfulOp(op)'
BY StaysLawful DEF LawfulOp

LEMMA GroupsKept ==
  ASSUME UNCHANGED groups
  PROVE  GroupsGrow /\ (GroupsLawful => GroupsLawful')
BY DEF GroupsGrow, GroupsLawful, group_has_invite

\* Answers and pieces of lines are lawful whatever the groups.
LEMMA PlainLines ==
  /\ \A kind \in Kinds \ {"group", "key", "invite"} :
       LawfulOp(Reply(Answer(kind))) /\ LawfulOp(ToAll(Answer(kind)))
  /\ \A who, bol, eol : LawfulOp(Reply(Piece(who, bol, eol)))
  /\ \A who, bol, eol : /\ Lawful(Piece(who, bol, eol))
                        /\ Piece(who, bol, eol).to = NoUser
  /\ LawfulOp(WhoNames)
<1>1. ASSUME NEW kind \in Kinds \ {"group", "key", "invite"}
      PROVE  LawfulOp(Reply(Answer(kind))) /\ LawfulOp(ToAll(Answer(kind)))
  <2>1. Answer(kind).kind = kind /\ Answer(kind).to = NoUser
    BY DEF Answer, Line
  <2>2. /\ Reply(Answer(kind)).chunk = Answer(kind)
        /\ ToAll(Answer(kind)).chunk = Answer(kind)
    BY DEF Reply, ToAll
  <2> QED
    BY <2>1, <2>2 DEF LawfulOp, Lawful
<1>2. ASSUME NEW who, NEW bol, NEW eol
      PROVE  /\ Lawful(Piece(who, bol, eol)) /\ Piece(who, bol, eol).to = NoUser
             /\ LawfulOp(Reply(Piece(who, bol, eol)))
  <2>1. Piece(who, bol, eol).kind = "piece" /\ Piece(who, bol, eol).to = NoUser
    BY DEF Piece, Line
  <2>2. Reply(Piece(who, bol, eol)).chunk = Piece(who, bol, eol)
    BY DEF Reply
  <2> QED
    BY <2>1, <2>2 DEF LawfulOp, Lawful
<1>3. LawfulOp(WhoNames)
  BY <1>2 DEF LawfulOp, WhoNames
<1> QED
  BY <1>1, <1>2, <1>3
-----------------------------------------------------------------------------
(* The initial states, and the steps that write nothing.                   *)

LEMMA InitDelivery == Init => DInv
<1> SUFFICES ASSUME Init PROVE DInv
  OBVIOUS
<1>1. TodoLawful /\ OutLawful
  BY ElemsOfEmpty DEF Init, TodoLawful, OutLawful
<1>2. GroupsLawful
  BY DEF Init, GroupsLawful, NoGroup
<1> QED
  BY <1>1, <1>2, InitInv DEF DInv

\* A step of f that replaces its pending sends and writes nothing.
LEMMA RefillDelivery ==
  ASSUME DInv, NEW f \in Fds, NEW ops, todo' = [todo EXCEPT ![f] = ops],
         \A op \in Elems(ops) : LawfulOp(op)', GroupsGrow
  PROVE  TodoLawful'
<1>1. \A e \in Fds : todo'[e] = IF e = f THEN ops ELSE todo[e]
  BY DEF DInv, IInv, TypeOK
<1>2. ASSUME NEW e \in Fds, NEW op \in Elems(todo[e])
      PROVE  LawfulOp(op)'
  BY <1>2, OpStaysLawful DEF DInv, TodoLawful
<1> QED
  BY <1>1, <1>2 DEF TodoLawful, Elems

\* Writing nothing leaves what was written lawful, if its readers stay.
LEMMA SilentDelivery ==
  ASSUME DInv, UNCHANGED out, GroupsGrow,
         \A e \in Fds : user'[e] = user[e] \/ out[e] = <<>>
  PROVE  OutLawful'
<1> SUFFICES ASSUME NEW e \in Fds, NEW chunk \in Elems(out[e])
             PROVE  /\ Lawful(chunk)'
                    /\ chunk.to # NoUser => user'[e] = chunk.to
  BY DEF OutLawful, Elems
<1>1. user'[e] = user[e]
  BY ElemsOfEmpty
<1>2. Lawful(chunk)'
  BY StaysLawful DEF DInv, OutLawful
<1> QED
  BY <1>1, <1>2 DEF DInv, OutLawful

LEMMA TodoKept ==
  ASSUME DInv, UNCHANGED <<todo, groups>>
  PROVE  TodoLawful'
BY GroupsKept, OpStaysLawful DEF DInv, TodoLawful, Elems

LEMMA QuietDelivery ==
  ASSUME DInv, UNCHANGED <<todo, out, groups>>,
         \A e \in Fds : user'[e] = user[e] \/ out[e] = <<>>
  PROVE  TodoLawful' /\ OutLawful' /\ GroupsLawful'
BY GroupsKept, SilentDelivery, TodoKept DEF DInv

\* A step of f whose sends are one answer.
LEMMA AnswerDelivery ==
  ASSUME DInv, NEW f \in Fds, UNCHANGED <<out, groups>>,
         NEW kind \in Kinds \ {"group", "key", "invite"},
         todo' = [todo EXCEPT ![f] = <<Reply(Answer(kind))>>],
         \A e \in Fds : user'[e] = user[e] \/ out[e] = <<>>
  PROVE  TodoLawful' /\ OutLawful' /\ GroupsLawful'
<1> DEFINE op == Reply(Answer(kind))
<1>0. LawfulOp(op)
  BY PlainLines
<1> HIDE DEF op
<1>1. LawfulOp(op)'
  BY <1>0, GroupsKept, OpStaysLawful
<1>2. TodoLawful'
  <2>1. todo' = [todo EXCEPT ![f] = <<op>>]
    BY DEF op
  <2>2. \A o \in Elems(<<op>>) : LawfulOp(o)'
    BY <1>1, ElemsOfTuples
  <2> QED
    BY <2>1, <2>2, RefillDelivery, GroupsKept
<1> QED
  BY <1>2, SilentDelivery, GroupsKept DEF DInv

LEMMA LifeDelivery ==
  ASSUME DInv, NEW f \in Fds,
         \/ accept(f) \/ authenticate_chat(f) \/ client_slot_add(f)
         \/ client_slot_remove(f) \/ close(f) \/ hang_up(f)
  PROVE  TodoLawful' /\ OutLawful' /\ GroupsLawful'
<1>1. CASE accept(f) \/ hang_up(f) \/ client_slot_remove(f)
  BY <1>1, QuietDelivery DEF accept, hang_up, client_slot_remove
<1>2. CASE authenticate_chat(f)
  <2>1. \A e \in Fds : user'[e] = user[e] \/ out[e] = <<>>
    BY <1>2 DEF authenticate_chat, DInv, IInv, TypeOK, ThreadInv
  <2>2. CASE UNCHANGED todo
    BY <1>2, <2>1, <2>2, QuietDelivery DEF authenticate_chat
  <2>3. CASE todo' = [todo EXCEPT ![f] = <<Reply(Answer("ERR"))>>]
    <3>1. "ERR" \in Kinds \ {"group", "key", "invite"}
      BY DEF Kinds
    <3>2. UNCHANGED <<out, groups>>
      BY <1>2 DEF authenticate_chat
    <3> QED
      BY <2>1, <2>3, <3>1, <3>2, AnswerDelivery
  <2> QED
    BY <1>2, <2>2, <2>3 DEF authenticate_chat
<1>3. CASE client_slot_add(f)
  <2>1. UNCHANGED <<out, groups, user>>
    BY <1>3 DEF client_slot_add
  <2>2. CASE todo' = [todo EXCEPT ![f] = <<Reply(Answer("ERR"))>>]
    <3>1. "ERR" \in Kinds \ {"group", "key", "invite"}
      BY DEF Kinds
    <3> QED
      BY <2>1, <2>2, <3>1, AnswerDelivery
  <2>3. CASE todo' = [todo EXCEPT ![f] =
                        <<Reply(Answer("OK")), ToAll(Answer("login"))>>]
    <3> DEFINE ok == Reply(Answer("OK"))
               notice == ToAll(Answer("login"))
    <3>1. LawfulOp(ok) /\ LawfulOp(notice)
      BY PlainLines DEF Kinds
    <3>2. todo' = [todo EXCEPT ![f] = <<ok, notice>>]
      BY <2>3
    <3> HIDE DEF ok, notice
    <3>3. LawfulOp(ok)' /\ LawfulOp(notice)'
      BY <2>1, <3>1, GroupsKept, OpStaysLawful
    <3>4. TodoLawful'
      <4>1. \A o \in Elems(<<ok, notice>>) : LawfulOp(o)'
        BY <3>3, ElemsOfTuples
      <4> QED
        BY <2>1, <3>2, <4>1, RefillDelivery, GroupsKept
    <3> QED
      BY <2>1, <3>4, SilentDelivery, GroupsKept DEF DInv
  <2> QED
    BY <1>3, <2>2, <2>3 DEF client_slot_add
<1>4. CASE close(f)
  <2>1. \A e \in Fds : /\ out'[e] = IF e = f THEN <<>> ELSE out[e]
                       /\ e # f => user'[e] = user[e]
    BY <1>4 DEF close, DInv, IInv, TypeOK
  <2>2. UNCHANGED groups /\ UNCHANGED todo
    BY <1>4 DEF close
  <2>3. ASSUME NEW e \in Fds, NEW chunk \in Elems(out'[e])
        PROVE  /\ Lawful(chunk)'
               /\ chunk.to # NoUser => user'[e] = chunk.to
    <3>1. e # f /\ chunk \in Elems(out[e])
      BY <2>1, <2>3, ElemsOfEmpty
    <3>2. Lawful(chunk)'
      BY <2>2, <3>1, GroupsKept, StaysLawful DEF DInv, OutLawful
    <3> QED
      BY <2>1, <3>1, <3>2 DEF DInv, OutLawful
  <2>4. OutLawful'
    BY <2>3 DEF OutLawful, Elems
  <2>5. TodoLawful'
    BY <2>2, TodoKept
  <2> QED
    BY <2>2, <2>4, <2>5, GroupsKept DEF DInv
<1> QED
  BY <1>1, <1>2, <1>3, <1>4
-----------------------------------------------------------------------------
(* The sends.                                                              *)

\* Writing a lawful chunk to connections of its addressee.
LEMMA WriteDelivery ==
  ASSUME DInv, NEW fds, NEW chunk \in Chunk, Lawful(chunk),
         chunk.to # NoUser => \A e \in Fds \cap fds : user[e] = chunk.to,
         SendTo(fds, chunk), UNCHANGED <<user, groups>>
  PROVE  OutLawful'
<1>1. ASSUME NEW e \in Fds, NEW c \in Elems(out'[e])
      PROVE  /\ Lawful(c)'
             /\ c.to # NoUser => user'[e] = c.to
  <2>1. out[e] \in Seq(Chunk)
    BY DEF DInv, IInv, TypeOK
  <2>2. c \in Elems(out[e]) \/ (e \in fds /\ c = chunk)
    BY <1>1, <2>1, ElemsOfAppend DEF SendTo
  <2>3. Lawful(c)
    BY <2>2 DEF DInv, OutLawful
  <2> QED
    BY <2>2, <2>3, GroupsKept, StaysLawful DEF DInv, OutLawful
<1> QED
  BY <1>1 DEF OutLawful, Elems

LEMMA DoneDelivery ==
  ASSUME DInv, NEW f \in Fds, todo[f] # <<>>, Done(f), UNCHANGED groups
  PROVE  TodoLawful'
<1>1. todo' = [todo EXCEPT ![f] = Tail(todo[f])]
  BY DEF Done
<1>2. todo[f] \in Seq(Op)
  BY DEF DInv, IInv, TypeOK
<1>3. \A op \in Elems(Tail(todo[f])) : LawfulOp(op)
  BY <1>2, ElemsOfTail DEF DInv, TodoLawful
<1> DEFINE ops == Tail(todo[f])
<1> HIDE DEF ops
<1>4. todo' = [todo EXCEPT ![f] = ops] /\ \A op \in Elems(ops) : LawfulOp(op)
  BY <1>1, <1>3 DEF ops
<1>5. \A e \in Fds : todo'[e] = IF e = f THEN ops ELSE todo[e]
  BY <1>4 DEF DInv, IInv, TypeOK
<1>6. ASSUME NEW e \in Fds, NEW op \in Elems(todo'[e])
      PROVE  LawfulOp(op)'
  <2>1. LawfulOp(op)
    BY <1>4, <1>5, <1>6 DEF DInv, TodoLawful
  <2> QED
    BY <2>1, GroupsKept, OpStaysLawful
<1> QED
  BY <1>6 DEF TodoLawful, Elems

\* The head of the sends is lawful, and is addressed by send_to_user only.
LEMMA HeadLawful ==
  ASSUME DInv, NEW f \in Fds, todo[f] # <<>>
  PROVE  /\ Lawful(Head(todo[f]).chunk) /\ Head(todo[f]).chunk \in Chunk
         /\ Head(todo[f]).op # "user" => Head(todo[f]).chunk.to = NoUser
<1>1. todo[f] \in Seq(Op)
  BY DEF DInv, IInv, TypeOK
<1>2. Head(todo[f]) \in Elems(todo[f])
  BY <1>1, ElemsOfTail
<1> QED
  BY <1>2, DoneType DEF DInv, TodoLawful, LawfulOp

LEMMA SendDelivery ==
  ASSUME DInv, NEW f \in Fds, send_step(f)
  PROVE  TodoLawful' /\ OutLawful' /\ GroupsLawful'
<1>1. CASE send_all(f)
  <2>1. todo[f] # <<>> /\ Head(todo[f]).op # "user"
    BY <1>1 DEF send_all, NextOp
  <2>2. SendTo({f}, Head(todo[f]).chunk) /\ Done(f) /\ UNCHANGED <<user, groups>>
    BY <1>1 DEF send_all
  <2> QED
    BY <2>1, <2>2, HeadLawful, WriteDelivery, DoneDelivery, GroupsKept DEF DInv
<1>2. CASE send_to_user(f)
  <2> DEFINE chunk == Head(todo[f]).chunk
             fds == {clients[i].fd : i \in find_client_locked(chunk.to)}
  <2>1. /\ todo[f] # <<>> /\ SendTo(fds, chunk) /\ Done(f)
        /\ UNCHANGED <<user, groups>>
    BY <1>2 DEF send_to_user, NextOp
  <2>2. \A e \in Fds \cap fds : user[e] = chunk.to
    BY DEF find_client_locked, First, DInv, IInv, SlotsMatchConnections
  <2>3. Lawful(chunk) /\ chunk \in Chunk
    BY <2>1, HeadLawful
  <2> HIDE DEF chunk, fds
  <2> QED
    BY <2>1, <2>2, <2>3, WriteDelivery, DoneDelivery, GroupsKept DEF DInv
<1>3. CASE take_lock(f)
  BY <1>3, QuietDelivery DEF take_lock
<1>4. CASE loop_over_clients(f)
  <2> DEFINE slot == clients[scan[f]]
             loop == Head(todo[f])
             name == Piece(slot.user, FALSE, FALSE)
  <2>1. scan[f] \in ClientSlots /\ todo[f] # <<>> /\ loop.op # "user"
    BY <1>4 DEF loop_over_clients, ClientSlots, DInv, IInv, LockInv
  <2>2. UNCHANGED <<todo, user, groups>>
    BY <1>4 DEF loop_over_clients
  <2>3. \/ UNCHANGED out
        \/ SendTo({slot.fd}, loop.chunk)
        \/ SendTo({f}, name)
    BY <1>4 DEF loop_over_clients
  <2>4. Lawful(loop.chunk) /\ loop.chunk \in Chunk /\ loop.chunk.to = NoUser
    BY <2>1, HeadLawful
  <2>5. Lawful(name) /\ name \in Chunk /\ name.to = NoUser
    <3>1. slot.user \in Names \cup {NoUser}
      BY <2>1, ConstantsAssumption
         DEF DInv, IInv, TypeOK, Client, ConstantsAssumption
    <3> QED
      BY <3>1, PieceType, PlainLines
  <2> HIDE DEF slot, loop, name
  <2>6. OutLawful'
    BY <2>2, <2>3, <2>4, <2>5, WriteDelivery, SilentDelivery, GroupsKept
  <2> QED
    BY <2>2, <2>6, TodoKept, GroupsKept DEF DInv
<1>5. CASE free_lock(f)
  <2>1. todo[f] # <<>>
    BY <1>5, ConstantsAssumption
       DEF free_lock, DInv, IInv, LockInv, TypeOK, ConstantsAssumption
  <2>2. Done(f) /\ UNCHANGED <<out, user, groups>>
    BY <1>5 DEF free_lock
  <2> QED
    BY <2>1, <2>2, DoneDelivery, SilentDelivery, GroupsKept DEF DInv
<1> QED
  BY <1>1, <1>2, <1>3, <1>4, <1>5 DEF send_step
-----------------------------------------------------------------------------
(* The commands.                                                           *)

LEMMA HandlerDelivery ==
  ASSUME DInv, NEW f \in Fds, NEW ops, Sends(f, ops), Unhandled,
         \A op \in Elems(ops) : LawfulOp(op)', GroupsGrow, GroupsLawful'
  PROVE  TodoLawful' /\ OutLawful' /\ GroupsLawful'
BY RefillDelivery, SilentDelivery DEF Sends, Unhandled

\* A command that leaves the groups alone and whose sends are lawful.
LEMMA PlainDelivery ==
  ASSUME DInv, NEW f \in Fds, NEW ops, Sends(f, ops), Unhandled,
         UNCHANGED groups, \A op \in Elems(ops) : LawfulOp(op)
  PROVE  TodoLawful' /\ OutLawful' /\ GroupsLawful'
<1>1. GroupsGrow /\ GroupsLawful'
  BY GroupsKept DEF DInv
<1>2. \A op \in Elems(ops) : LawfulOp(op)'
  BY <1>1, OpStaysLawful
<1> QED
  BY <1>1, <1>2, HandlerDelivery

LEMMA RefuseDelivery ==
  ASSUME DInv, NEW f \in Fds, Refuse(f), Unhandled, UNCHANGED groups
  PROVE  TodoLawful' /\ OutLawful' /\ GroupsLawful'
<1> DEFINE err == Reply(Answer("ERR"))
<1>1. LawfulOp(err)
  BY PlainLines DEF Kinds
<1>2. Sends(f, <<err>>)
  BY DEF Refuse
<1> HIDE DEF err
<1>3. \A op \in Elems(<<err>>) : LawfulOp(op)
  BY <1>1, ElemsOfTuples
<1> QED
  BY <1>2, <1>3, PlainDelivery

\* Lines of no group are lawful.
LEMMA LineLawful ==
  ASSUME NEW kind, kind \notin {"group", "key", "invite"},
         NEW from, NEW to, NEW gid, NEW val
  PROVE  /\ LawfulOp(ToUser(Line(kind, from, to, gid, val)))
         /\ LawfulOp(ToAll(Line(kind, from, NoUser, gid, val)))
<1>1. /\ Line(kind, from, to, gid, val).kind = kind
      /\ Line(kind, from, NoUser, gid, val).kind = kind
      /\ Line(kind, from, NoUser, gid, val).to = NoUser
  BY DEF Line
<1> QED
  BY <1>1 DEF LawfulOp, Lawful, ToUser, ToAll

\* A line to a user followed by an answer, both of no group.
LEMMA NoticeDelivery ==
  ASSUME DInv, NEW f \in Fds, NEW kind, NEW answer \in Kinds,
         {kind, answer} \cap {"group", "key", "invite"} = {},
         NEW from, NEW to, NEW gid, NEW val,
         Sends(f, <<ToUser(Line(kind, from, to, gid, val)),
                    Reply(Answer(answer))>>),
         Unhandled, UNCHANGED groups
  PROVE  TodoLawful' /\ OutLawful' /\ GroupsLawful'
<1> DEFINE line == ToUser(Line(kind, from, to, gid, val))
           reply == Reply(Answer(answer))
<1>1. LawfulOp(line)
  BY LineLawful
<1>2. LawfulOp(reply)
  BY PlainLines
<1>3. Sends(f, <<line, reply>>)
  OBVIOUS
<1> HIDE DEF line, reply
<1>4. \A op \in Elems(<<line, reply>>) : LawfulOp(op)
  BY <1>1, <1>2, ElemsOfTuples
<1> QED
  BY <1>3, <1>4, PlainDelivery

LEMMA WhoDelivery ==
  ASSUME DInv, NEW f \in Fds, handle_who(f)
  PROVE  TodoLawful' /\ OutLawful' /\ GroupsLawful'
<1> DEFINE head == Reply(Piece(NoUser, TRUE, FALSE))
           tail == Reply(Piece(NoUser, FALSE, TRUE))
<1>1. LawfulOp(head) /\ LawfulOp(tail) /\ LawfulOp(WhoNames)
  BY PlainLines
<1>2. Sends(f, <<head, WhoNames, tail>>) /\ Unhandled /\ UNCHANGED groups
  BY DEF handle_who
<1> HIDE DEF head, tail
<1>3. \A op \in Elems(<<head, WhoNames, tail>>) : LawfulOp(op)
  BY <1>1, ElemsOfTuples
<1> QED
  BY <1>2, <1>3, PlainDelivery

LEMMA WriteAllDelivery ==
  ASSUME DInv, NEW f \in Fds, handle_write_all(f)
  PROVE  TodoLawful' /\ OutLawful' /\ GroupsLawful'
<1> DEFINE op == ToAll(Line("all", user[f], NoUser, 0, number))
<1>1. LawfulOp(op)
  BY LineLawful
<1>2. Sends(f, <<op>>) /\ Unhandled /\ UNCHANGED groups
  BY DEF handle_write_all
<1> HIDE DEF op
<1>3. \A o \in Elems(<<op>>) : LawfulOp(o)
  BY <1>1, ElemsOfTuples
<1> QED
  BY <1>2, <1>3, PlainDelivery

LEMMA ListFilesDelivery ==
  ASSUME DInv, NEW f \in Fds, handle_list_files(f)
  PROVE  TodoLawful' /\ OutLawful' /\ GroupsLawful'
<1> DEFINE head == Reply(Piece(NoUser, TRUE, FALSE))
           file == Reply(Piece(NoUser, FALSE, FALSE))
           tail == Reply(Piece(NoUser, FALSE, TRUE))
           none == Reply(Answer("FILES"))
<1>1. LawfulOp(head) /\ LawfulOp(file) /\ LawfulOp(tail)
  BY PlainLines
<1>2. LawfulOp(none)
  BY PlainLines DEF Kinds
<1>3. /\ \/ Sends(f, <<head, tail>>) \/ Sends(f, <<head, file, tail>>)
         \/ Sends(f, <<none>>) \/ Refuse(f)
      /\ Unhandled /\ UNCHANGED groups
  BY DEF handle_list_files
<1> HIDE DEF head, file, tail, none
<1>4. /\ \A op \in Elems(<<head, tail>>) : LawfulOp(op)
      /\ \A op \in Elems(<<head, file, tail>>) : LawfulOp(op)
      /\ \A op \in Elems(<<none>>) : LawfulOp(op)
  BY <1>1, <1>2, ElemsOfTuples
<1> QED
  BY <1>3, <1>4, PlainDelivery, RefuseDelivery

LEMMA CreateGroupDelivery ==
  ASSUME DInv, NEW f \in Fds, handle_create_group(f)
  PROVE  TodoLawful' /\ OutLawful' /\ GroupsLawful'
<1> DEFINE new == [used |-> TRUE, members |-> <<user[f]>>, invites |-> <<>>,
                   key |-> 0]
           created == Reply(Answer("GROUP_CREATED"))
<1>1. Unhandled
  BY DEF handle_create_group
<1>2. CASE Refuse(f) /\ UNCHANGED groups
  BY <1>1, <1>2, RefuseDelivery
<1>3. ASSUME NEW g \in First({g \in GroupIds : ~groups[g].used}),
             groups' = [groups EXCEPT ![g] = new], Sends(f, <<created>>)
      PROVE  TodoLawful' /\ OutLawful' /\ GroupsLawful'
  <2>1. g \in GroupIds /\ ~groups[g].used
    BY DEF First
  <2>2. new.used /\ Len(new.members) = 1
    OBVIOUS
  <2>3. LawfulOp(created)
    BY PlainLines DEF Kinds
  <2> HIDE DEF new, created
  <2>4. \A h \in GroupIds : groups'[h] = IF h = g THEN new ELSE groups[h]
    BY <1>3, <2>1 DEF DInv, IInv, TypeOK
  <2>5. GroupsGrow
    BY <2>1, <2>4, ElemsOfEmpty DEF GroupsGrow, DInv, GroupsLawful
  <2>6. GroupsLawful'
    <3>1. ASSUME NEW h \in GroupIds, h # g
          PROVE  /\ ~groups'[h].used => groups'[h].members = <<>>
                                        /\ groups'[h].invites = <<>>
                 /\ \A i \in 2 .. Len(groups'[h].members) :
                      groups'[h].members[i] \in Elems(groups'[h].invites)
      BY <2>4, <3>1 DEF DInv, GroupsLawful, group_has_invite
    <3> QED
      BY <2>1, <2>2, <2>4, <3>1 DEF GroupsLawful, group_has_invite
  <2>7. \A op \in Elems(<<created>>) : LawfulOp(op)'
    BY <2>3, <2>5, OpStaysLawful, ElemsOfTuples
  <2> QED
    BY <1>1, <1>3, <2>5, <2>6, <2>7, HandlerDelivery
<1> QED
  BY <1>2, <1>3 DEF handle_create_group

LEMMA InviteDelivery ==
  ASSUME DInv, NEW f \in Fds, handle_group_invite(f)
  PROVE  TodoLawful' /\ OutLawful' /\ GroupsLawful'
<1>1. Unhandled /\ user[f] \in Users /\ user[f] # NoUser /\ UNCHANGED user
  BY ReaderUser, ConstantsAssumption
     DEF handle_group_invite, DInv, Unhandled, ConstantsAssumption
<1>2. CASE Refuse(f) /\ UNCHANGED groups
  BY <1>1, <1>2, RefuseDelivery
<1>3. ASSUME NEW to \in Names, NEW g \in GroupIds, groups[g].used,
             MayInvite(g, user[f], to),
             groups' = [groups EXCEPT ![g].invites = Append(@, to)],
             Sends(f, <<Reply(Answer("INVITE_SENT")),
                        ToUser(Line("invite", user[f], to, g, number))>>)
      PROVE  TodoLawful' /\ OutLawful' /\ GroupsLawful'
  <2>0. PICK from, line, invite, reply :
          /\ from = user[f] /\ line = Line("invite", from, to, g, number)
          /\ invite = ToUser(line) /\ reply = Reply(Answer("INVITE_SENT"))
    OBVIOUS
  <2>1. groups[g] \in Group
    BY DEF DInv, IInv, TypeOK
  <2>2. \A h \in GroupIds : groups'[h] =
          IF h = g THEN Invited(groups[h], to) ELSE groups[h]
    BY <1>3 DEF DInv, IInv, TypeOK, Invited
  <2>3. /\ Invited(groups[g], to).members = groups[g].members
        /\ Invited(groups[g], to).invites = Append(groups[g].invites, to)
        /\ Invited(groups[g], to).used = groups[g].used
    BY <2>1, InvitedGroup DEF Invited, Group
  <2>4. Elems(groups'[g].invites) = Elems(groups[g].invites) \cup {to}
    <3>1. groups[g].invites \in Seq(Names)
      BY <2>1 DEF Group
    <3>2. groups'[g].invites = Append(groups[g].invites, to)
      BY <2>2, <2>3
    <3> QED
      BY <3>1, <3>2, ElemsOfAppend
  <2>5. GroupsGrow
    BY <2>2, <2>3, <2>4 DEF GroupsGrow
  <2>6. GroupsLawful'
    <3>1. ASSUME NEW h \in GroupIds
          PROVE  /\ groups'[h].members = groups[h].members
                 /\ groups'[h].used = groups[h].used
                 /\ h # g => groups'[h].invites = groups[h].invites
      BY <2>2, <2>3
    <3>2. ASSUME NEW h \in GroupIds, NEW i \in 2 .. Len(groups[h].members)
          PROVE  groups[h].members[i] \in Elems(groups'[h].invites)
      BY <2>5 DEF DInv, GroupsLawful, GroupsGrow, group_has_invite
    <3> QED
      BY <1>3, <3>1, <3>2 DEF DInv, GroupsLawful, group_has_invite
  <2>7. LawfulOp(invite)'
    <3>1. /\ line.kind = "invite" /\ line.gid = g /\ line.to = to
          /\ line.from = from
      BY <2>0 DEF Line
    <3>2. to # NoUser
      BY ConstantsAssumption DEF ConstantsAssumption
    <3>3. to \in Elems(groups'[g].invites) /\ from \in Elems(groups'[g].members)
      BY <1>3, <2>0, <2>4, <2>5 DEF GroupsGrow, MayInvite, group_has_member
    <3>4. Lawful(line)'
      BY <3>1, <3>2, <3>3 DEF Lawful, group_has_member, group_has_invite
    <3>5. invite.op = "user" /\ invite.chunk = line
      BY <2>0 DEF ToUser
    <3> QED
      BY <3>4, <3>5 DEF LawfulOp
  <2>8. LawfulOp(reply)'
    <3>1. LawfulOp(reply)
      BY <2>0, PlainLines DEF Kinds
    <3> QED
      BY <2>5, <3>1, OpStaysLawful
  <2>9. Sends(f, <<reply, invite>>)
    BY <1>3, <2>0
  <2>10. \A op \in Elems(<<reply, invite>>) : LawfulOp(op)'
    BY <2>7, <2>8, ElemsOfTuples
  <2> QED
    BY <1>1, <2>5, <2>6, <2>9, <2>10, HandlerDelivery
<1> QED
  BY <1>2, <1>3 DEF handle_group_invite, find_group_locked

LEMMA AcceptGroupDelivery ==
  ASSUME DInv, NEW f \in Fds, handle_group_accept(f)
  PROVE  TodoLawful' /\ OutLawful' /\ GroupsLawful'
<1>1. Unhandled /\ user[f] \in Users
  BY ReaderUser DEF handle_group_accept, DInv
<1>2. CASE Refuse(f) /\ UNCHANGED groups
  BY <1>1, <1>2, RefuseDelivery
<1>3. ASSUME NEW g \in GroupIds, groups[g].used, MayAccept(g, user[f]),
             groups' = [groups EXCEPT ![g].members = Append(@, user[f])],
             Sends(f, <<Reply(Answer("GROUP_JOINED"))>>)
      PROVE  TodoLawful' /\ OutLawful' /\ GroupsLawful'
  <2>0. PICK u, reply : u = user[f] /\ reply = Reply(Answer("GROUP_JOINED"))
    OBVIOUS
  <2>1. groups[g] \in Group /\ u \in Users
    BY <1>1, <2>0 DEF DInv, IInv, TypeOK
  <2>2. \A h \in GroupIds : groups'[h] =
          IF h = g THEN Joined(groups[h], u) ELSE groups[h]
    BY <1>3, <2>0 DEF DInv, IInv, TypeOK, Joined
  <2>3. /\ Joined(groups[g], u).members = Append(groups[g].members, u)
        /\ Joined(groups[g], u).invites = groups[g].invites
        /\ Joined(groups[g], u).used = groups[g].used
    BY <2>1, JoinedGroup DEF Joined, Group
  <2>4. groups[g].members \in Seq(Users)
    BY <2>1 DEF Group
  <2>5. /\ groups'[g].members = Append(groups[g].members, u)
        /\ groups'[g].invites = groups[g].invites /\ groups'[g].used
    BY <1>3, <2>2, <2>3
  <2>6. GroupsGrow
    <3>1. Elems(groups'[g].members) = Elems(groups[g].members) \cup {u}
      BY <2>1, <2>4, <2>5, ElemsOfAppend
    <3> QED
      BY <2>2, <2>5, <3>1 DEF GroupsGrow
  <2>7. GroupsLawful'
    <3>1. u \in Elems(groups[g].invites)
      BY <1>3, <2>0 DEF MayAccept, group_has_invite
    <3>2. ASSUME NEW i \in 2 .. Len(groups'[g].members)
          PROVE  groups'[g].members[i] \in Elems(groups[g].invites)
      <4>1. /\ Len(groups'[g].members) = Len(groups[g].members) + 1
            /\ Len(groups[g].members) \in Nat
            /\ \A j \in 1 .. Len(groups[g].members) :
                 groups'[g].members[j] = groups[g].members[j]
            /\ groups'[g].members[Len(groups[g].members) + 1] = u
        BY <2>1, <2>4, <2>5
      <4>2. CASE i = Len(groups[g].members) + 1
        BY <3>1, <4>1, <4>2
      <4>3. CASE i \in 2 .. Len(groups[g].members)
        BY <4>1, <4>3 DEF DInv, GroupsLawful, group_has_invite
      <4> QED
        BY <4>1, <4>2, <4>3
    <3>3. ASSUME NEW h \in GroupIds, h # g
          PROVE  groups'[h] = groups[h]
      BY <2>2, <3>3
    <3> QED
      BY <2>5, <3>2, <3>3 DEF DInv, GroupsLawful, group_has_invite
  <2>8. \A op \in Elems(<<reply>>) : LawfulOp(op)'
    <3>1. LawfulOp(reply)
      BY <2>0, PlainLines DEF Kinds
    <3> QED
      BY <2>6, <3>1, OpStaysLawful, ElemsOfTuples
  <2>9. Sends(f, <<reply>>)
    BY <1>3, <2>0
  <2> QED
    BY <1>1, <2>6, <2>7, <2>8, <2>9, HandlerDelivery
<1> QED
  BY <1>2, <1>3 DEF handle_group_accept, find_group_locked

\* What the members are sent is lawful, when a member sends it.
LEMMA ToMembersLawful ==
  ASSUME DInv, NEW g \in GroupIds, NEW kind \in {"group", "key"},
         NEW from, group_has_member(g, from)
  PROVE  \A op \in Elems(ToMembers(kind, from, g)) : LawfulOp(op)
<1> SUFFICES ASSUME NEW op \in Elems(ToMembers(kind, from, g))
             PROVE  LawfulOp(op)
  OBVIOUS
<1>1. groups[g].members \in Seq(Users)
  BY DEF DInv, IInv, TypeOK, Group
<1>2. PICK i \in 1 .. Len(groups[g].members) :
        op = ToUser(Line(kind, from, groups[g].members[i], g, number))
  <2> DEFINE n   == Len(groups[g].members)
             ops == ToMembers(kind, from, g)
             S   == {ops[i] : i \in 1 .. n}
  <2>1. n \in Nat
    BY <1>1
  <2>2. /\ DOMAIN ops = 1 .. n /\ ops \in [1 .. n -> S]
        /\ \A i \in 1 .. n :
             ops[i] = ToUser(Line(kind, from, groups[g].members[i], g, number))
    BY DEF ToMembers
  <2> HIDE DEF n, ops, S
  <2>3. ops \in Seq(S)
    BY <2>1, <2>2
  <2>4. Len(ops) = n
    BY <2>1, <2>2, <2>3
  <2>5. op \in Elems(ops)
    BY DEF ops
  <2>6. PICK i \in 1 .. n : op = ops[i]
    BY <2>4, <2>5 DEF Elems
  <2> QED
    BY <2>2, <2>6 DEF n
<1>3. PICK to : to = groups[g].members[i]
  OBVIOUS
<1>4. /\ op.op = "user" /\ op.chunk.kind = kind /\ op.chunk.gid = g
      /\ op.chunk.to = to /\ op.chunk.from = from
  BY <1>2, <1>3 DEF ToUser, Line
<1>5. to \in Elems(groups[g].members) /\ to # NoUser
  <2>1. to \in Users
    BY <1>1, <1>3
  <2> QED
    BY <1>3, <2>1, ConstantsAssumption DEF Elems, ConstantsAssumption
<1> QED
  BY <1>4, <1>5 DEF LawfulOp, Lawful, group_has_member

LEMMA GroupKeyDelivery ==
  ASSUME DInv, NEW f \in Fds, handle_group_key(f)
  PROVE  TodoLawful' /\ OutLawful' /\ GroupsLawful'
<1>1. Unhandled
  BY DEF handle_group_key
<1>2. CASE Refuse(f) /\ UNCHANGED groups
  BY <1>1, <1>2, RefuseDelivery
<1>3. ASSUME NEW g \in GroupIds, group_has_member(g, user[f]),
             groups' = [groups EXCEPT ![g].key = number],
             Sends(f, ToMembers("key", user[f], g))
      PROVE  TodoLawful' /\ OutLawful' /\ GroupsLawful'
  <2>0. PICK ops : ops = ToMembers("key", user[f], g)
    OBVIOUS
  <2>1. \A h \in GroupIds : /\ groups'[h].members = groups[h].members
                            /\ groups'[h].invites = groups[h].invites
                            /\ groups'[h].used = groups[h].used
    BY <1>3 DEF DInv, IInv, TypeOK, Group
  <2>2. GroupsGrow /\ GroupsLawful'
    BY <2>1 DEF GroupsGrow, GroupsLawful, DInv, group_has_invite
  <2>3. \A op \in Elems(ops) : LawfulOp(op)
    BY <1>3, <2>0, ToMembersLawful
  <2>4. \A op \in Elems(ops) : LawfulOp(op)'
    BY <2>2, <2>3, OpStaysLawful
  <2> QED
    BY <1>1, <1>3, <2>0, <2>2, <2>4, HandlerDelivery
<1> QED
  BY <1>2, <1>3 DEF handle_group_key, find_group_locked

LEMMA GroupWriteDelivery ==
  ASSUME DInv, NEW f \in Fds, handle_group_write(f)
  PROVE  TodoLawful' /\ OutLawful' /\ GroupsLawful'
<1>1. Unhandled /\ UNCHANGED groups
  BY DEF handle_group_write
<1>2. CASE Refuse(f)
  BY <1>1, <1>2, RefuseDelivery
<1>3. ASSUME NEW g \in GroupIds, MayWrite(g, user[f]),
             Sends(f, ToMembers("group", user[f], g))
      PROVE  TodoLawful' /\ OutLawful' /\ GroupsLawful'
  <2>1. \A op \in Elems(ToMembers("group", user[f], g)) : LawfulOp(op)
    BY <1>3, ToMembersLawful DEF MayWrite
  <2> QED
    BY <1>1, <1>3, <2>1, PlainDelivery
<1> QED
  BY <1>2, <1>3 DEF handle_group_write, find_group_locked

LEMMA CommandDelivery ==
  ASSUME DInv, NEW f \in Fds, process_command(f)
  PROVE  TodoLawful' /\ OutLawful' /\ GroupsLawful'
<1>1. CASE reject_command(f)
  BY <1>1, RefuseDelivery DEF reject_command
<1>2. CASE handle_request_file(f)
  <2>1. {"file request", "FILE_REQUEST_SENT"} \cap {"group", "key", "invite"} = {}
        /\ "FILE_REQUEST_SENT" \in Kinds
    BY DEF Kinds
  <2> QED
    BY <1>2, <2>1, NoticeDelivery, RefuseDelivery DEF handle_request_file
<1>3. CASE handle_public_key_request(f)
  <2>1. {"key request", "PUBLIC_KEY_REQUEST_SENT"} \cap {"group", "key", "invite"}
          = {} /\ "PUBLIC_KEY_REQUEST_SENT" \in Kinds
    BY DEF Kinds
  <2> QED
    BY <1>3, <2>1, NoticeDelivery DEF handle_public_key_request
<1>4. CASE handle_send_public_key(f)
  <2>1. {"public key", "PUBLIC_KEY_SENT"} \cap {"group", "key", "invite"} = {}
        /\ "PUBLIC_KEY_SENT" \in Kinds
    BY DEF Kinds
  <2> QED
    BY <1>4, <2>1, NoticeDelivery DEF handle_send_public_key
<1> QED
  BY <1>1, <1>2, <1>3, <1>4, WhoDelivery, WriteAllDelivery,
     CreateGroupDelivery, InviteDelivery, AcceptGroupDelivery,
     GroupKeyDelivery, GroupWriteDelivery, ListFilesDelivery
     DEF process_command
-----------------------------------------------------------------------------
(* The theorems.                                                           *)

LEMMA NextDelivery == DInv /\ [Next]_vars => DInv'
<1> SUFFICES ASSUME DInv, [Next]_vars PROVE DInv'
  OBVIOUS
<1>1. IInv'
  BY NextInv DEF DInv
<1>2. CASE UNCHANGED vars
  <2>1. UNCHANGED <<todo, out, groups, user>>
    BY <1>2 DEF vars
  <2> QED
    BY <1>1, <2>1, QuietDelivery DEF DInv
<1> QED
  BY <1>1, <1>2, LifeDelivery, SendDelivery, CommandDelivery DEF Next, DInv

THEOREM LawfulOutput == Spec => []DInv
BY InitDelivery, NextDelivery, PTL DEF Spec

\* A line sent to a user never reaches the connection of another, whoever
\* has come, gone and been given the descriptor meanwhile.
THEOREM Addressed == Spec => []DeliveredToAddressee
<1>1. DInv => DeliveredToAddressee
  BY DEF DInv, OutLawful, DeliveredToAddressee
<1> QED
  BY <1>1, LawfulOutput, PTL

\* A group's messages and keys reach members only, and come from members.
THEOREM SecrecyOfGroups == Spec => []GroupSecrecy
<1>1. DInv => GroupSecrecy
  BY DEF DInv, OutLawful, Lawful, GroupSecrecy
<1> QED
  BY <1>1, LawfulOutput, PTL

\* Only the creator of a group is in it without an invitation, and every
\* invitation received came from a member and stands.
THEOREM MembersInvited == Spec => []MembershipByInvite
<1>1. DInv => MembershipByInvite
  BY DEF DInv, OutLawful, Lawful, GroupsLawful, MembershipByInvite
<1> QED
  BY <1>1, LawfulOutput, PTL
=============================================================================
