----------------------------- MODULE ChatServer -----------------------------
(***************************************************************************)
(* The chat half of Assignment2/server_real.c: one thread per connection   *)
(* (chat_client_thread), the tables clients[] and groups[] guarded by      *)
(* state_lock, and what the threads write to the sockets.                  *)
(*                                                                         *)
(* A connection is named by the file descriptor that serves it: the thread *)
(* that accepted it is the only one to close it, so a descriptor has at    *)
(* most one thread, and accept may hand a closed descriptor out again.     *)
(*                                                                         *)
(* A critical section of state_lock that does not send in a loop is one    *)
(* action, guarded by the lock being free; broadcast_message and the loop  *)
(* of handle_who send to one slot per step while they hold the lock.       *)
(* Every send made without the lock is a step of its own (`todo').         *)
(* Sends do not block here.  Passwords and texts are left out, and so are  *)
(* the fields nobody reads: a client's session, a group's name and owner.  *)
(*                                                                         *)
(* Some definitions have a faulty form just before them, named after the   *)
(* fault.  Nothing uses it: put in the place of the definition it must     *)
(* break a property.                                                       *)
(***************************************************************************)
EXTENDS Naturals, Sequences, FiniteSets

CONSTANTS
  Users,              \* users[] of the server
  Names,              \* what a command may name as a user: invites take any
  Fds,                \* file descriptors of chat connections
  NoUser, NoFd,
  MAX_CLIENTS, MAX_GROUPS, MAX_GROUP_MEMBERS,
  Commands,           \* the commands the clients of a run type
  Watched,            \* the kinds of lines `out' records in a run
  MaxCommands,        \* bound on the commands received
  MaxAccepts          \* bound on the connections accepted

ASSUME ConstantsAssumption ==
  /\ Users \subseteq Names
  /\ NoUser \notin Names
  /\ NoFd \notin Fds
  /\ MAX_CLIENTS \in Nat \ {0}
  /\ MAX_GROUPS \in Nat
  /\ MAX_GROUP_MEMBERS \in Nat \ {0}
  /\ MaxCommands \in Nat
  /\ MaxAccepts \in Nat

VARIABLES
  pc,          \* where the thread of a descriptor stands; "closed": no thread
  user,        \* its local variable `user'
  todo,        \* the sends its handler has still to make
  scan,        \* its loop index over clients[] while it holds the lock
  state_lock,  \* the descriptor whose thread holds the lock across a loop
  clients,     \* clients[]
  groups,      \* groups[]
  out,         \* what has been written to the connection, in order
  gone,        \* connections the peer has closed
  received,    \* number of commands received: names a message or a key
  accepted,    \* number of connections accepted
  audience     \* history: who must get the group line of command number n

vars == <<pc, user, todo, scan, state_lock, clients, groups, out, gone,
          received, accepted, audience>>

ClientSlots == 1 .. MAX_CLIENTS
GroupIds    == 1 .. MAX_GROUPS
-----------------------------------------------------------------------------
(* Tables.                                                                 *)

NoClient == [active |-> FALSE, fd |-> NoFd, user |-> NoUser, public_key |-> 0]

\* key = 0 stands for has_key = 0; the name and the owner are never read
NoGroup == [used |-> FALSE, members |-> <<>>, invites |-> <<>>, key |-> 0]

First(S) == {i \in S : \A j \in S : i <= j}

Elems(s) == {s[i] : i \in 1 .. Len(s)}

\* the slot of a user: a set with at most one element
find_client_locked(u) ==
  First({i \in ClientSlots : clients[i].active /\ clients[i].user = u})

\* the slot that serves a descriptor
SlotOfAnyone(f) == First({i \in ClientSlots : clients[i].active})
slot_of(f) == First({i \in ClientSlots : clients[i].active /\ clients[i].fd = f})

NeverTaken(u) == FALSE
name_taken(u) == find_client_locked(u) # {}

group_has_member(g, u) == u \in Elems(groups[g].members)
group_has_invite(g, u) == u \in Elems(groups[g].invites)

\* atoi yields any number: 0 stands for one that names no group in use
find_group_locked(g) == {h \in GroupIds : h = g /\ groups[h].used}
-----------------------------------------------------------------------------
(* Output.  A chunk is one call of send_all or send_fmt; bol and eol say   *)
(* whether it begins and ends a protocol line.                             *)

Line(kind, from, to, gid, val) ==
  [kind |-> kind, from |-> from, to |-> to, gid |-> gid, val |-> val,
   bol |-> TRUE, eol |-> TRUE]
Answer(kind)         == Line(kind, NoUser, NoUser, 0, 0)
Piece(who, bol, eol) == [Line("piece", who, NoUser, 0, 0)
                           EXCEPT !.bol = bol, !.eol = eol]

Reply(chunk)  == [op |-> "reply", chunk |-> chunk]
ToUser(chunk) == [op |-> "user",  chunk |-> chunk]
ToAll(chunk)  == [op |-> "all",   chunk |-> chunk]
WhoNames      == [op |-> "names", chunk |-> Piece(NoUser, FALSE, FALSE)]

SendTo(fds, chunk) ==
  out' = [f \in Fds |-> IF f \in fds /\ chunk.kind \in Watched
                       THEN Append(out[f], chunk) ELSE out[f]]

LockFree == state_lock = NoFd

\* the connections now logged in as one of the names
LoggedIn(names) == {clients[i].fd : i \in {j \in ClientSlots :
                      clients[j].active /\ clients[j].user \in names}}
-----------------------------------------------------------------------------
Init ==
  /\ pc = [f \in Fds |-> "closed"]
  /\ user = [f \in Fds |-> NoUser]
  /\ todo = [f \in Fds |-> <<>>]
  /\ scan = [f \in Fds |-> 0]
  /\ state_lock = NoFd
  /\ clients = [i \in ClientSlots |-> NoClient]
  /\ groups = [g \in GroupIds |-> NoGroup]
  /\ out = [f \in Fds |-> <<>>]
  /\ gone = {}
  /\ received = 0
  /\ accepted = 0
  /\ audience = [n \in 1 .. MaxCommands |-> {}]

(* The thread's life.                                                      *)

\* A failed malloc closes the connection at once, which leaves no trace.
accept(f) ==
  /\ pc[f] = "closed" /\ accepted < MaxAccepts
  /\ accepted' = accepted + 1
  /\ pc' = [pc EXCEPT ![f] = "auth"]
  /\ UNCHANGED <<user, todo, scan, state_lock, clients, groups, out, gone,
                 received, audience>>

\* The verdict on the TICKET line is module Authentication's; a peer that hangs
\* up instead of sending one fails too.
authenticate_chat(f) ==
  /\ pc[f] = "auth"
  /\ \/ \E u \in Users : /\ user' = [user EXCEPT ![f] = u]
                         /\ pc' = [pc EXCEPT ![f] = "slot"]
                         /\ UNCHANGED todo
     \/ /\ pc' = [pc EXCEPT ![f] = "closing"]
        /\ todo' = [todo EXCEPT ![f] = <<Reply(Answer("ERR"))>>]
        /\ UNCHANGED user
  /\ UNCHANGED <<scan, state_lock, clients, groups, out, gone, received,
                 accepted, audience>>

\* The slot is taken under the lock; the verdict and the login notice are
\* sent after the lock is given back.
client_slot_add(f) ==
  LET free == First({i \in ClientSlots : ~clients[i].active}) IN
  /\ pc[f] = "slot" /\ LockFree
  /\ \/ /\ ~name_taken(user[f])
        /\ \E i \in free :
             clients' = [clients EXCEPT ![i] =
               [active |-> TRUE, fd |-> f, user |-> user[f], public_key |-> 0]]
        /\ pc' = [pc EXCEPT ![f] = "serving"]
        /\ todo' = [todo EXCEPT ![f] =
             <<Reply(Answer("OK")), ToAll(Answer("login"))>>]
     \/ /\ name_taken(user[f]) \/ free = {}
        /\ pc' = [pc EXCEPT ![f] = "closing"]
        /\ todo' = [todo EXCEPT ![f] = <<Reply(Answer("ERR"))>>]
        /\ UNCHANGED clients
  /\ UNCHANGED <<user, scan, state_lock, groups, out, gone, received, accepted,
                 audience>>

\* recv_line reports the end of the connection and the loop is left.
client_slot_remove(f) ==
  /\ pc[f] = "serving" /\ todo[f] = <<>> /\ f \in gone /\ LockFree
  /\ clients' = [i \in ClientSlots |->
                   IF i \in slot_of(f) THEN NoClient ELSE clients[i]]
  /\ pc' = [pc EXCEPT ![f] = "closing"]
  /\ audience' = [n \in DOMAIN audience |-> audience[n] \ {f}]
  /\ UNCHANGED <<user, todo, scan, state_lock, groups, out, gone, received,
                 accepted>>

\* close(fd) and the end of the thread: its locals and the connection go.
close(f) ==
  /\ pc[f] = "closing" /\ todo[f] = <<>>
  /\ pc' = [pc EXCEPT ![f] = "closed"]
  /\ user' = [user EXCEPT ![f] = NoUser]
  /\ out' = [out EXCEPT ![f] = <<>>]
  /\ gone' = gone \ {f}
  /\ UNCHANGED <<todo, scan, state_lock, clients, groups, received, accepted,
                 audience>>

\* The peer's side: it may close the connection at any time.
hang_up(f) ==
  /\ pc[f] # "closed" /\ f \notin gone
  /\ gone' = gone \cup {f}
  /\ UNCHANGED <<pc, user, todo, scan, state_lock, clients, groups, out,
                 received, accepted, audience>>
-----------------------------------------------------------------------------
(* The sends.                                                              *)

NextOp(f, op) == todo[f] # <<>> /\ Head(todo[f]).op = op
Done(f)       == todo' = [todo EXCEPT ![f] = Tail(@)]

send_all(f) ==
  /\ NextOp(f, "reply")
  /\ SendTo({f}, Head(todo[f]).chunk)
  /\ Done(f)
  /\ UNCHANGED <<pc, user, scan, state_lock, clients, groups, gone, received,
                 accepted, audience>>

send_to_user(f) ==
  /\ NextOp(f, "user") /\ LockFree
  /\ LET chunk == Head(todo[f]).chunk
     IN  SendTo({clients[i].fd : i \in find_client_locked(chunk.to)}, chunk)
  /\ Done(f)
  /\ UNCHANGED <<pc, user, scan, state_lock, clients, groups, gone, received,
                 accepted, audience>>

LoopsWithoutLock(f) ==
  /\ NextOp(f, "all") \/ NextOp(f, "names")
  /\ scan[f] = 0
  /\ scan' = [scan EXCEPT ![f] = 1]
  /\ UNCHANGED <<pc, user, todo, state_lock, clients, groups, out, gone,
                 received, accepted, audience>>

\* pthread_mutex_lock at the head of a loop over clients[]
take_lock(f) ==
  /\ NextOp(f, "all") \/ NextOp(f, "names")
  /\ scan[f] = 0 /\ LockFree
  /\ state_lock' = f
  /\ scan' = [scan EXCEPT ![f] = 1]
  /\ UNCHANGED <<pc, user, todo, clients, groups, out, gone, received,
                 accepted, audience>>

\* one turn of the loop: to the slot's connection, or the slot's name to f
loop_over_clients(f) ==
  /\ scan[f] \in ClientSlots
  /\ LET slot == clients[scan[f]]
         loop == Head(todo[f])
     IN  \/ ~slot.active /\ UNCHANGED out
         \/ slot.active /\ loop.op = "all" /\ SendTo({slot.fd}, loop.chunk)
         \/ /\ slot.active /\ loop.op = "names"
            /\ SendTo({f}, Piece(slot.user, FALSE, FALSE))
  /\ scan' = [scan EXCEPT ![f] = @ + 1]
  /\ UNCHANGED <<pc, user, todo, state_lock, clients, groups, gone, received,
                 accepted, audience>>

NeverUnlocks(f) ==
  /\ scan[f] > MAX_CLIENTS
  /\ scan' = [scan EXCEPT ![f] = 0]
  /\ Done(f)
  /\ UNCHANGED <<pc, user, state_lock, clients, groups, out, gone, received,
                 accepted, audience>>

\* pthread_mutex_unlock after the loop
free_lock(f) ==
  /\ scan[f] > MAX_CLIENTS
  /\ scan' = [scan EXCEPT ![f] = 0]
  /\ state_lock' = NoFd
  /\ Done(f)
  /\ UNCHANGED <<pc, user, clients, groups, out, gone, received, accepted,
                 audience>>
-----------------------------------------------------------------------------
(* The commands.  A handler is the part of the command up to the end of    *)
(* its critical section; what it sends afterwards is left in todo.         *)

recv_line(f, command) ==
  /\ pc[f] = "serving" /\ todo[f] = <<>>
  /\ command \in Commands /\ received < MaxCommands
  /\ received' = received + 1

number == received + 1

Sends(f, ops) == todo' = [todo EXCEPT ![f] = ops]
Refuse(f)     == Sends(f, <<Reply(Answer("ERR"))>>)

Unhandled == UNCHANGED <<pc, user, scan, state_lock, out, gone, accepted>>

handle_who(f) ==
  /\ recv_line(f, "who")
  /\ Sends(f, <<Reply(Piece(NoUser, TRUE, FALSE)), WhoNames,
                Reply(Piece(NoUser, FALSE, TRUE))>>)
  /\ UNCHANGED <<clients, groups, audience>> /\ Unhandled

handle_write_all(f) ==
  /\ recv_line(f, "write all")
  /\ Sends(f, <<ToAll(Line("all", user[f], NoUser, 0, number))>>)
  /\ UNCHANGED <<clients, groups, audience>> /\ Unhandled

handle_create_group(f) ==
  LET free == First({g \in GroupIds : ~groups[g].used}) IN
  /\ recv_line(f, "create group") /\ LockFree
  /\ \/ \E g \in free :
          /\ groups' = [groups EXCEPT ![g] =
               [used |-> TRUE, members |-> <<user[f]>>, invites |-> <<>>,
                key |-> 0]]
          /\ Sends(f, <<Reply(Answer("GROUP_CREATED"))>>)
     \/ free = {} /\ Refuse(f) /\ UNCHANGED groups
  /\ UNCHANGED <<clients, audience>> /\ Unhandled

MayInvite(g, from, to) ==
  /\ group_has_member(g, from) /\ ~group_has_member(g, to)
  /\ ~group_has_invite(g, to)
  /\ Len(groups[g].invites) < MAX_GROUP_MEMBERS

handle_group_invite(f) ==
  /\ recv_line(f, "invite") /\ LockFree
  /\ \E id \in GroupIds \cup {0}, to \in Names :
       LET ok == {g \in find_group_locked(id) : MayInvite(g, user[f], to)} IN
       \/ \E g \in ok :
            /\ groups' = [groups EXCEPT ![g].invites = Append(@, to)]
            /\ Sends(f, <<Reply(Answer("INVITE_SENT")),
                          ToUser(Line("invite", user[f], to, g, number))>>)
       \/ ok = {} /\ Refuse(f) /\ UNCHANGED groups
  /\ UNCHANGED <<clients, audience>> /\ Unhandled

AcceptsUninvited(g, u) == Len(groups[g].members) < MAX_GROUP_MEMBERS

AcceptsOneTooMany(g, u) == /\ group_has_invite(g, u)
                           /\ Len(groups[g].members) <= MAX_GROUP_MEMBERS

MayAccept(g, u) == /\ group_has_invite(g, u)
                   /\ Len(groups[g].members) < MAX_GROUP_MEMBERS

handle_group_accept(f) ==
  /\ recv_line(f, "accept") /\ LockFree
  /\ \E id \in GroupIds \cup {0} :
       LET ok == {g \in find_group_locked(id) : MayAccept(g, user[f])} IN
       \/ \E g \in ok :
            /\ groups' = [groups EXCEPT ![g].members = Append(@, user[f])]
            /\ Sends(f, <<Reply(Answer("GROUP_JOINED"))>>)
       \/ ok = {} /\ Refuse(f) /\ UNCHANGED groups
  /\ UNCHANGED <<clients, audience>> /\ Unhandled

SkipsLastMember(kind, from, g) ==
  [i \in 1 .. Len(groups[g].members) - 1 |->
     ToUser(Line(kind, from, groups[g].members[i], g, number))]

\* one line for every member copied under the lock
ToMembers(kind, from, g) ==
  [i \in 1 .. Len(groups[g].members) |->
     ToUser(Line(kind, from, groups[g].members[i], g, number))]

Expect(g) == audience' = [audience EXCEPT ![number] =
                            LoggedIn(Elems(groups[g].members))]

\* random_bytes may fail, which refuses the command
handle_group_key(f) ==
  /\ recv_line(f, "init group") /\ LockFree
  /\ \E id \in GroupIds \cup {0} :
       \/ \E g \in find_group_locked(id) :
            /\ group_has_member(g, user[f])
            /\ groups' = [groups EXCEPT ![g].key = number]
            /\ Sends(f, ToMembers("key", user[f], g))
            /\ Expect(g)
       \/ Refuse(f) /\ UNCHANGED <<groups, audience>>
  /\ UNCHANGED clients /\ Unhandled

WritesToAnyGroup(g, u) == groups[g].key # 0

MayWrite(g, u) == group_has_member(g, u) /\ groups[g].key # 0

handle_group_write(f) ==
  /\ recv_line(f, "write group") /\ LockFree
  /\ \E id \in GroupIds \cup {0} :
       LET ok == {g \in find_group_locked(id) : MayWrite(g, user[f])} IN
       \/ \E g \in ok : Sends(f, ToMembers("group", user[f], g)) /\ Expect(g)
       \/ ok = {} /\ Refuse(f) /\ UNCHANGED audience
  /\ UNCHANGED <<clients, groups>> /\ Unhandled

\* Which files the owner has and the requester may read is the ACL's matter:
\* none or one is listed.  An unreadable directory is answered in one piece.
handle_list_files(f) ==
  LET head == Reply(Piece(NoUser, TRUE, FALSE))
      file == Reply(Piece(NoUser, FALSE, FALSE))
      tail == Reply(Piece(NoUser, FALSE, TRUE))
  IN
  /\ recv_line(f, "list files")
  /\ \/ Sends(f, <<head, tail>>) \/ Sends(f, <<head, file, tail>>)
     \/ Sends(f, <<Reply(Answer("FILES"))>>) \/ Refuse(f)
  /\ UNCHANGED <<clients, groups, audience>> /\ Unhandled

handle_request_file(f) ==
  /\ recv_line(f, "request file")
  /\ \/ \E owner \in Users :
          Sends(f, <<ToUser(Line("file request", user[f], owner, 0, number)),
                     Reply(Answer("FILE_REQUEST_SENT"))>>)
     \/ Refuse(f)
  /\ UNCHANGED <<clients, groups, audience>> /\ Unhandled

handle_public_key_request(f) ==
  /\ recv_line(f, "request public key")
  /\ \E target \in Names :
       Sends(f, <<ToUser(Line("key request", user[f], target, 0, number)),
                  Reply(Answer("PUBLIC_KEY_REQUEST_SENT"))>>)
  /\ UNCHANGED <<clients, groups, audience>> /\ Unhandled

handle_send_public_key(f) ==
  /\ recv_line(f, "send public key") /\ LockFree
  /\ clients' = [i \in ClientSlots |->
                   IF i \in find_client_locked(user[f])
                   THEN [clients[i] EXCEPT !.public_key = number]
                   ELSE clients[i]]
  /\ \E target \in Names :
       Sends(f, <<ToUser(Line("public key", user[f], target, 0, number)),
                  Reply(Answer("PUBLIC_KEY_SENT"))>>)
  /\ UNCHANGED <<groups, audience>> /\ Unhandled

\* a usage error or an unknown command
reject_command(f) ==
  /\ recv_line(f, "unknown")
  /\ Refuse(f)
  /\ UNCHANGED <<clients, groups, audience>> /\ Unhandled

process_command(f) ==
  \/ handle_who(f) \/ handle_write_all(f) \/ handle_create_group(f)
  \/ handle_group_invite(f) \/ handle_group_accept(f) \/ handle_group_key(f)
  \/ handle_group_write(f) \/ handle_list_files(f) \/ handle_request_file(f)
  \/ handle_public_key_request(f) \/ handle_send_public_key(f)
  \/ reject_command(f)
-----------------------------------------------------------------------------
send_step(f) == \/ send_all(f) \/ send_to_user(f) \/ take_lock(f)
                \/ loop_over_clients(f) \/ free_lock(f)

Next == \E f \in Fds :
  \/ accept(f) \/ authenticate_chat(f) \/ client_slot_add(f)
  \/ client_slot_remove(f) \/ close(f) \/ hang_up(f)
  \/ send_step(f) \/ process_command(f)

\* A thread that can run does; nobody has to connect, to log in, to type a
\* command or to hang up.  A peer that hung up ends the wait for its line.
Fairness == \A f \in Fds :
  /\ WF_vars(send_step(f))
  /\ WF_vars(client_slot_add(f))
  /\ WF_vars(client_slot_remove(f))
  /\ WF_vars(close(f))
  /\ WF_vars(f \in gone /\ authenticate_chat(f))

Spec     == Init /\ [][Next]_vars
FairSpec == Spec /\ Fairness
-----------------------------------------------------------------------------
(* Properties.                                                             *)

States == {"closed", "auth", "slot", "serving", "closing"}
Kinds  == {"OK", "ERR", "login", "all", "group", "key", "invite", "piece",
           "GROUP_CREATED", "INVITE_SENT", "GROUP_JOINED", "FILES",
           "file request", "FILE_REQUEST_SENT", "key request",
           "PUBLIC_KEY_REQUEST_SENT", "public key", "PUBLIC_KEY_SENT"}
Chunk  == [kind : Kinds, from : Names \cup {NoUser}, to : Names \cup {NoUser},
           gid : 0 .. MAX_GROUPS, val : 0 .. MaxCommands,
           bol : BOOLEAN, eol : BOOLEAN]
Op     == [op : {"reply", "user", "all", "names"}, chunk : Chunk]
Client == [active : BOOLEAN, fd : Fds \cup {NoFd}, user : Users \cup {NoUser},
           public_key : 0 .. MaxCommands]
Group  == [used : BOOLEAN, members : Seq(Users), invites : Seq(Names),
           key : 0 .. MaxCommands]

\* Types, and the arrays of a group stay within MAX_GROUP_MEMBERS.
TypeOK ==
  /\ pc \in [Fds -> States]
  /\ user \in [Fds -> Users \cup {NoUser}]
  /\ todo \in [Fds -> Seq(Op)]
  /\ scan \in [Fds -> 0 .. MAX_CLIENTS + 1]
  /\ state_lock \in Fds \cup {NoFd}
  /\ clients \in [ClientSlots -> Client]
  /\ groups \in [GroupIds -> Group]
  /\ out \in [Fds -> Seq(Chunk)]
  /\ gone \subseteq Fds
  /\ received \in 0 .. MaxCommands
  /\ accepted \in 0 .. MaxAccepts
  /\ audience \in [1 .. MaxCommands -> SUBSET Fds]
  /\ \A g \in GroupIds : /\ Len(groups[g].members) <= MAX_GROUP_MEMBERS
                         /\ Len(groups[g].invites) <= MAX_GROUP_MEMBERS

\* An active slot names the descriptor of the thread that serves its user, a
\* serving thread has a slot, and no user and no descriptor has two: the table
\* never outlives a connection nor loses one, whatever the order of logins,
\* hang-ups and reused descriptors.
SlotsMatchConnections ==
  /\ \A i \in ClientSlots : clients[i].active =>
       /\ clients[i].fd \in Fds
       /\ pc[clients[i].fd] = "serving"
       /\ user[clients[i].fd] = clients[i].user
  /\ \A f \in Fds : pc[f] = "serving" =>
       \E i \in ClientSlots : clients[i].active /\ clients[i].fd = f
  /\ \A i, j \in ClientSlots : clients[i].active /\ clients[j].active /\ i # j =>
       clients[i].user # clients[j].user /\ clients[i].fd # clients[j].fd

\* A line sent to a user (send_to_user) is never on the connection of another,
\* although the descriptor may have been closed and reused meanwhile.
DeliveredToAddressee ==
  \A f \in Fds : \A chunk \in Elems(out[f]) :
    chunk.to # NoUser => user[f] = chunk.to

\* A connection that got a group's message or key serves a member of that
\* group, and so was its sender.
GroupSecrecy ==
  \A f \in Fds : \A chunk \in Elems(out[f]) :
    chunk.kind \in {"group", "key"} =>
      /\ group_has_member(chunk.gid, user[f])
      /\ group_has_member(chunk.gid, chunk.from)

\* Whoever is in a group created it or was invited by one who was in it, and
\* an invitation received is an invitation that stands.
MembershipByInvite ==
  /\ \A g \in GroupIds : \A i \in 2 .. Len(groups[g].members) :
       group_has_invite(g, groups[g].members[i])
  /\ \A f \in Fds : \A chunk \in Elems(out[f]) : chunk.kind = "invite" =>
       /\ group_has_invite(chunk.gid, user[f])
       /\ group_has_member(chunk.gid, chunk.from)

Positions(f, kind, val) ==
  {i \in 1 .. Len(out[f]) : out[f][i].kind = kind /\ out[f][i].val = val}

\* Two /write all messages that reach two connections reach both in the same
\* order: broadcast_message holds the lock over its whole loop.
BroadcastTotalOrder ==
  \A f, e \in Fds : \A m, n \in 1 .. received :
    \A i \in Positions(f, "all", m), j \in Positions(f, "all", n),
       k \in Positions(e, "all", m), l \in Positions(e, "all", n) :
      i < j => k <= l

\* What one user sends arrives in the order it was typed, on every connection
\* and across a reconnection of the sender.
SenderOrder ==
  \A f \in Fds : \A i, j \in 1 .. Len(out[f]) :
    /\ i < j /\ out[f][i].from = out[f][j].from
    /\ out[f][i].val > 0 /\ out[f][j].val > 0
    => out[f][i].val <= out[f][j].val

Pending(n) == \E f \in Fds : \E op \in Elems(todo[f]) : op.chunk.val = n

\* Once a group message or key has been sent, every member who was logged in
\* when it was typed and has not left since has it.
GroupDelivery ==
  \A n \in 1 .. MaxCommands : ~Pending(n) =>
    \A f \in audience[n] : \E chunk \in Elems(out[f]) : chunk.val = n

\* One answer to /who names nobody twice: it lists one moment's table.
WhoNamesDistinct ==
  \A f \in Fds : \A i, j \in 1 .. Len(out[f]) :
    /\ i < j /\ out[f][i].kind = "piece" /\ out[f][j].kind = "piece"
    /\ out[f][i].from # NoUser /\ out[f][i].from = out[f][j].from
    => \E k \in i .. j : out[f][k].kind = "piece" /\ out[f][k].bol

\* A connection whose peer hung up is closed in the end, which frees its slot
\* and its name: no thread keeps the lock and none waits for it for ever.
DepartedIsClosed == \A f \in Fds : f \in gone ~> pc[f] = "closed"

\* The client takes the first line for the verdict on its login
\* (client_real.c:222; chat_smoke_test.sh greps for it).
LoginVerdictFirst ==
  \A f \in Fds : pc[f] = "serving" /\ out[f] # <<>> => out[f][1].kind = "OK"

KeysOf(f, g) == {i \in 1 .. Len(out[f]) : /\ out[f][i].kind = "key"
                                          /\ out[f][i].gid = g}

\* Once a group key has been sent to the members, those who got a key hold
\* the one the server keeps as the group's.
KeysAgree ==
  \A f \in Fds, g \in GroupIds :
    (\A n \in 1 .. received : ~Pending(n)) /\ KeysOf(f, g) # {} =>
      LET last == CHOOSE i \in KeysOf(f, g) : \A j \in KeysOf(f, g) : j <= i
      IN  f \in audience[groups[g].key] => out[f][last].val = groups[g].key
=============================================================================
