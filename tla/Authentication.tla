---------------------------- MODULE Authentication ----------------------------
(***************************************************************************)
(* How a client logs in (Assignment2): authenticate_with_kdc and           *)
(* connect_chat of client_real.c against kdc_client_thread and the part of *)
(* chat_client_thread up to its slot of server_real.c.  Each connection    *)
(* has a thread of its own; the threads share the ring of nonces           *)
(* (ReplayCache), the clock and clients[].                                 *)
(*                                                                         *)
(* Keys and ciphertexts are symbolic: an HMAC is right when it was made    *)
(* with the key it is checked with, and a ticket is what it decrypts to.   *)
(* A line sent waits until a thread reads it, while the clock runs, and    *)
(* may come a second time on another connection, which nobody listens to.  *)
(***************************************************************************)
EXTENDS ReplayCache, FiniteSets

CONSTANTS
  Users,        \* users[]
  Names,        \* what --user may say
  Clients,      \* client programs, each started again and again
  Threads,      \* connections served at a time
  NoClient, NoUser,
  MaxSkew,      \* 300 in the code
  TICKET_TTL,
  MAX_CLIENTS,
  MaxTime,      \* bound on the clock
  MaxRepeats    \* bound on the lines that come again

ASSUME AuthenticationAssumption ==
  /\ Users \subseteq Names
  /\ NoClient \notin Clients
  /\ NoUser \notin Names
  /\ {MaxSkew, TICKET_TTL, MAX_CLIENTS, MaxTime, MaxRepeats} \subseteq Nat

VARIABLES
  now,      \* time(NULL) of the server
  client,   \* the client programs
  thread,   \* the server's threads
  sent,     \* the lines sent so far
  repeats,  \* how many came again
  tickets,  \* history: the tickets issued, in order
  logins    \* history: the slots of clients[] given, in order

vars == <<replays, replay_next, recorded, now, client, thread, sent, repeats,
          tickets, logins>>

\* long-term keys: 0 is the one users[] holds, 1 comes of another password;
\* the session key of the n-th ticket is n + 1
LongKey    == 0
WrongKey   == 1
SessionKey(n) == n + 1

NoTicket == [user |-> NoUser, expiry |-> 0, session |-> 0]
NoLine   == [kind |-> "none", user |-> NoUser, nonce |-> NoNonce, ts |-> 0,
             key |-> 0, ticket |-> NoTicket]
Idle     == [pc |-> "idle", line |-> NoLine, peer |-> NoClient]

Init ==
  /\ CacheInit
  /\ now = 0
  /\ client \in [Clients -> [pc : {"down"}, user : Names,
                             key : {LongKey, WrongKey}, line : {NoLine},
                             ticket : {NoTicket}]]
  /\ thread = [t \in Threads |-> Idle]
  /\ sent = {}
  /\ repeats = 0
  /\ tickets = <<>>
  /\ logins = <<>>

Tick ==
  /\ now < MaxTime
  /\ now' = now + 1
  /\ UNCHANGED <<replays, replay_next, recorded, client, thread, sent, repeats,
                 tickets, logins>>
-----------------------------------------------------------------------------
(* The client.  Its states: "down" - not running; "sent" - its line is not *)
(* read yet; "heard" - a thread works on it; "ticket" - the KDC answered;  *)
(* "in" - the chat server did.                                             *)

\* random_bytes: a nonce nobody has used
Fresh == Nonces \ {line.nonce : line \in sent}

Sends(c, line) ==
  /\ client' = [client EXCEPT ![c].pc = "sent", ![c].line = line]
  /\ sent' = sent \cup {line}
  /\ UNCHANGED <<replays, replay_next, recorded, now, thread, repeats, tickets,
                 logins>>

\* The program starts.  Its clock is its host's, not the server's.
authenticate_with_kdc(c) ==
  /\ client[c].pc = "down"
  /\ \E nonce \in Fresh, ts \in 0 .. MaxTime :
       Sends(c, [kind |-> "AUTH", user |-> client[c].user, nonce |-> nonce,
                 ts |-> ts, key |-> client[c].key, ticket |-> NoTicket])

connect_chat(c) ==
  /\ client[c].pc = "ticket"
  /\ \E nonce \in Fresh :
       Sends(c, [kind |-> "TICKET", user |-> client[c].user, nonce |-> nonce,
                 ts |-> 0, key |-> client[c].ticket.session,
                 ticket |-> client[c].ticket])

\* The program ends, whatever it was doing: its connection has no peer now.
leave(c) ==
  /\ client[c].pc # "down"
  /\ client' = [client EXCEPT ![c].pc = "down", ![c].line = NoLine,
                              ![c].ticket = NoTicket]
  /\ thread' = [t \in Threads |->
                  IF thread[t].peer = c
                  THEN [thread[t] EXCEPT !.peer = NoClient] ELSE thread[t]]
  /\ UNCHANGED <<replays, replay_next, recorded, now, sent, repeats, tickets,
                 logins>>
-----------------------------------------------------------------------------
(* The server's threads.                                                   *)

Goes(t, pc) == thread' = [thread EXCEPT ![t].pc = pc]

\* what the peer learns: its new state and the ticket it then holds
Tells(t, pc, ticket) ==
  client' = IF thread[t].peer = NoClient THEN client
            ELSE [client EXCEPT ![thread[t].peer].pc = pc,
                                ![thread[t].peer].line = NoLine,
                                ![thread[t].peer].ticket = ticket]

\* A faulty server: it closes nothing and says nothing.
NeverAnswers(t) == /\ thread' = [thread EXCEPT ![t] = Idle]
                   /\ UNCHANGED client

\* An ERR line and close, or close alone: the client exits on either.
Fails(t) == /\ thread' = [thread EXCEPT ![t] = Idle]
            /\ Tells(t, "down", NoTicket)

Reads(t, line, c) ==
  thread' = [thread EXCEPT ![t] = [pc |-> "look", line |-> line, peer |-> c]]

\* accept, pthread_create, recv_line
recv_line(t) ==
  /\ thread[t] = Idle
  /\ \E c \in Clients :
       /\ client[c].pc = "sent"
       /\ Reads(t, client[c].line, c)
       /\ client' = [client EXCEPT ![c].pc = "heard"]
  /\ UNCHANGED <<replays, replay_next, recorded, now, sent, repeats, tickets,
                 logins>>

\* the same of a line that comes a second time
recv_again(t) ==
  /\ thread[t] = Idle
  /\ repeats < MaxRepeats
  /\ repeats' = repeats + 1
  /\ \E line \in sent : Reads(t, line, NoClient)
  /\ UNCHANGED <<replays, replay_next, recorded, now, client, sent, tickets,
                 logins>>

\* find_user, of the KDC only: an unknown user's nonce is not recorded
find_user_fails(t) ==
  /\ thread[t].pc = "look"
  /\ thread[t].line.kind = "AUTH"
  /\ thread[t].line.user \notin Users
  /\ Fails(t)
  /\ UNCHANGED <<replays, replay_next, recorded, now, sent, repeats, tickets,
                 logins>>

Known(line) == line.kind = "AUTH" => line.user \in Users

\* Faulty servers: one records a nonce without a look at the ring, the other
\* goes on with a line whose nonce is there.
RecordsBlindly(t) ==
  /\ thread[t].pc = "look"
  /\ Known(thread[t].line)
  /\ replays' = [replays EXCEPT ![replay_next] = thread[t].line.nonce]
  /\ replay_next' = Following(replay_next)
  /\ recorded' = Append(recorded, thread[t].line.nonce)
  /\ Goes(t, "check")
  /\ UNCHANGED <<now, client, sent, repeats, tickets, logins>>

GoesOn(t) ==
  /\ thread[t].pc = "look"
  /\ Known(thread[t].line)
  /\ Refuse(thread[t].line.nonce)
  /\ Goes(t, "check")
  /\ UNCHANGED <<now, client, sent, repeats, tickets, logins>>

\* replay_seen_or_add: the nonce is recorded before anything is checked ...
record_nonce(t) ==
  /\ thread[t].pc = "look"
  /\ Known(thread[t].line)
  /\ Record(thread[t].line.nonce)
  /\ Goes(t, "check")
  /\ UNCHANGED <<now, client, sent, repeats, tickets, logins>>

\* ... unless it is there already
refuse_nonce(t) ==
  /\ thread[t].pc = "look"
  /\ Known(thread[t].line)
  /\ Refuse(thread[t].line.nonce)
  /\ Fails(t)
  /\ UNCHANGED <<now, sent, repeats, tickets, logins>>

Skew(a, b) == IF a > b THEN a - b ELSE b - a

\* A faulty server: the keyed hash is not compared.
TimeOnly(line) ==
  \/ line.kind = "AUTH" /\ Skew(now, line.ts) <= MaxSkew
  \/ line.kind = "TICKET" /\ line.ticket.expiry >= now

\* timestamp and HMAC of an AUTH line; expiry and HMAC of a TICKET line,
\* whose user is the ticket's
Valid(line) ==
  \/ /\ line.kind = "AUTH"
     /\ Skew(now, line.ts) <= MaxSkew
     /\ line.key = LongKey
  \/ /\ line.kind = "TICKET"
     /\ line.ticket.expiry >= now
     /\ line.key = line.ticket.session
     /\ line.user = line.ticket.user

pass_check(t) ==
  /\ thread[t].pc = "check"
  /\ Valid(thread[t].line)
  /\ Goes(t, IF thread[t].line.kind = "AUTH" THEN "issue" ELSE "slot")
  /\ UNCHANGED <<replays, replay_next, recorded, now, client, sent, repeats,
                 tickets, logins>>

fail_check(t) ==
  /\ thread[t].pc = "check"
  /\ ~Valid(thread[t].line)
  /\ Fails(t)
  /\ UNCHANGED <<replays, replay_next, recorded, now, sent, repeats, tickets,
                 logins>>

\* The clock is read again for the expiry.
issue_ticket(t) ==
  /\ thread[t].pc = "issue"
  /\ tickets' = Append(tickets, thread[t].line)
  /\ Tells(t, "ticket", [user |-> thread[t].line.user,
                         expiry |-> now + TICKET_TTL,
                         session |-> SessionKey(Len(tickets'))])
  /\ thread' = [thread EXCEPT ![t] = Idle]
  /\ UNCHANGED <<replays, replay_next, recorded, now, sent, repeats, logins>>

\* random_bytes or an encryption fails: "ERR internal"
issue_fails(t) ==
  /\ thread[t].pc = "issue"
  /\ Fails(t)
  /\ UNCHANGED <<replays, replay_next, recorded, now, sent, repeats, tickets,
                 logins>>

Serving(user) == {t \in Threads : /\ thread[t].pc = "serving"
                                  /\ thread[t].line.user = user}

SlotFor(user) ==
  /\ Serving(user) = {}
  /\ Cardinality({t \in Threads : thread[t].pc = "serving"}) < MAX_CLIENTS

client_slot_add(t) ==
  /\ thread[t].pc = "slot"
  /\ SlotFor(thread[t].line.user)
  /\ logins' = Append(logins, thread[t].line)
  /\ Goes(t, "serving")
  /\ Tells(t, "in", client[thread[t].peer].ticket)
  /\ UNCHANGED <<replays, replay_next, recorded, now, sent, repeats, tickets>>

client_slot_add_fails(t) ==
  /\ thread[t].pc = "slot"
  /\ ~SlotFor(thread[t].line.user)
  /\ Fails(t)
  /\ UNCHANGED <<replays, replay_next, recorded, now, sent, repeats, tickets,
                 logins>>

\* the loop of chat_client_thread ends with its peer
client_slot_remove(t) ==
  /\ thread[t].pc = "serving"
  /\ thread[t].peer = NoClient
  /\ thread' = [thread EXCEPT ![t] = Idle]
  /\ UNCHANGED <<replays, replay_next, recorded, now, client, sent, repeats,
                 tickets, logins>>

ThreadStep(t) ==
  \/ recv_line(t)      \/ find_user_fails(t)
  \/ record_nonce(t)   \/ refuse_nonce(t)
  \/ pass_check(t)     \/ fail_check(t)
  \/ issue_ticket(t)   \/ issue_fails(t)
  \/ client_slot_add(t) \/ client_slot_add_fails(t)
  \/ client_slot_remove(t)

Next ==
  \/ Tick
  \/ \E c \in Clients :
       authenticate_with_kdc(c) \/ connect_chat(c) \/ leave(c)
  \/ \E t \in Threads : ThreadStep(t) \/ recv_again(t)

Spec == Init /\ [][Next]_vars

\* Every thread runs; a client with a ticket uses it.  Nobody has to come, to
\* leave or to send anything twice.
Fairness == /\ \A t \in Threads : WF_vars(ThreadStep(t))
            /\ \A c \in Clients : WF_vars(connect_chat(c))

FairSpec == Spec /\ Fairness
-----------------------------------------------------------------------------
Tickets == [user : Names \cup {NoUser}, expiry : Nat, session : Nat]
Lines   == [kind : {"none", "AUTH", "TICKET"}, user : Names \cup {NoUser},
            nonce : Nonces \cup {NoNonce}, ts : Nat, key : Nat, ticket : Tickets]

ClientStates == [pc : {"down", "sent", "heard", "ticket", "in"}, user : Names,
                 key : {LongKey, WrongKey}, line : Lines, ticket : Tickets]
ThreadStates == [pc : {"idle", "look", "check", "issue", "slot", "serving"},
                 line : Lines, peer : Clients \cup {NoClient}]

TypeOK ==
  /\ CacheTypeOK
  /\ now \in 0 .. MaxTime
  /\ client \in [Clients -> ClientStates]
  /\ thread \in [Threads -> ThreadStates]
  /\ sent \subseteq Lines
  /\ repeats \in 0 .. MaxRepeats
  /\ tickets \in Seq(Lines)
  /\ logins \in Seq(Lines)

\* A line is accepted once for each time its nonce was put into the ring, on
\* whichever connections it comes: replay_seen_or_add lets one of two threads
\* through, and a nonce is never accepted that was not put there.
OncePerRecording ==
  \A nonce \in Nonces :
    LET Count(lines) == Cardinality({i \in DOMAIN lines : lines[i].nonce = nonce})
    IN  Count(tickets) + Count(logins)
          <= Cardinality({i \in DOMAIN recorded : recorded[i] = nonce})

\* Whoever gets a slot of clients[] holds a ticket that the KDC issued, to that
\* user, for a line made with the user's own password.
LoginBehindPassword ==
  \A i \in DOMAIN logins :
    \E j \in DOMAIN tickets : /\ logins[i].key = SessionKey(j)
                             /\ tickets[j].user = logins[i].user
                             /\ tickets[j].user \in Users
                             /\ tickets[j].key = LongKey

\* A client that waits gets an answer or its connection closed, however many
\* others log in and whatever is wrong with its line.
Answered ==
  \A c \in Clients :
    client[c].pc \in {"sent", "heard"} ~> client[c].pc \notin {"sent", "heard"}
=============================================================================
