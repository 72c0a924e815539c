------------------------- MODULE AuthenticationProofs -------------------------
(***************************************************************************)
(* For any number of clients, threads and lines that come again: the       *)
(* server uses its ring of nonces as ReplayCache says, the ring refuses    *)
(* every repeat among the last MAX_REPLAY, a line is accepted once for     *)
(* each time its nonce was recorded, and nobody gets a slot of clients[]   *)
(* but by a ticket issued for the user's own password.                     *)
(***************************************************************************)
EXTENDS Authentication, FiniteSetTheorems, TLAPS

-----------------------------------------------------------------------------
(* The ring, for every size and every set of nonces.  The invariant says   *)
(* which of the nonces recorded each slot holds: the slots hold the last   *)
(* MAX_REPLAY of them, so a nonce not found is none of these.              *)

\* the place in recorded of what slot s holds; none below 1
Place(s) ==
  IF s < replay_next THEN Len(recorded) - replay_next + 1 + s
                     ELSE Len(recorded) - replay_next + 1 + s - MAX_REPLAY

RingInv == \A s \in Slots : IF Place(s) >= 1 THEN replays[s] = recorded[Place(s)]
                                             ELSE replays[s] = NoNonce

CacheInv == CacheTypeOK /\ RingInv /\ RepeatWindow

\* The slot after one: the next, or the first again.
LEMMA FollowingSlot ==
  ASSUME NEW i \in Slots
  PROVE  /\ i + 1 < MAX_REPLAY => Following(i) = i + 1
         /\ i + 1 = MAX_REPLAY => Following(i) = 0
         /\ Following(i) \in Slots
BY CacheAssumption DEF Slots, Following

\* The slots hold the last MAX_REPLAY of the nonces recorded, all of them.
LEMMA LastAreHeld ==
  ASSUME CacheTypeOK, RingInv,
         NEW p \in 1 .. Len(recorded), p > Len(recorded) - MAX_REPLAY
  PROVE  \E s \in Slots : replays[s] = recorded[p]
<1> DEFINE b == p - Len(recorded) + replay_next - 1
           s == IF b >= 0 THEN b ELSE b + MAX_REPLAY
<1>1. Len(recorded) \in Nat
  BY DEF CacheTypeOK
<1>2. s \in Slots /\ Place(s) = p
  BY <1>1, CacheAssumption DEF CacheTypeOK, Slots, Place
<1>3. replays[s] = recorded[p]
  BY <1>2 DEF RingInv
<1> QED
  BY <1>2, <1>3

LEMMA CacheInitially == CacheInit => CacheInv
<1> SUFFICES ASSUME CacheInit PROVE CacheInv
  OBVIOUS
<1>1. CacheTypeOK /\ Len(recorded) = 0
  BY CacheAssumption DEF CacheInit, CacheTypeOK, Slots
<1>2. RingInv
  BY <1>1, CacheAssumption DEF CacheInit, RingInv, Place, Slots
<1>3. RepeatWindow
  BY <1>1 DEF RepeatWindow
<1> QED
  BY <1>1, <1>2, <1>3 DEF CacheInv

\* A nonce recorded goes to the slot of the oldest, and the others keep theirs.
LEMMA RecordKeeps ==
  ASSUME CacheInv, NEW nonce \in Nonces, Record(nonce)
  PROVE  CacheInv'
<1> USE DEF CacheInv
<1>1. /\ Len(recorded) \in Nat
      /\ recorded' \in Seq(Nonces)
      /\ Len(recorded') = Len(recorded) + 1
      /\ recorded'[Len(recorded) + 1] = nonce
      /\ \A p \in 1 .. Len(recorded) : recorded'[p] = recorded[p]
  BY DEF Record, CacheTypeOK
<1>2. CacheTypeOK'
  BY <1>1, FollowingSlot DEF Record, CacheTypeOK
<1>3. RingInv'
  <2> SUFFICES ASSUME NEW s \in Slots
               PROVE  IF Place(s)' >= 1 THEN replays'[s] = recorded'[Place(s)']
                                        ELSE replays'[s] = NoNonce
    BY DEF RingInv
  <2>1. CASE s = replay_next
    <3>1. Place(s)' = Len(recorded) + 1
      <4>1. /\ replay_next \in 0 .. MAX_REPLAY - 1
            /\ MAX_REPLAY \in Nat
            /\ replay_next' = Following(replay_next)
        BY <1>1, CacheAssumption DEF Record, CacheTypeOK, Slots
      <4>2. CASE replay_next + 1 < MAX_REPLAY
        <5>1. replay_next' = replay_next + 1
          BY <4>1, <4>2, FollowingSlot DEF CacheTypeOK
        <5> QED
          BY <1>1, <2>1, <4>1, <5>1 DEF Place
      <4>3. CASE replay_next + 1 = MAX_REPLAY
        <5>1. replay_next' = 0
          BY <4>1, <4>3, FollowingSlot DEF CacheTypeOK
        <5> QED
          BY <1>1, <2>1, <4>1, <4>3, <5>1 DEF Place
      <4> QED
        BY <4>1, <4>2, <4>3
    <3>2. replays'[s] = nonce
      BY <2>1 DEF Record, CacheTypeOK
    <3> QED
      BY <1>1, <3>1, <3>2
  <2>2. CASE s # replay_next
    <3>1. Place(s)' = Place(s) /\ Place(s) \in Int /\ Place(s) <= Len(recorded)
      <4>1. /\ replay_next \in 0 .. MAX_REPLAY - 1
            /\ s \in 0 .. MAX_REPLAY - 1
            /\ MAX_REPLAY \in Nat
            /\ Len(recorded') = Len(recorded) + 1
        BY <1>1, CacheAssumption DEF CacheTypeOK, Slots
      <4>2. CASE replay_next + 1 < MAX_REPLAY
        <5>1. replay_next' = replay_next + 1
          BY <4>2, FollowingSlot DEF Record, CacheTypeOK
        <5> QED
          BY <1>1, <2>2, <4>1, <5>1 DEF Place
      <4>3. CASE replay_next + 1 = MAX_REPLAY
        <5>1. replay_next' = 0
          BY <4>3, FollowingSlot DEF Record, CacheTypeOK
        <5> QED
          BY <1>1, <2>2, <4>1, <4>3, <5>1 DEF Place
      <4> QED
        BY <4>1, <4>2, <4>3
    <3>2. replays'[s] = replays[s]
      BY <2>2 DEF Record, CacheTypeOK
    <3>3. Place(s) >= 1 => recorded'[Place(s)] = recorded[Place(s)]
      BY <1>1, <3>1
    <3> QED
      BY <3>1, <3>2, <3>3 DEF RingInv
  <2> QED
    BY <2>1, <2>2
<1>4. RepeatWindow'
  <2> SUFFICES ASSUME NEW i \in 1 .. Len(recorded'), NEW j \in 1 .. Len(recorded'),
                      i < j, recorded'[i] = recorded'[j]
               PROVE  j - i > MAX_REPLAY
    BY DEF RepeatWindow
  <2>1. i \in 1 .. Len(recorded)
    BY <1>1
  <2>2. CASE j = Len(recorded) + 1
    <3>1. recorded[i] = nonce
      BY <1>1, <2>1, <2>2
    <3>2. ~(i > Len(recorded) - MAX_REPLAY)
      BY <2>1, <3>1, LastAreHeld DEF Record, Seen
    <3> QED
      BY <1>1, <2>1, <2>2, <3>2, CacheAssumption
  <2>3. CASE j # Len(recorded) + 1
    <3>1. j \in 1 .. Len(recorded)
      BY <1>1, <2>3
    <3> QED
      BY <1>1, <2>1, <3>1 DEF RepeatWindow
  <2> QED
    BY <2>2, <2>3
<1> QED
  BY <1>2, <1>3, <1>4

LEMMA CacheKeeps == CacheInv /\ [CacheNext]_cache => CacheInv'
<1> SUFFICES ASSUME CacheInv, [CacheNext]_cache PROVE CacheInv'
  OBVIOUS
<1>1. ASSUME NEW nonce \in Nonces, replay_seen_or_add(nonce) PROVE CacheInv'
  <2>1. CASE Record(nonce)
    BY <2>1, RecordKeeps
  <2>2. CASE UNCHANGED cache
    BY <2>2 DEF CacheInv, CacheTypeOK, RingInv, RepeatWindow, Place, cache
  <2> QED
    BY <1>1, <2>1, <2>2 DEF replay_seen_or_add, Refuse
<1>2. CASE UNCHANGED cache
  BY <1>2 DEF CacheInv, CacheTypeOK, RingInv, RepeatWindow, Place, cache
<1> QED
  BY <1>1, <1>2 DEF CacheNext

\* replay_seen_or_add, called by whatever threads in whatever order, takes no
\* repeat for new before MAX_REPLAY others came.
THEOREM RepeatsRefused == CacheSpec => []RepeatWindow
<1>1. CacheSpec => []CacheInv
  BY CacheInitially, CacheKeeps, PTL DEF CacheSpec
<1>2. CacheInv => RepeatWindow
  BY DEF CacheInv
<1> QED
  BY <1>1, <1>2, PTL
-----------------------------------------------------------------------------
(* The login.                                                              *)

\* a ticket the KDC issued, to the user it names
Issued(ticket) == \E j \in DOMAIN tickets : /\ ticket.session = SessionKey(j)
                                            /\ ticket.user = tickets[j].user

LineInv == \A line \in sent : /\ line.nonce \in Nonces
                              /\ line.kind = "TICKET" => Issued(line.ticket)

ClientInv == \A c \in Clients :
  /\ client[c].pc = "sent" => client[c].line \in sent
  /\ client[c].pc = "ticket" => Issued(client[c].ticket)

\* what a thread has found out about its line by the time it is where it is
Checked(t) ==
  LET line == thread[t].line IN
  /\ thread[t].pc # "idle" => line \in sent
  /\ thread[t].pc \in {"check", "issue"} => Known(line)
  /\ thread[t].pc = "issue" => line.kind = "AUTH" /\ line.key = LongKey
  /\ thread[t].pc = "slot" => /\ line.kind = "TICKET"
                              /\ line.key = line.ticket.session
                              /\ line.user = line.ticket.user

ThreadInv == \A t \in Threads : Checked(t)

TicketInv == \A j \in DOMAIN tickets : /\ tickets[j].user \in Users
                                       /\ tickets[j].key = LongKey

AInv == TypeOK /\ CacheInv /\ LineInv /\ ClientInv /\ ThreadInv /\ TicketInv
        /\ LoginBehindPassword

USE AuthenticationAssumption, CacheAssumption

LEMMA Constants ==
  /\ NoTicket \in Tickets /\ NoLine \in Lines
  /\ \A n \in Nat : SessionKey(n) \in Nat
  /\ LongKey \in Nat /\ WrongKey \in Nat
BY DEF NoTicket, NoLine, Tickets, Lines, SessionKey, LongKey, WrongKey

LEMMA AInitially == Init => AInv
<1> SUFFICES ASSUME Init PROVE AInv
  OBVIOUS
<1>1. CacheTypeOK /\ CacheInv
  BY CacheInitially DEF Init, CacheInv
<1>2. TypeOK
  BY <1>1, Constants DEF Init, TypeOK, Idle, ClientStates, ThreadStates
<1>3. LineInv /\ ClientInv /\ ThreadInv
  BY DEF Init, LineInv, ClientInv, ThreadInv, Checked, Idle
<1>4. TicketInv /\ LoginBehindPassword
  BY DEF Init, TicketInv, LoginBehindPassword
<1> QED
  BY <1>1, <1>2, <1>3, <1>4 DEF AInv

\* Whatever a thread does, the ring takes a step of its own or none.
LEMMA RingStep ==
  ASSUME AInv, [Next]_vars
  PROVE  [CacheNext]_cache
<1>1. ASSUME NEW t \in Threads, record_nonce(t) PROVE CacheNext
  <2>1. thread[t].line.nonce \in Nonces
    BY <1>1 DEF AInv, ThreadInv, Checked, LineInv, record_nonce
  <2> QED
    BY <1>1, <2>1 DEF record_nonce, CacheNext, replay_seen_or_add
<1>2. CASE UNCHANGED vars
  BY <1>2 DEF vars, cache
<1>3. CASE Tick
  BY <1>3 DEF Tick, cache
<1>4. ASSUME NEW c \in Clients, authenticate_with_kdc(c) \/ connect_chat(c) \/ leave(c)
      PROVE  UNCHANGED cache
  BY <1>4 DEF authenticate_with_kdc, connect_chat, leave, Sends, cache
<1>5. ASSUME NEW t \in Threads, ThreadStep(t) \/ recv_again(t), ~record_nonce(t)
      PROVE  UNCHANGED cache
  BY <1>5
  DEF ThreadStep, recv_line, recv_again, find_user_fails, refuse_nonce, Refuse,
      pass_check, fail_check, issue_ticket, issue_fails, client_slot_add,
      client_slot_add_fails, client_slot_remove, cache
<1> QED
  BY <1>1, <1>2, <1>3, <1>4, <1>5 DEF Next

\* What is known of one thread is known of the others still.
LEMMA OthersKept ==
  ASSUME ThreadInv, NEW t \in Threads, sent \subseteq sent', Checked(t)',
         \A u \in Threads \ {t} : thread'[u] = thread[u]
  PROVE  ThreadInv'
BY DEF ThreadInv, Checked, Known

\* A thread that ends has nothing to be known of.
LEMMA Ended ==
  ASSUME TypeOK, ThreadInv, NEW t \in Threads, UNCHANGED sent,
         thread' = [thread EXCEPT ![t] = Idle]
  PROVE  ThreadInv' /\ thread'[t] = Idle
<1>1. thread'[t] = Idle /\ \A u \in Threads \ {t} : thread'[u] = thread[u]
  BY DEF TypeOK
<1>2. Checked(t)'
  BY <1>1 DEF Checked, Idle
<1> QED
  BY <1>1, <1>2, OthersKept

\* An answer makes nobody's line unread, and a ticket held is the old or the
\* one told.
LEMMA Told ==
  ASSUME TypeOK, NEW t \in Threads, NEW pc \in {"down", "ticket", "in"},
         NEW ticket \in Tickets, Tells(t, pc, ticket)
  PROVE  /\ client' \in [Clients -> ClientStates]
         /\ \A c \in Clients : client'[c].pc = "sent" => client'[c] = client[c]
         /\ \A c \in Clients : client'[c].pc = "ticket" =>
              client'[c] = client[c] \/ (pc = "ticket" /\ client'[c].ticket = ticket)
<1>1. CASE thread[t].peer = NoClient
  BY <1>1 DEF Tells, TypeOK
<1>2. CASE thread[t].peer # NoClient
  <2>1. thread[t].peer \in Clients
    BY <1>2 DEF TypeOK, ThreadStates
  <2>2. client' = [client EXCEPT ![thread[t].peer].pc = pc,
                                 ![thread[t].peer].line = NoLine,
                                 ![thread[t].peer].ticket = ticket]
    BY <1>2 DEF Tells
  <2> DEFINE new == [client[thread[t].peer] EXCEPT !.pc = pc, !.line = NoLine,
                                                   !.ticket = ticket]
  <2>3. /\ \A c \in Clients \ {thread[t].peer} : client'[c] = client[c]
        /\ client'[thread[t].peer] = new
        /\ DOMAIN client' = Clients
        /\ client' = [c \in Clients |-> client'[c]]
    BY <2>1, <2>2 DEF TypeOK
  <2>4. new \in ClientStates /\ new.pc = pc /\ new.ticket = ticket
    BY <2>1, Constants DEF TypeOK, ClientStates
  <2>6. client' \in [Clients -> ClientStates]
    <3> HIDE DEF new
    <3> QED
      BY <2>1, <2>3, <2>4 DEF TypeOK
  <2>5. ASSUME NEW c \in Clients
        PROVE  /\ client'[c].pc = "sent" => client'[c] = client[c]
               /\ client'[c].pc = "ticket" =>
                    client'[c] = client[c] \/ (pc = "ticket" /\ client'[c].ticket = ticket)
    <3>1. CASE c = thread[t].peer
      BY <2>3, <2>4, <3>1
    <3>2. CASE c # thread[t].peer
      BY <2>3, <3>2
    <3> QED
      BY <3>1, <3>2
  <2> QED
    BY <2>5, <2>6
<1> QED
  BY <1>1, <1>2

\* What depends on lines, tickets and slots alone stays with them.
LEMMA HistoryKept ==
  ASSUME AInv, UNCHANGED <<sent, tickets, logins>>
  PROVE  /\ LineInv' /\ TicketInv' /\ LoginBehindPassword'
         /\ sent' \subseteq Lines /\ tickets' \in Seq(Lines) /\ logins' \in Seq(Lines)
BY DEF AInv, LineInv, TicketInv, LoginBehindPassword, Issued, TypeOK

LEMMA ClientsTold ==
  ASSUME AInv, NEW t \in Threads, NEW pc \in {"down", "in"},
         NEW ticket \in Tickets, Tells(t, pc, ticket), UNCHANGED sent,
         \A any \in Tickets : Issued(any) => Issued(any)'
  PROVE  client' \in [Clients -> ClientStates] /\ ClientInv'
<1>1. TypeOK /\ ClientInv
  BY DEF AInv
<1>2. \A c \in Clients : client[c] \in ClientStates
  BY <1>1 DEF TypeOK
<1>3. \A c \in Clients : client[c].ticket \in Tickets
  BY <1>2 DEF ClientStates
<1> QED
  BY <1>1, <1>3, Told DEF ClientInv

\* A thread that gives up leaves everything in order.
LEMMA FailsKeeps ==
  ASSUME AInv, NEW t \in Threads, Fails(t),
         UNCHANGED <<now, sent, repeats, tickets, logins>>, CacheTypeOK', CacheInv'
  PROVE  AInv'
<1>1. client' \in [Clients -> ClientStates] /\ ClientInv'
  <2>1. \A any \in Tickets : Issued(any) => Issued(any)'
    BY DEF Issued
  <2> QED
    BY <2>1, ClientsTold, Constants DEF Fails
<1>2. ThreadInv'
  BY Ended DEF AInv, Fails
<1>3. Idle \in ThreadStates
  BY Constants DEF Idle, ThreadStates
<1>4. thread' \in [Threads -> ThreadStates]
  BY <1>3 DEF AInv, TypeOK, Fails
<1>5. TypeOK'
  BY <1>1, <1>4, HistoryKept DEF TypeOK, AInv
<1> QED
  BY <1>1, <1>2, <1>5, HistoryKept DEF AInv

\* A thread that goes on does, when its line is as it should be there.
LEMMA GoesKeeps ==
  ASSUME AInv, NEW t \in Threads, thread[t].pc # "idle",
         NEW pc \in {"check", "issue", "slot", "serving"}, Goes(t, pc),
         UNCHANGED <<now, client, sent, repeats, tickets, logins>>,
         CacheTypeOK', CacheInv',
         pc \in {"check", "issue"} => Known(thread[t].line),
         pc = "issue" => thread[t].line.kind = "AUTH" /\ thread[t].line.key = LongKey,
         pc = "slot" => /\ thread[t].line.kind = "TICKET"
                        /\ thread[t].line.key = thread[t].line.ticket.session
                        /\ thread[t].line.user = thread[t].line.ticket.user
  PROVE  AInv'
<1>1. TypeOK /\ ThreadInv
  BY DEF AInv
<1> DEFINE new == [thread[t] EXCEPT !.pc = pc]
<1>2. /\ thread[t] \in ThreadStates
      /\ thread' = [thread EXCEPT ![t] = new]
  BY <1>1 DEF TypeOK, Goes
<1>3. new \in ThreadStates /\ new.pc = pc /\ new.line = thread[t].line
  BY <1>2 DEF ThreadStates
<1>4. thread'[t] = new /\ \A u \in Threads \ {t} : thread'[u] = thread[u]
  BY <1>1, <1>2 DEF TypeOK
<1>5. thread' \in [Threads -> ThreadStates]
  <2> HIDE DEF new
  <2> QED
    BY <1>1, <1>2, <1>3 DEF TypeOK
<1>6. Checked(t)'
  <2>1. thread[t].line \in sent
    BY <1>1 DEF ThreadInv, Checked
  <2> HIDE DEF new
  <2> QED
    BY <1>3, <1>4, <2>1 DEF Checked, Known
<1>7. ThreadInv'
  BY <1>1, <1>4, <1>6, OthersKept
<1>8. TypeOK' /\ ClientInv'
  BY <1>5, HistoryKept DEF TypeOK, AInv, ClientInv, Issued
<1> QED
  BY <1>7, <1>8, HistoryKept DEF AInv

\* A line sent is waited on by its client, and is the only new line.
LEMMA SendsKeeps ==
  ASSUME AInv, NEW c \in Clients, NEW line \in Lines, Sends(c, line),
         line.nonce \in Nonces, line.kind = "TICKET" => Issued(line.ticket),
         CacheTypeOK', CacheInv'
  PROVE  AInv'
<1>1. TypeOK /\ ClientInv /\ ThreadInv /\ client[c] \in ClientStates
  BY DEF AInv, TypeOK
<1> DEFINE new == [client[c] EXCEPT !.pc = "sent", !.line = line]
<1>2. new \in ClientStates /\ new.pc = "sent" /\ new.line = line
  BY <1>1 DEF ClientStates
<1>3. client' = [client EXCEPT ![c] = new]
  BY <1>1 DEF Sends, TypeOK
<1>4. client' \in [Clients -> ClientStates]
  <2> HIDE DEF new
  <2> QED
    BY <1>1, <1>2, <1>3 DEF TypeOK
<1>5. client'[c] = new /\ \A d \in Clients \ {c} : client'[d] = client[d]
  BY <1>1, <1>3 DEF TypeOK
<1>6. TypeOK'
  BY <1>1, <1>4 DEF TypeOK, Sends
<1>7. LineInv'
  BY DEF AInv, LineInv, Issued, Sends
<1>8. ClientInv'
  <2> HIDE DEF new
  <2>1. ASSUME NEW d \in Clients
        PROVE  /\ client'[d].pc = "sent" => client'[d].line \in sent'
               /\ client'[d].pc = "ticket" => Issued(client[d].ticket)'
    <3>1. CASE d = c
      BY <1>2, <1>5, <3>1 DEF Sends
    <3>2. CASE d # c
      <4>1. client'[d] = client[d] /\ sent \subseteq sent' /\ UNCHANGED tickets
        BY <1>5, <3>2 DEF Sends
      <4>2. /\ client[d].pc = "sent" => client[d].line \in sent
            /\ client[d].pc = "ticket" => Issued(client[d].ticket)
        BY <1>1 DEF ClientInv
      <4>3. Issued(client[d].ticket) => Issued(client[d].ticket)'
        BY <4>1 DEF Issued
      <4> QED
        BY <4>1, <4>2, <4>3
    <3> QED
      BY <3>1, <3>2
  <2> QED
    BY <2>1 DEF ClientInv
<1>9. ThreadInv'
  BY <1>1 DEF ThreadInv, Checked, Known, Sends
<1>10. TicketInv' /\ LoginBehindPassword'
  BY DEF AInv, TicketInv, LoginBehindPassword, Sends
<1> QED
  BY <1>6, <1>7, <1>8, <1>9, <1>10 DEF AInv

LEMMA AuthenticateKeeps ==
  ASSUME AInv, NEW c \in Clients, authenticate_with_kdc(c), CacheTypeOK', CacheInv'
  PROVE  AInv'
<1>1. PICK nonce \in Fresh, ts \in 0 .. MaxTime :
        Sends(c, [kind |-> "AUTH", user |-> client[c].user, nonce |-> nonce,
                  ts |-> ts, key |-> client[c].key, ticket |-> NoTicket])
  BY DEF authenticate_with_kdc
<1>2. client[c] \in ClientStates
  BY DEF AInv, TypeOK
<1>3. client[c].user \in Names /\ client[c].key \in Nat
  BY <1>2, Constants DEF ClientStates
<1>4. nonce \in Nonces /\ ts \in Nat
  BY <1>1 DEF Fresh
<1> DEFINE line == [kind |-> "AUTH", user |-> client[c].user, nonce |-> nonce,
                    ts |-> ts, key |-> client[c].key, ticket |-> NoTicket]
<1>5. line \in Lines /\ line.nonce \in Nonces /\ line.kind # "TICKET"
  BY <1>3, <1>4, Constants DEF Lines
<1>6. Sends(c, line)
  BY <1>1
<1> QED
  <2> HIDE DEF line
  <2> QED
    BY <1>5, <1>6, SendsKeeps

LEMMA ConnectKeeps ==
  ASSUME AInv, NEW c \in Clients, connect_chat(c), CacheTypeOK', CacheInv'
  PROVE  AInv'
<1>1. PICK nonce \in Fresh :
        Sends(c, [kind |-> "TICKET", user |-> client[c].user, nonce |-> nonce,
                  ts |-> 0, key |-> client[c].ticket.session,
                  ticket |-> client[c].ticket])
  BY DEF connect_chat
<1>2. client[c] \in ClientStates /\ Issued(client[c].ticket)
  BY DEF AInv, TypeOK, ClientInv, connect_chat
<1>3. /\ client[c].user \in Names /\ client[c].ticket \in Tickets
      /\ client[c].ticket.session \in Nat
  BY <1>2 DEF ClientStates, Tickets
<1>4. nonce \in Nonces
  BY <1>1 DEF Fresh
<1> DEFINE line == [kind |-> "TICKET", user |-> client[c].user, nonce |-> nonce,
                    ts |-> 0, key |-> client[c].ticket.session,
                    ticket |-> client[c].ticket]
<1>5. line \in Lines /\ line.nonce \in Nonces /\ line.ticket = client[c].ticket
  BY <1>3, <1>4 DEF Lines
<1>6. Sends(c, line) /\ Issued(line.ticket)
  BY <1>1, <1>2
<1> QED
  <2> HIDE DEF line
  <2> QED
    BY <1>5, <1>6, SendsKeeps

LEMMA LeaveKeeps ==
  ASSUME AInv, NEW c \in Clients, leave(c), CacheTypeOK', CacheInv'
  PROVE  AInv'
<1>1. TypeOK /\ ClientInv /\ ThreadInv /\ client[c] \in ClientStates
  BY DEF AInv, TypeOK
<1> DEFINE new == [client[c] EXCEPT !.pc = "down", !.line = NoLine,
                                    !.ticket = NoTicket]
<1>2. new \in ClientStates /\ new.pc = "down"
  BY <1>1, Constants DEF ClientStates
<1>3. client' = [client EXCEPT ![c] = new]
  BY <1>1 DEF leave, TypeOK
<1>4. client' \in [Clients -> ClientStates]
  <2> HIDE DEF new
  <2> QED
    BY <1>1, <1>2, <1>3 DEF TypeOK
<1>5. client'[c] = new /\ \A d \in Clients \ {c} : client'[d] = client[d]
  BY <1>1, <1>3 DEF TypeOK
<1>6. ClientInv'
  <2> HIDE DEF new
  <2>1. ASSUME NEW d \in Clients
        PROVE  /\ client'[d].pc = "sent" => client'[d].line \in sent'
               /\ client'[d].pc = "ticket" => Issued(client[d].ticket)'
    <3>1. CASE d = c
      BY <1>2, <1>5, <3>1 DEF leave
    <3>2. CASE d # c
      <4>1. client'[d] = client[d] /\ sent \subseteq sent' /\ UNCHANGED tickets
        BY <1>5, <3>2 DEF leave
      <4>2. /\ client[d].pc = "sent" => client[d].line \in sent
            /\ client[d].pc = "ticket" => Issued(client[d].ticket)
        BY <1>1 DEF ClientInv
      <4>3. Issued(client[d].ticket) => Issued(client[d].ticket)'
        BY <4>1 DEF Issued
      <4> QED
        BY <4>1, <4>2, <4>3
    <3> QED
      BY <3>1, <3>2
  <2> QED
    BY <2>1 DEF ClientInv
<1>7. \A t \in Threads : /\ thread'[t] \in ThreadStates
                         /\ thread'[t].pc = thread[t].pc
                         /\ thread'[t].line = thread[t].line
  <2> SUFFICES ASSUME NEW t \in Threads
               PROVE  /\ thread'[t] \in ThreadStates
                      /\ thread'[t].pc = thread[t].pc
                      /\ thread'[t].line = thread[t].line
    OBVIOUS
  <2>1. thread[t] \in ThreadStates
    BY <1>1 DEF TypeOK
  <2>2. thread'[t] = IF thread[t].peer = c
                     THEN [thread[t] EXCEPT !.peer = NoClient] ELSE thread[t]
    BY DEF leave
  <2> QED
    BY <2>1, <2>2 DEF ThreadStates
<1>8. thread' \in [Threads -> ThreadStates]
  BY <1>7 DEF leave
<1>9. ThreadInv'
  BY <1>1, <1>7 DEF ThreadInv, Checked, Known, leave
<1>10. UNCHANGED <<sent, tickets, logins, now, repeats>>
  BY DEF leave
<1>11. TypeOK'
  BY <1>1, <1>4, <1>8, <1>10 DEF TypeOK
<1> QED
  BY <1>6, <1>9, <1>10, <1>11, HistoryKept DEF AInv

\* A thread that takes a line knows nothing of it but that it was sent.
LEMMA ReadsKeeps ==
  ASSUME AInv, NEW t \in Threads, NEW line \in sent,
         NEW c \in Clients \cup {NoClient}, Reads(t, line, c),
         UNCHANGED <<now, sent, tickets, logins>>, repeats' \in 0 .. MaxRepeats,
         client' \in [Clients -> ClientStates], ClientInv', CacheTypeOK', CacheInv'
  PROVE  AInv'
<1> DEFINE new == [pc |-> "look", line |-> line, peer |-> c]
<1>1. TypeOK /\ ThreadInv /\ new \in ThreadStates
  BY DEF AInv, TypeOK, ThreadStates
<1>2. thread' = [thread EXCEPT ![t] = new]
  BY DEF Reads
<1>3. /\ thread' \in [Threads -> ThreadStates]
      /\ thread'[t] = new
      /\ \A u \in Threads \ {t} : thread'[u] = thread[u]
  BY <1>1, <1>2 DEF TypeOK
<1>4. Checked(t)'
  BY <1>3 DEF Checked
<1>5. ThreadInv'
  BY <1>1, <1>3, <1>4, OthersKept
<1>6. TypeOK'
  BY <1>1, <1>3, HistoryKept DEF TypeOK
<1> QED
  BY <1>5, <1>6, HistoryKept DEF AInv

LEMMA RecvLineKeeps ==
  ASSUME AInv, NEW t \in Threads, recv_line(t), CacheTypeOK', CacheInv'
  PROVE  AInv'
<1>1. PICK c \in Clients : /\ client[c].pc = "sent"
                           /\ Reads(t, client[c].line, c)
                           /\ client' = [client EXCEPT ![c].pc = "heard"]
  BY DEF recv_line
<1>2. TypeOK /\ ClientInv /\ client[c].line \in sent /\ client[c] \in ClientStates
  BY <1>1 DEF AInv, ClientInv, TypeOK
<1> DEFINE new == [client[c] EXCEPT !.pc = "heard"]
<1>3. new \in ClientStates /\ new.pc = "heard"
  BY <1>2 DEF ClientStates
<1>4. client' = [client EXCEPT ![c] = new]
  BY <1>1, <1>2 DEF TypeOK
<1>5. /\ client' \in [Clients -> ClientStates]
      /\ client'[c] = new
      /\ \A d \in Clients \ {c} : client'[d] = client[d]
  <2> HIDE DEF new
  <2> QED
    BY <1>2, <1>3, <1>4 DEF TypeOK
<1>6. UNCHANGED <<now, sent, tickets, logins, repeats>>
  BY DEF recv_line
<1>7. ClientInv'
  <2> HIDE DEF new
  <2>1. ASSUME NEW d \in Clients
        PROVE  /\ client'[d].pc = "sent" => client'[d].line \in sent'
               /\ client'[d].pc = "ticket" => Issued(client[d].ticket)'
    <3>1. CASE d = c
      BY <1>3, <1>5, <3>1
    <3>2. CASE d # c
      BY <1>2, <1>5, <1>6, <3>2 DEF ClientInv, Issued
    <3> QED
      BY <3>1, <3>2
  <2> QED
    BY <2>1 DEF ClientInv
<1> QED
  BY <1>1, <1>2, <1>5, <1>6, <1>7, ReadsKeeps DEF TypeOK

LEMMA RecvAgainKeeps ==
  ASSUME AInv, NEW t \in Threads, recv_again(t), CacheTypeOK', CacheInv'
  PROVE  AInv'
<1>1. PICK line \in sent : Reads(t, line, NoClient)
  BY DEF recv_again
<1>2. UNCHANGED <<now, client, sent, tickets, logins>> /\ repeats' \in 0 .. MaxRepeats
  BY DEF recv_again, AInv, TypeOK
<1>3. client' \in [Clients -> ClientStates] /\ ClientInv'
  BY <1>2 DEF AInv, TypeOK, ClientInv, Issued
<1> QED
  BY <1>1, <1>2, <1>3, ReadsKeeps

\* The ticket told is the one just issued.
LEMMA IssueKeeps ==
  ASSUME AInv, NEW t \in Threads, issue_ticket(t), CacheTypeOK', CacheInv'
  PROVE  AInv'
<1> DEFINE new == [user |-> thread[t].line.user, expiry |-> now + TICKET_TTL,
                   session |-> SessionKey(Len(tickets'))]
           line == thread[t].line
<1>1. TypeOK /\ ThreadInv /\ ClientInv /\ LineInv /\ TicketInv /\ LoginBehindPassword
  BY DEF AInv
<1>2. /\ line \in Lines /\ line \in sent
      /\ line.user \in Users /\ line.key = LongKey
  <2>1. thread[t] \in ThreadStates
    BY <1>1 DEF TypeOK
  <2> QED
    BY <1>1, <2>1
    DEF ThreadInv, Checked, issue_ticket, Known, ThreadStates
<1>3. /\ tickets' = Append(tickets, line)
      /\ tickets' \in Seq(Lines)
      /\ Len(tickets') = Len(tickets) + 1
      /\ DOMAIN tickets' = 1 .. Len(tickets')
      /\ tickets'[Len(tickets')] = line
      /\ Len(tickets') \in DOMAIN tickets'
      /\ Len(tickets') \in Nat
      /\ \A j \in DOMAIN tickets : j \in DOMAIN tickets' /\ tickets'[j] = tickets[j]
      /\ \A j \in DOMAIN tickets' : j \in DOMAIN tickets \/ j = Len(tickets')
  <2> HIDE DEF line
  <2>1. tickets' = Append(tickets, line)
    BY DEF issue_ticket, line
  <2> QED
    BY <1>1, <1>2, <2>1 DEF TypeOK
<1>4. new \in Tickets /\ \A any \in Tickets : any = new => Issued(any)'
  <2>1. new \in Tickets
    <3>1. line.user \in Names
      BY <1>2
    <3>2. now + TICKET_TTL \in Nat /\ SessionKey(Len(tickets')) \in Nat
      BY <1>1, <1>3, Constants DEF TypeOK
    <3> HIDE DEF line
    <3> QED
      BY <3>1, <3>2 DEF Tickets, line
  <2>2. new.session = SessionKey(Len(tickets')) /\ new.user = line.user
    OBVIOUS
  <2>3. tickets'[Len(tickets')].user = line.user
    BY <1>3
  <2> HIDE DEF new, line
  <2>4. ASSUME NEW any \in Tickets, any = new PROVE Issued(any)'
    BY <1>3, <2>2, <2>3, <2>4 DEF Issued
  <2> QED
    BY <2>1, <2>4
<1>5. \A any \in Tickets : Issued(any) => Issued(any)'
  BY <1>3 DEF Issued
<1>6. UNCHANGED <<now, sent, repeats, logins>> /\ thread' = [thread EXCEPT ![t] = Idle]
  BY DEF issue_ticket
<1>7. Tells(t, "ticket", new)
  BY DEF issue_ticket
<1>8. client' \in [Clients -> ClientStates] /\ ClientInv'
  <2> HIDE DEF new
  <2>1. \A c \in Clients : client[c].ticket \in Tickets
    <3>1. \A c \in Clients : client[c] \in ClientStates
      BY <1>1 DEF TypeOK
    <3> QED
      BY <3>1 DEF ClientStates
  <2>2. /\ client' \in [Clients -> ClientStates]
        /\ \A c \in Clients : client'[c].pc = "sent" => client'[c] = client[c]
        /\ \A c \in Clients : client'[c].pc = "ticket" =>
             client'[c] = client[c] \/ client'[c].ticket = new
    BY <1>1, <1>4, <1>7, Told
  <2>3. ASSUME NEW c \in Clients
        PROVE  /\ client'[c].pc = "sent" => client'[c].line \in sent'
               /\ client'[c].pc = "ticket" => Issued(client[c].ticket)'
    <3>1. client'[c].pc = "sent" => client'[c].line \in sent'
      BY <1>1, <1>6, <2>2 DEF ClientInv
    <3>2. ASSUME NEW any \in Tickets, any = client'[c].ticket,
                 client'[c].pc = "ticket"
          PROVE  Issued(any)'
      <4>1. any = new \/ Issued(any)
        BY <1>1, <2>2, <3>2 DEF ClientInv
      <4> QED
        BY <1>4, <1>5, <4>1
    <3>3. client'[c].ticket \in Tickets
      BY <2>2 DEF ClientStates
    <3> QED
      BY <3>1, <3>2, <3>3
  <2> QED
    BY <2>2, <2>3 DEF ClientInv
<1>9. ThreadInv' /\ thread' \in [Threads -> ThreadStates]
  <2>1. Idle \in ThreadStates
    BY Constants DEF Idle, ThreadStates
  <2> QED
    BY <1>1, <1>6, <2>1, Ended DEF TypeOK
<1>10. TypeOK'
  BY <1>1, <1>3, <1>6, <1>8, <1>9 DEF TypeOK
<1>11. LineInv'
  <2>1. \A l \in sent : l.ticket \in Tickets
    BY <1>1 DEF TypeOK, Lines
  <2> QED
    BY <1>1, <1>5, <1>6, <2>1 DEF LineInv
<1>12. TicketInv' /\ LoginBehindPassword'
  <2> HIDE DEF line
  <2> QED
    BY <1>1, <1>2, <1>3, <1>6 DEF TicketInv, LoginBehindPassword
<1> QED
  BY <1>8, <1>9, <1>10, <1>11, <1>12 DEF AInv

\* The slot goes to the user of a ticket that was issued.
LEMMA SlotAddKeeps ==
  ASSUME AInv, NEW t \in Threads, client_slot_add(t), CacheTypeOK', CacheInv'
  PROVE  AInv'
<1> DEFINE line == thread[t].line
           new == [thread[t] EXCEPT !.pc = "serving"]
<1>1. TypeOK /\ ThreadInv /\ ClientInv /\ LineInv /\ TicketInv /\ LoginBehindPassword
  BY DEF AInv
<1>2. UNCHANGED <<now, sent, repeats, tickets>>
  BY DEF client_slot_add
<1>3. thread[t] \in ThreadStates /\ line \in Lines /\ line \in sent
  <2>1. thread[t] \in ThreadStates
    BY <1>1 DEF TypeOK
  <2> QED
    BY <1>1, <2>1 DEF ThreadStates, ThreadInv, Checked, client_slot_add
<1>4. PICK j \in DOMAIN tickets : /\ line.key = SessionKey(j)
                                  /\ tickets[j].user = line.user
                                  /\ tickets[j].user \in Users
                                  /\ tickets[j].key = LongKey
  <2>1. line.kind = "TICKET" /\ line.key = line.ticket.session
        /\ line.user = line.ticket.user
    BY <1>1 DEF ThreadInv, Checked, client_slot_add
  <2>2. Issued(line.ticket)
    BY <1>1, <1>3, <2>1 DEF LineInv
  <2> HIDE DEF line
  <2> QED
    BY <1>1, <2>1, <2>2 DEF Issued, TicketInv
<1>5. /\ logins' = Append(logins, line)
      /\ logins' \in Seq(Lines)
      /\ \A i \in DOMAIN logins' : \/ i \in DOMAIN logins /\ logins'[i] = logins[i]
                                   \/ logins'[i] = line
  <2> HIDE DEF line
  <2>1. logins' = Append(logins, line)
    BY DEF client_slot_add, line
  <2> QED
    BY <1>1, <1>3, <2>1 DEF TypeOK
<1>6. LoginBehindPassword'
  <2> HIDE DEF line
  <2> QED
    BY <1>1, <1>2, <1>4, <1>5 DEF LoginBehindPassword
<1>7. client' \in [Clients -> ClientStates] /\ ClientInv'
  <2>1. CASE thread[t].peer = NoClient
    <3>1. UNCHANGED client
      BY <2>1 DEF client_slot_add, Tells
    <3> QED
      BY <1>1, <1>2, <3>1 DEF TypeOK, ClientInv, Issued
  <2>2. CASE thread[t].peer # NoClient
    <3>1. thread[t].peer \in Clients
      BY <1>3, <2>2 DEF ThreadStates
    <3>2. client[thread[t].peer].ticket \in Tickets
      BY <1>1, <3>1 DEF TypeOK, ClientStates
    <3>3. \A any \in Tickets : Issued(any) => Issued(any)'
      BY <1>2 DEF Issued
    <3>4. Tells(t, "in", client[thread[t].peer].ticket)
      BY DEF client_slot_add
    <3> QED
      BY <1>2, <3>2, <3>3, <3>4, ClientsTold
  <2> QED
    BY <2>1, <2>2
<1>8. thread' = [thread EXCEPT ![t] = new]
  BY <1>1 DEF client_slot_add, Goes, TypeOK
<1>9. new \in ThreadStates /\ new.pc = "serving" /\ new.line = line
  BY <1>3 DEF ThreadStates
<1>10. /\ thread' \in [Threads -> ThreadStates]
       /\ thread'[t] = new
       /\ \A u \in Threads \ {t} : thread'[u] = thread[u]
  <2> HIDE DEF new
  <2> QED
    BY <1>1, <1>8, <1>9 DEF TypeOK
<1>11. ThreadInv'
  <2> HIDE DEF new
  <2>1. Checked(t)'
    BY <1>2, <1>3, <1>9, <1>10 DEF Checked
  <2> QED
    BY <1>1, <1>2, <1>10, <2>1, OthersKept
<1>12. TypeOK'
  BY <1>1, <1>2, <1>5, <1>7, <1>10 DEF TypeOK
<1>13. LineInv' /\ TicketInv'
  BY <1>1, <1>2 DEF LineInv, Issued, TicketInv
<1> QED
  BY <1>6, <1>7, <1>11, <1>12, <1>13 DEF AInv

LEMMA SlotRemoveKeeps ==
  ASSUME AInv, NEW t \in Threads, client_slot_remove(t), CacheTypeOK', CacheInv'
  PROVE  AInv'
<1>1. /\ UNCHANGED <<now, client, sent, repeats, tickets, logins>>
      /\ thread' = [thread EXCEPT ![t] = Idle]
  BY DEF client_slot_remove
<1>2. ThreadInv'
  BY <1>1, Ended DEF AInv
<1>3. Idle \in ThreadStates
  BY Constants DEF Idle, ThreadStates
<1>4. TypeOK' /\ ClientInv'
  BY <1>1, <1>3, HistoryKept DEF AInv, TypeOK, ClientInv, Issued
<1> QED
  BY <1>1, <1>2, <1>4, HistoryKept DEF AInv

LEMMA RecordNonceKeeps ==
  ASSUME AInv, NEW t \in Threads, record_nonce(t), CacheTypeOK', CacheInv'
  PROVE  AInv'
<1>1. /\ UNCHANGED <<now, client, sent, repeats, tickets, logins>>
      /\ Goes(t, "check") /\ Known(thread[t].line) /\ thread[t].pc # "idle"
  BY DEF record_nonce
<1> QED
  BY <1>1, GoesKeeps

LEMMA PassCheckKeeps ==
  ASSUME AInv, NEW t \in Threads, pass_check(t), CacheTypeOK', CacheInv'
  PROVE  AInv'
<1>1. /\ UNCHANGED <<now, client, sent, repeats, tickets, logins>>
      /\ thread[t].pc = "check" /\ Valid(thread[t].line)
  BY DEF pass_check
<1>2. Known(thread[t].line)
  BY <1>1 DEF AInv, ThreadInv, Checked
<1>3. CASE thread[t].line.kind = "AUTH"
  <2>1. Goes(t, "issue") /\ thread[t].line.key = LongKey
    BY <1>1, <1>3 DEF pass_check, Valid
  <2> QED
    BY <1>1, <1>2, <1>3, <2>1, GoesKeeps
<1>4. CASE thread[t].line.kind # "AUTH"
  <2>1. /\ Goes(t, "slot") /\ thread[t].line.kind = "TICKET"
        /\ thread[t].line.key = thread[t].line.ticket.session
        /\ thread[t].line.user = thread[t].line.ticket.user
    BY <1>1, <1>4 DEF pass_check, Valid
  <2> QED
    BY <1>1, <1>2, <2>1, GoesKeeps
<1> QED
  BY <1>3, <1>4

LEMMA AKeeps == AInv /\ [Next]_vars => AInv'
<1> SUFFICES ASSUME AInv, [Next]_vars PROVE AInv'
  OBVIOUS
<1>1. CacheTypeOK' /\ CacheInv'
  BY RingStep, CacheKeeps DEF AInv, CacheInv
<1>2. CASE UNCHANGED vars
  BY <1>1, <1>2
  DEF vars, AInv, TypeOK, LineInv, ClientInv, ThreadInv, Checked, Known, Issued,
      TicketInv, LoginBehindPassword
<1>3. CASE Tick
  <2>1. now' \in 0 .. MaxTime /\ UNCHANGED <<client, thread, sent, repeats, tickets, logins>>
    BY <1>3 DEF Tick, AInv, TypeOK
  <2>2. TypeOK'
    BY <1>1, <2>1 DEF AInv, TypeOK
  <2>3. ClientInv' /\ ThreadInv'
    BY <2>1 DEF AInv, ClientInv, ThreadInv, Checked, Known, Issued
  <2> QED
    BY <1>1, <2>1, <2>2, <2>3, HistoryKept DEF AInv
<1>4. ASSUME NEW c \in Clients, authenticate_with_kdc(c) \/ connect_chat(c) \/ leave(c)
      PROVE  AInv'
  BY <1>1, <1>4, AuthenticateKeeps, ConnectKeeps, LeaveKeeps
<1>5. ASSUME NEW t \in Threads, ThreadStep(t) \/ recv_again(t)
      PROVE  AInv'
  <2>1. CASE find_user_fails(t) \/ refuse_nonce(t) \/ fail_check(t) \/ issue_fails(t)
             \/ client_slot_add_fails(t)
    BY <1>1, <2>1, FailsKeeps
    DEF find_user_fails, refuse_nonce, fail_check, issue_fails, client_slot_add_fails
  <2>2. CASE recv_line(t) \/ recv_again(t) \/ record_nonce(t) \/ pass_check(t)
    BY <1>1, <2>2, RecvLineKeeps, RecvAgainKeeps, RecordNonceKeeps, PassCheckKeeps
  <2>3. CASE issue_ticket(t) \/ client_slot_add(t) \/ client_slot_remove(t)
    BY <1>1, <2>3, IssueKeeps, SlotAddKeeps, SlotRemoveKeeps
  <2> QED
    BY <1>5, <2>1, <2>2, <2>3 DEF ThreadStep
<1> QED
  BY <1>2, <1>3, <1>4, <1>5 DEF Next

LEMMA AInvariance == Spec => []AInv
BY AInitially, AKeeps, PTL DEF Spec

\* Every state of the login has the types the module gives its variables.
THEOREM LoginTypes == Spec => []TypeOK
<1>1. AInv => TypeOK
  BY DEF AInv
<1> QED
  BY <1>1, AInvariance, PTL

\* The threads of both servers use the ring as ReplayCache says: the login
\* implements it, and what is proved of the ring holds of the login.
THEOREM RingIsUsed == Spec => CacheSpec
<1>1. Init => CacheInit
  BY DEF Init
<1>2. AInv /\ [Next]_vars => [CacheNext]_cache
  BY RingStep
<1> QED
  BY <1>1, <1>2, AInvariance, PTL DEF Spec, CacheSpec

\* However the threads interleave, no repeat is taken for new before
\* MAX_REPLAY other nonces came.
THEOREM LoginRefusesRepeats == Spec => []RepeatWindow
BY RingIsUsed, RepeatsRefused, PTL

\* A slot of clients[] goes to the user of a ticket that was issued for a line
\* made with that user's password.
THEOREM PasswordNeeded == Spec => []LoginBehindPassword
<1>1. AInv => LoginBehindPassword
  BY DEF AInv
<1> QED
  BY <1>1, AInvariance, PTL
-----------------------------------------------------------------------------
(* A line is accepted once for each time its nonce was recorded.  A thread *)
(* that recorded a nonce owes it until it accepts its line or gives up, so *)
(* the invariant counts these threads with the lines accepted.             *)

\* the lines of a history, and the places of the ring's, with a nonce
LinesOf(lines, nonce) == {i \in DOMAIN lines : lines[i].nonce = nonce}
RecordsOf(nonce)      == {i \in DOMAIN recorded : recorded[i] = nonce}

\* the threads that recorded it and have not accepted or given up their line
Passing(nonce) == {t \in Threads : /\ thread[t].pc \in {"check", "issue", "slot"}
                                   /\ thread[t].line.nonce = nonce}

Within(nonce) ==
  /\ IsFiniteSet(Passing(nonce))
  /\ Cardinality(LinesOf(tickets, nonce)) + Cardinality(LinesOf(logins, nonce))
       + Cardinality(Passing(nonce)) <= Cardinality(RecordsOf(nonce))

OnceInv == AInv /\ \A nonce \in Nonces : Within(nonce)

LEMMA IndicesFinite == ASSUME NEW n \in Nat PROVE IsFiniteSet(1 .. n)
<1>1. 1 \in Int /\ n \in Int
  OBVIOUS
<1> QED
  BY <1>1, FS_Interval, Zenon

\* The indices of a sequence that are picked are finitely many, and a new
\* last element adds one or none.
LEMMA PickedAppend ==
  ASSUME NEW S, NEW seq \in Seq(S), NEW x \in S,
         NEW I \in SUBSET DOMAIN seq, NEW J \in SUBSET DOMAIN Append(seq, x),
         J = I \/ J = I \cup {Len(seq) + 1}
  PROVE  /\ IsFiniteSet(I) /\ IsFiniteSet(J)
         /\ Cardinality(I) \in Nat /\ Cardinality(J) \in Nat
         /\ J = I => Cardinality(J) = Cardinality(I)
         /\ J = I \cup {Len(seq) + 1} => Cardinality(J) = Cardinality(I) + 1
<1>1. Len(seq) \in Nat /\ DOMAIN seq = 1 .. Len(seq)
  OBVIOUS
<1>2. IsFiniteSet(I)
  <2>1. IsFiniteSet(1 .. Len(seq))
    BY <1>1, IndicesFinite
  <2> QED
    BY <1>1, <2>1, FS_Subset
<1>3. Len(seq) + 1 \notin I
  BY <1>1
<1>4. IsFiniteSet(J)
  BY <1>2, FS_AddElement
<1>5. J = I \cup {Len(seq) + 1} => Cardinality(J) = Cardinality(I) + 1
  BY <1>2, <1>3, FS_AddElement
<1> QED
  BY <1>2, <1>4, <1>5, FS_CardinalityType

\* A line more in a history counts for its own nonce.
LEMMA LinesAppend ==
  ASSUME NEW lines \in Seq(Lines), NEW line \in Lines, NEW nonce
  PROVE  /\ Cardinality(LinesOf(lines, nonce)) \in Nat
         /\ Cardinality(LinesOf(Append(lines, line), nonce)) =
              IF line.nonce = nonce THEN Cardinality(LinesOf(lines, nonce)) + 1
                                    ELSE Cardinality(LinesOf(lines, nonce))
<1> DEFINE I == LinesOf(lines, nonce)
           J == LinesOf(Append(lines, line), nonce)
<1>1. /\ Append(lines, line) \in Seq(Lines)
      /\ DOMAIN Append(lines, line) = DOMAIN lines \cup {Len(lines) + 1}
      /\ \A i \in DOMAIN lines : Append(lines, line)[i] = lines[i]
      /\ Append(lines, line)[Len(lines) + 1] = line
      /\ Len(lines) + 1 \notin DOMAIN lines
  OBVIOUS
<1>2. I \in SUBSET DOMAIN lines /\ J \in SUBSET DOMAIN Append(lines, line)
  BY DEF LinesOf
<1>3. J = IF line.nonce = nonce THEN I \cup {Len(lines) + 1} ELSE I
  BY <1>1 DEF LinesOf
<1> HIDE DEF I, J
<1>4. J = I \/ J = I \cup {Len(lines) + 1}
  BY <1>3
<1>5. /\ Cardinality(I) \in Nat
      /\ J = I => Cardinality(J) = Cardinality(I)
      /\ J = I \cup {Len(lines) + 1} => Cardinality(J) = Cardinality(I) + 1
  BY <1>2, <1>4, PickedAppend
<1> QED
  BY <1>3, <1>5 DEF I, J

\* The numbers of the invariant are numbers.
LEMMA Numbers ==
  ASSUME AInv, NEW nonce \in Nonces, Within(nonce)
  PROVE  /\ Cardinality(LinesOf(tickets, nonce)) \in Nat
         /\ Cardinality(LinesOf(logins, nonce)) \in Nat
         /\ Cardinality(Passing(nonce)) \in Nat
         /\ IsFiniteSet(RecordsOf(nonce))
         /\ Cardinality(RecordsOf(nonce)) \in Nat
<1>1. tickets \in Seq(Lines) /\ logins \in Seq(Lines) /\ recorded \in Seq(Nonces)
  BY DEF AInv, TypeOK, CacheTypeOK
<1>2. NoLine \in Lines
  BY Constants
<1>3. DOMAIN recorded = 1 .. Len(recorded) /\ Len(recorded) \in Nat
  BY <1>1
<1>4. RecordsOf(nonce) \in SUBSET (1 .. Len(recorded))
  BY <1>3 DEF RecordsOf
<1>5. IsFiniteSet(RecordsOf(nonce))
  <2>1. IsFiniteSet(1 .. Len(recorded))
    BY <1>3, IndicesFinite
  <2> QED
    BY <1>4, <2>1, FS_Subset
<1> QED
  BY <1>1, <1>2, <1>5, LinesAppend, FS_CardinalityType DEF Within

\* A step that accepts nothing and records nothing lets threads give up.
LEMMA NothingAccepted ==
  ASSUME OnceInv, NEW nonce \in Nonces, UNCHANGED <<recorded, tickets, logins>>,
         Passing(nonce)' \subseteq Passing(nonce)
  PROVE  Within(nonce)'
<1>1. AInv /\ Within(nonce)
  BY DEF OnceInv
<1>2. /\ IsFiniteSet(Passing(nonce)')
      /\ Cardinality(Passing(nonce)') <= Cardinality(Passing(nonce))
      /\ Cardinality(Passing(nonce)') \in Nat
  BY <1>1, FS_Subset, FS_CardinalityType DEF Within
<1>3. /\ LinesOf(tickets, nonce)' = LinesOf(tickets, nonce)
      /\ LinesOf(logins, nonce)' = LinesOf(logins, nonce)
      /\ RecordsOf(nonce)' = RecordsOf(nonce)
  BY DEF LinesOf, RecordsOf
<1> QED
  BY <1>1, <1>2, <1>3, Numbers DEF Within

\* A nonce recorded: one thread more owes it, and it is recorded once more.
LEMMA RecordsOnce ==
  ASSUME OnceInv, NEW nonce \in Nonces, NEW t \in Threads, record_nonce(t)
  PROVE  Within(nonce)'
<1> DEFINE mine == thread[t].line.nonce
<1>1. AInv /\ Within(nonce) /\ TypeOK
  BY DEF OnceInv, AInv
<1>2. /\ thread[t].pc = "look"
      /\ recorded' = Append(recorded, mine)
      /\ thread' = [thread EXCEPT ![t].pc = "check"]
      /\ UNCHANGED <<tickets, logins>>
  BY DEF record_nonce, Record, Goes
<1>3. mine \in Nonces /\ recorded \in Seq(Nonces)
  BY <1>1, <1>2 DEF AInv, ThreadInv, Checked, LineInv, TypeOK, CacheTypeOK
<1>4. /\ thread[t] \in ThreadStates
      /\ thread'[t].pc = "check" /\ thread'[t].line.nonce = mine
      /\ \A u \in Threads \ {t} : thread'[u] = thread[u]
  BY <1>1, <1>2 DEF TypeOK, ThreadStates
<1>5. /\ LinesOf(tickets, nonce)' = LinesOf(tickets, nonce)
      /\ LinesOf(logins, nonce)' = LinesOf(logins, nonce)
  BY <1>2 DEF LinesOf
<1>6. CASE mine = nonce
  <2>1. Passing(nonce)' = Passing(nonce) \cup {t} /\ t \notin Passing(nonce)
    BY <1>2, <1>4, <1>6 DEF Passing
  <2>2. /\ IsFiniteSet(Passing(nonce)')
        /\ Cardinality(Passing(nonce)') = Cardinality(Passing(nonce)) + 1
    BY <1>1, <2>1, FS_AddElement DEF Within
  <2>3. RecordsOf(nonce)' = RecordsOf(nonce) \cup {Len(recorded) + 1}
        /\ Len(recorded) + 1 \notin RecordsOf(nonce)
    <3> HIDE DEF mine
    <3> QED
      BY <1>2, <1>3, <1>6 DEF RecordsOf
  <2>4. Cardinality(RecordsOf(nonce)') = Cardinality(RecordsOf(nonce)) + 1
    BY <1>1, <2>3, Numbers, FS_AddElement
  <2> QED
    BY <1>1, <1>5, <2>2, <2>4, Numbers DEF Within
<1>7. CASE mine # nonce
  <2>1. Passing(nonce)' = Passing(nonce)
    BY <1>2, <1>4, <1>7 DEF Passing
  <2>2. RecordsOf(nonce)' = RecordsOf(nonce)
    <3> HIDE DEF mine
    <3> QED
      BY <1>2, <1>3, <1>7 DEF RecordsOf
  <2> QED
    BY <1>1, <1>5, <2>1, <2>2 DEF Within
<1> QED
  BY <1>6, <1>7

\* A line accepted: its thread owes it no longer.
LEMMA AcceptsOnce ==
  ASSUME OnceInv, NEW nonce \in Nonces, NEW t \in Threads,
         thread[t].pc \in {"issue", "slot"},
         thread'[t].pc \in {"idle", "serving"},
         \A u \in Threads \ {t} : thread'[u] = thread[u],
         UNCHANGED recorded,
         \/ tickets' = Append(tickets, thread[t].line) /\ UNCHANGED logins
         \/ logins' = Append(logins, thread[t].line) /\ UNCHANGED tickets
  PROVE  Within(nonce)'
<1> DEFINE line == thread[t].line
<1>1. AInv /\ Within(nonce) /\ TypeOK
  BY DEF OnceInv, AInv
<1>2. line \in Lines /\ tickets \in Seq(Lines) /\ logins \in Seq(Lines)
  BY <1>1 DEF TypeOK, ThreadStates
<1>3. RecordsOf(nonce)' = RecordsOf(nonce)
  BY DEF RecordsOf
<1>4. /\ LinesOf(tickets, nonce)' = LinesOf(tickets', nonce)
      /\ LinesOf(logins, nonce)' = LinesOf(logins', nonce)
  BY DEF LinesOf
<1>5. Passing(nonce)' = IF line.nonce = nonce THEN Passing(nonce) \ {t}
                                              ELSE Passing(nonce)
  BY DEF Passing
<1>6. line.nonce = nonce => t \in Passing(nonce)
  BY DEF Passing
<1> DEFINE more == IF line.nonce = nonce THEN 1 ELSE 0
<1>7. /\ IsFiniteSet(Passing(nonce)')
      /\ Cardinality(Passing(nonce)') = Cardinality(Passing(nonce)) - more
  <2> HIDE DEF line
  <2>1. IsFiniteSet(Passing(nonce)) /\ Cardinality(Passing(nonce)) \in Nat
    BY <1>1, Numbers DEF Within
  <2>2. CASE line.nonce = nonce
    <3>1. /\ IsFiniteSet(Passing(nonce) \ {t})
          /\ Cardinality(Passing(nonce) \ {t}) = Cardinality(Passing(nonce)) - 1
      BY <1>6, <2>1, <2>2, FS_RemoveElement
    <3> QED
      BY <1>5, <2>2, <3>1
  <2>3. CASE line.nonce # nonce
    BY <1>5, <2>1, <2>3
  <2> QED
    BY <2>2, <2>3
<1>8. Cardinality(LinesOf(tickets', nonce)) + Cardinality(LinesOf(logins', nonce)) =
        Cardinality(LinesOf(tickets, nonce)) + Cardinality(LinesOf(logins, nonce)) + more
  <2>1. CASE tickets' = Append(tickets, line) /\ UNCHANGED logins
    <3> HIDE DEF line
    <3>1. Cardinality(LinesOf(tickets', nonce)) =
            Cardinality(LinesOf(tickets, nonce)) + more
      BY <1>1, <1>2, <2>1, LinesAppend, Numbers
    <3> QED
      BY <1>1, <2>1, <3>1, Numbers
  <2>2. CASE logins' = Append(logins, line) /\ UNCHANGED tickets
    <3> HIDE DEF line
    <3>1. Cardinality(LinesOf(logins', nonce)) =
            Cardinality(LinesOf(logins, nonce)) + more
      BY <1>1, <1>2, <2>2, LinesAppend, Numbers
    <3> QED
      BY <1>1, <2>2, <3>1, Numbers
  <2> QED
    BY <2>1, <2>2
<1> QED
  <2>1. more \in {0, 1}
    OBVIOUS
  <2> HIDE DEF more
  <2> QED
    BY <1>1, <1>3, <1>4, <1>7, <1>8, <2>1, Numbers DEF Within

\* A thread that stops, or goes on with the line it owes, owes nothing new.
LEMMA OwesNothingNew ==
  ASSUME NEW nonce, NEW t \in Threads,
         \A u \in Threads \ {t} : thread'[u] = thread[u],
         \/ thread'[t].pc \notin {"check", "issue", "slot"}
         \/ /\ thread[t].pc \in {"check", "issue", "slot"}
            /\ thread'[t].line = thread[t].line
  PROVE  Passing(nonce)' \subseteq Passing(nonce)
BY DEF Passing

LEMMA OnceInitially == Init => OnceInv
<1> SUFFICES ASSUME Init PROVE OnceInv
  OBVIOUS
<1>1. ASSUME NEW nonce \in Nonces PROVE Within(nonce)
  <2>1. /\ Passing(nonce) = {} /\ RecordsOf(nonce) = {}
        /\ LinesOf(tickets, nonce) = {} /\ LinesOf(logins, nonce) = {}
    BY DEF Init, CacheInit, Idle, Passing, RecordsOf, LinesOf
  <2> QED
    BY <2>1, FS_EmptySet DEF Within
<1> QED
  BY <1>1, AInitially DEF OnceInv

\* What one thread does, seen from the threads.
LEMMA OneThread ==
  ASSUME TypeOK, NEW t \in Threads, ThreadStep(t) \/ recv_again(t)
  PROVE  /\ \A u \in Threads \ {t} : thread'[u] = thread[u]
         /\ \/ thread'[t].pc \notin {"check", "issue", "slot"}
            \/ record_nonce(t) \/ pass_check(t)
<1>1. CASE recv_line(t) \/ recv_again(t)
  BY <1>1 DEF recv_line, recv_again, Reads, TypeOK
<1>2. CASE find_user_fails(t) \/ refuse_nonce(t) \/ fail_check(t) \/ issue_fails(t)
           \/ client_slot_add_fails(t) \/ issue_ticket(t) \/ client_slot_remove(t)
  <2>1. thread' = [thread EXCEPT ![t] = Idle]
    BY <1>2 DEF find_user_fails, refuse_nonce, fail_check, issue_fails,
                client_slot_add_fails, issue_ticket, client_slot_remove, Fails
  <2> QED
    BY <2>1 DEF TypeOK, Idle
<1>3. CASE record_nonce(t) \/ pass_check(t)
  BY <1>3 DEF record_nonce, pass_check, Goes, TypeOK
<1>4. CASE client_slot_add(t)
  BY <1>4 DEF client_slot_add, Goes, TypeOK, ThreadStates
<1> QED
  BY <1>1, <1>2, <1>3, <1>4 DEF ThreadStep

LEMMA OnceKeeps == OnceInv /\ [Next]_vars => OnceInv'
<1> SUFFICES ASSUME OnceInv, [Next]_vars, NEW nonce \in Nonces PROVE Within(nonce)'
  BY AKeeps DEF OnceInv
<1>1. TypeOK
  BY DEF OnceInv, AInv
<1>2. CASE UNCHANGED vars \/ Tick
  <2>1. UNCHANGED <<thread, recorded, tickets, logins>>
    BY <1>2 DEF vars, Tick
  <2> QED
    BY <2>1, NothingAccepted DEF Passing
<1>3. ASSUME NEW c \in Clients, authenticate_with_kdc(c) \/ connect_chat(c)
      PROVE  Within(nonce)'
  <2>1. UNCHANGED <<thread, recorded, tickets, logins>>
    BY <1>3 DEF authenticate_with_kdc, connect_chat, Sends
  <2> QED
    BY <2>1, NothingAccepted DEF Passing
<1>4. ASSUME NEW c \in Clients, leave(c)
      PROVE  Within(nonce)'
  <2>1. ASSUME NEW t \in Threads
        PROVE  thread'[t].pc = thread[t].pc /\ thread'[t].line = thread[t].line
    <3>1. thread[t] \in ThreadStates
      BY <1>1 DEF TypeOK
    <3>2. thread'[t] = IF thread[t].peer = c
                       THEN [thread[t] EXCEPT !.peer = NoClient] ELSE thread[t]
      BY <1>4 DEF leave
    <3> QED
      BY <3>1, <3>2 DEF ThreadStates
  <2>2. UNCHANGED <<recorded, tickets, logins>>
    BY <1>4 DEF leave
  <2> QED
    BY <2>1, <2>2, NothingAccepted DEF Passing
<1>5. ASSUME NEW t \in Threads, ThreadStep(t) \/ recv_again(t)
      PROVE  Within(nonce)'
  <2>1. \A u \in Threads \ {t} : thread'[u] = thread[u]
    BY <1>1, <1>5, OneThread
  <2>2. CASE record_nonce(t)
    BY <2>2, RecordsOnce
  <2>3. CASE issue_ticket(t)
    <3>1. /\ thread[t].pc = "issue" /\ thread'[t].pc = "idle"
          /\ tickets' = Append(tickets, thread[t].line)
          /\ UNCHANGED <<recorded, logins>>
      BY <1>1, <2>3 DEF issue_ticket, Idle, TypeOK
    <3> QED
      BY <2>1, <3>1, AcceptsOnce
  <2>4. CASE client_slot_add(t)
    <3>1. /\ thread[t].pc = "slot" /\ thread'[t].pc = "serving"
          /\ logins' = Append(logins, thread[t].line)
          /\ UNCHANGED <<recorded, tickets>>
      BY <1>1, <2>4 DEF client_slot_add, Goes, TypeOK, ThreadStates
    <3> QED
      BY <2>1, <3>1, AcceptsOnce
  <2>5. CASE pass_check(t)
    <3>1. /\ thread[t].pc = "check" /\ thread'[t].line = thread[t].line
          /\ UNCHANGED <<recorded, tickets, logins>>
      BY <1>1, <2>5 DEF pass_check, Goes, TypeOK, ThreadStates
    <3> QED
      BY <2>1, <3>1, OwesNothingNew, NothingAccepted
  <2>6. CASE ~(record_nonce(t) \/ issue_ticket(t) \/ client_slot_add(t) \/ pass_check(t))
    <3>1. thread'[t].pc \notin {"check", "issue", "slot"}
      BY <1>1, <1>5, <2>6, OneThread
    <3>2. UNCHANGED <<recorded, tickets, logins>>
      BY <1>5, <2>6
      DEF ThreadStep, recv_line, recv_again, find_user_fails, refuse_nonce, Refuse,
          fail_check, issue_fails, client_slot_add_fails, client_slot_remove, cache
    <3> QED
      BY <2>1, <3>1, <3>2, OwesNothingNew, NothingAccepted
  <2> QED
    BY <2>2, <2>3, <2>4, <2>5, <2>6
<1> QED
  BY <1>2, <1>3, <1>4, <1>5 DEF Next

\* A line is accepted once for each time its nonce was put into the ring,
\* however the threads interleave and whatever comes a second time.
THEOREM AcceptedOnce == Spec => []OncePerRecording
<1>1. OnceInv => OncePerRecording
  <2> SUFFICES ASSUME OnceInv, NEW nonce \in Nonces
               PROVE  Cardinality(LinesOf(tickets, nonce))
                        + Cardinality(LinesOf(logins, nonce))
                          <= Cardinality(RecordsOf(nonce))
    BY DEF OncePerRecording, LinesOf, RecordsOf
  <2>1. AInv /\ Within(nonce)
    BY DEF OnceInv
  <2> QED
    BY <2>1, Numbers DEF Within
<1> QED
  BY <1>1, OnceInitially, OnceKeeps, PTL DEF Spec
=============================================================================
