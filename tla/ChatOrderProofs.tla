--------------------------- MODULE ChatOrderProofs ---------------------------
(***************************************************************************)
(* In which order lines arrive, and that they do: messages to all reach    *)
(* all in one order, a sender's lines keep theirs, /who names nobody       *)
(* twice, and a group's lines reach every member there.                    *)
(*                                                                         *)
(* A line is given its number when its command is read and is written to   *)
(* each connection in a turn of its own, so what orders it is neither step *)
(* but the time between them: the invariants say what the threads have     *)
(* still to send, and how far the one that holds the lock has come.        *)
(***************************************************************************)
EXTENDS ChatServerProofs

WhoHead == Reply(Piece(NoUser, TRUE, FALSE))

\* What a thread may have to send: a message to all is sent to all, pieces of
\* lines go to the thread's own connection, and only the loop of handle_who
\* puts names into them.
OpOK(op) ==
  /\ op.chunk.kind = "all" => op.op = "all" /\ op.chunk.val > 0
  /\ op.chunk.kind = "piece" => /\ op.op \in {"reply", "names"}
                                /\ op.chunk.from = NoUser /\ op.chunk.val = 0
  /\ op.op = "names" => op.chunk.kind = "piece"

\* The sends of one handler: a message to all is the only one, the names of
\* /who come right after the head of its answer, and there is one number.
OpsOK(ops) ==
  /\ \A k \in 1 .. Len(ops) : OpOK(ops[k])
  /\ \A k \in 1 .. Len(ops) : ops[k].chunk.kind = "all" => Len(ops) = 1
  /\ \A k \in 2 .. Len(ops) : ops[k].op = "names" => k = 2 /\ ops[1] = WhoHead
  /\ \A k, l \in 1 .. Len(ops) :
       ops[k].chunk.val > 0 /\ ops[l].chunk.val > 0 =>
         ops[k].chunk.val = ops[l].chunk.val

\* A numbered line is its sender's, who is still there.
Signed(f, op) ==
  /\ op.chunk.val <= received
  /\ op.chunk.val > 0 => pc[f] = "serving" /\ op.chunk.from = user[f]

TodoInv == \A f \in Fds : /\ OpsOK(todo[f])
                          /\ \A k \in 1 .. Len(todo[f]) : Signed(f, todo[f][k])

\* No two threads send lines of one number.
OwnNumber ==
  \A f, e \in Fds : f # e =>
    \A k \in 1 .. Len(todo[f]), l \in 1 .. Len(todo[e]) :
      todo[f][k].chunk.val > 0 => todo[f][k].chunk.val # todo[e][l].chunk.val

OutInv == \A f \in Fds : \A i \in 1 .. Len(out[f]) :
            out[f][i].val <= received /\ out[f][i].kind \in Watched

NInv == IInv /\ TodoInv /\ OwnNumber /\ OutInv
-----------------------------------------------------------------------------
(* What the handlers leave to be sent.                                     *)

\* lines of this command, signed by its user, or of none
Fits(f, op) == /\ op.chunk.val \in {0, number}
               /\ op.chunk.val > 0 => op.chunk.from = user[f]

CommandOps(f, ops) == /\ OpsOK(ops) /\ \A k \in 1 .. Len(ops) : Fits(f, ops[k])
                      /\ Len(ops) > 0 => ops[1].op # "names"

\* A handler that leaves one send, two of them, or three.
LEMMA OneOp ==
  ASSUME NEW f, NEW a, OpOK(a), Fits(f, a), a.op # "names"
  PROVE  CommandOps(f, <<a>>)
<1>1. Len(<<a>>) = 1 /\ <<a>>[1] = a
  OBVIOUS
<1> QED
  BY <1>1 DEF CommandOps, OpsOK

LEMMA TwoOps ==
  ASSUME NEW f, number \in Nat,
         NEW a, OpOK(a), Fits(f, a), a.chunk.kind # "all", a.op # "names",
         NEW b, OpOK(b), Fits(f, b), b.chunk.kind # "all", b.op # "names"
  PROVE  CommandOps(f, <<a, b>>)
<1> DEFINE s == <<a, b>>
<1>1. Len(s) = 2 /\ s[1] = a /\ s[2] = b
  OBVIOUS
<1> HIDE DEF s
<1>2. \A k \in 1 .. Len(s) : s[k] \in {a, b}
  BY <1>1
<1>3. OpsOK(s)
  <2>1. \A k \in 2 .. Len(s) : k = 2
    BY <1>1
  <2>2. \A k, l \in 1 .. Len(s) :
          s[k].chunk.val > 0 /\ s[l].chunk.val > 0 => s[k].chunk.val = s[l].chunk.val
    BY <1>2 DEF Fits
  <2> QED
    BY <1>1, <1>2, <2>1, <2>2 DEF OpsOK
<1>4. CommandOps(f, s)
  BY <1>1, <1>2, <1>3 DEF CommandOps
<1> QED
  BY <1>4 DEF s

LEMMA ThreeOpsFit ==
  ASSUME NEW f, number \in Nat,
         NEW a, OpOK(a), Fits(f, a), a.chunk.kind # "all", a.op # "names",
         NEW b, OpOK(b), Fits(f, b), b.chunk.kind # "all",
         b.op = "names" => a = WhoHead,
         NEW c, OpOK(c), Fits(f, c), c.chunk.kind # "all", c.op # "names"
  PROVE  CommandOps(f, <<a, b, c>>)
<1> DEFINE s == <<a, b, c>>
<1>1. Len(s) = 3 /\ s[1] = a /\ s[2] = b /\ s[3] = c
  OBVIOUS
<1> HIDE DEF s
<1>2. \A k \in 1 .. Len(s) : s[k] \in {a, b, c}
  BY <1>1
<1>3. OpsOK(s)
  <2>1. \A k \in 2 .. Len(s) : k \in {2, 3}
    BY <1>1
  <2>2. \A k, l \in 1 .. Len(s) :
          s[k].chunk.val > 0 /\ s[l].chunk.val > 0 => s[k].chunk.val = s[l].chunk.val
    BY <1>2 DEF Fits
  <2> QED
    BY <1>1, <1>2, <2>1, <2>2 DEF OpsOK
<1>4. CommandOps(f, s)
  BY <1>1, <1>2, <1>3 DEF CommandOps
<1> QED
  BY <1>4 DEF s

\* The lines the handlers make.
LEMMA AnswerFits ==
  ASSUME NEW f, NEW kind \in Kinds \ {"all", "piece"}
  PROVE  /\ OpOK(Reply(Answer(kind))) /\ Fits(f, Reply(Answer(kind)))
         /\ Reply(Answer(kind)).chunk.kind # "all" /\ Reply(Answer(kind)).op # "names"
         /\ OpOK(ToAll(Answer(kind))) /\ Fits(f, ToAll(Answer(kind)))
         /\ ToAll(Answer(kind)).chunk.kind # "all" /\ ToAll(Answer(kind)).op # "names"
BY DEF OpOK, Fits, Reply, ToAll, Answer, Line

\* A piece of an answer, the names of /who, and a line for a user or a group.
LEMMA PieceFits ==
  ASSUME NEW f, NEW bol, NEW eol
  PROVE  LET op == Reply(Piece(NoUser, bol, eol))
         IN  OpOK(op) /\ Fits(f, op) /\ op.chunk.kind # "all" /\ op.op # "names"
<1>1. PICK op, chunk : /\ chunk = Piece(NoUser, bol, eol)
                       /\ op = Reply(Piece(NoUser, bol, eol))
  OBVIOUS
<1>2. chunk.kind = "piece" /\ chunk.from = NoUser /\ chunk.val = 0
  BY <1>1 DEF Piece, Line
<1>3. op.op = "reply" /\ op.chunk = chunk
  BY <1>1 DEF Reply
<1>4. OpOK(op) /\ Fits(f, op) /\ op.chunk.kind # "all" /\ op.op # "names"
  BY <1>2, <1>3 DEF OpOK, Fits
<1> QED
  BY <1>1, <1>4

LEMMA NamesFit ==
  ASSUME NEW f
  PROVE  OpOK(WhoNames) /\ Fits(f, WhoNames) /\ WhoNames.chunk.kind # "all"
<1>1. PICK chunk : chunk = Piece(NoUser, FALSE, FALSE)
  OBVIOUS
<1>2. chunk.kind = "piece" /\ chunk.from = NoUser /\ chunk.val = 0
  BY <1>1 DEF Piece, Line
<1>3. WhoNames.op = "names" /\ WhoNames.chunk = chunk
  BY <1>1 DEF WhoNames
<1> QED
  BY <1>2, <1>3 DEF OpOK, Fits

LEMMA LineFits ==
  ASSUME NEW f, NEW kind, kind \notin {"all", "piece"}, NEW to, NEW gid
  PROVE  LET op == ToUser(Line(kind, user[f], to, gid, number))
         IN  OpOK(op) /\ Fits(f, op) /\ op.chunk.kind # "all" /\ op.op # "names"
<1>1. PICK op, chunk, from :
        /\ from = user[f] /\ chunk = Line(kind, from, to, gid, number)
        /\ op = ToUser(Line(kind, user[f], to, gid, number))
  OBVIOUS
<1>2. chunk.kind = kind /\ chunk.from = user[f] /\ chunk.val = number
  BY <1>1 DEF Line
<1>3. op.op = "user" /\ op.chunk = chunk
  BY <1>1 DEF ToUser
<1>4. OpOK(op) /\ Fits(f, op) /\ op.chunk.kind # "all" /\ op.op # "names"
  BY <1>2, <1>3 DEF OpOK, Fits
<1> QED
  BY <1>1, <1>4

\* A group's line is one send for each member there, all of one number.
LEMMA MembersFit ==
  ASSUME IInv, NEW f, number \in Nat, NEW kind \in {"group", "key"}, NEW g \in GroupIds
  PROVE  CommandOps(f, ToMembers(kind, user[f], g))
<1>1. groups[g].members \in Seq(Users)
  BY DEF IInv, TypeOK, Group
<1> DEFINE n == Len(groups[g].members)
           s == ToMembers(kind, user[f], g)
           S == {s[i] : i \in 1 .. n}
<1>2. n \in Nat
  BY <1>1
<1>3. /\ s \in [1 .. n -> S]
      /\ \A i \in 1 .. n :
           s[i] = ToUser(Line(kind, user[f], groups[g].members[i], g, number))
  BY DEF ToMembers
<1>4. ASSUME NEW i \in 1 .. n
      PROVE  /\ OpOK(s[i]) /\ Fits(f, s[i])
             /\ s[i].chunk.kind # "all" /\ s[i].op # "names"
  <2>1. PICK to : to = groups[g].members[i]
    OBVIOUS
  <2>2. s[i] = ToUser(Line(kind, user[f], to, g, number))
    BY <1>3, <2>1
  <2> QED
    BY <2>2, LineFits
<1> HIDE DEF n, s, S
<1>5. Len(s) = n
  BY <1>2, <1>3
<1>6. CommandOps(f, s)
  BY <1>4, <1>5 DEF CommandOps, OpsOK, Fits
<1> QED
  BY <1>6 DEF s

\* Every handler leaves such sends to its thread, which had none, and changes
\* no connection.
Shaped(f) == /\ CommandOps(f, todo'[f])
             /\ \A e \in Fds \ {f} : todo'[e] = todo[e]

\* What a handler leaves is in order when its sends are: a refusal, ...
LEMMA ShapedBy ==
  ASSUME IInv, NEW f \in Fds, NEW ops, Sends(f, ops), CommandOps(f, ops)
  PROVE  Shaped(f)
<1>1. todo'[f] = ops /\ \A e \in Fds \ {f} : todo'[e] = todo[e]
  BY DEF IInv, TypeOK, Sends
<1> QED
  BY <1>1 DEF Shaped

LEMMA RefusalShaped ==
  ASSUME IInv, NEW f \in Fds, Refuse(f)
  PROVE  Shaped(f)
<1>1. CommandOps(f, <<Reply(Answer("ERR"))>>)
  BY AnswerFits, OneOp DEF Kinds
<1> QED
  BY <1>1, ShapedBy DEF Refuse

\* ... an answer of one line, ...
LEMMA AnswerShaped ==
  ASSUME IInv, NEW f \in Fds, NEW kind \in Kinds \ {"all", "piece"},
         Sends(f, <<Reply(Answer(kind))>>)
  PROVE  Shaped(f)
<1>1. CommandOps(f, <<Reply(Answer(kind))>>)
  BY AnswerFits, OneOp
<1> QED
  BY <1>1, ShapedBy

\* ... a line for a user with an answer for the sender, ...
LEMMA NoticeShaped ==
  ASSUME IInv, NEW f \in Fds, number \in Nat,
         NEW kind, kind \notin {"all", "piece"}, NEW to, NEW gid,
         NEW answer \in Kinds \ {"all", "piece"},
         \/ Sends(f, <<ToUser(Line(kind, user[f], to, gid, number)),
                       Reply(Answer(answer))>>)
         \/ Sends(f, <<Reply(Answer(answer)),
                       ToUser(Line(kind, user[f], to, gid, number))>>)
  PROVE  Shaped(f)
<1>1. PICK line, reply : /\ line = ToUser(Line(kind, user[f], to, gid, number))
                         /\ reply = Reply(Answer(answer))
  OBVIOUS
<1>2. /\ OpOK(line) /\ Fits(f, line) /\ line.chunk.kind # "all" /\ line.op # "names"
      /\ OpOK(reply) /\ Fits(f, reply) /\ reply.chunk.kind # "all"
      /\ reply.op # "names"
  BY <1>1, LineFits, AnswerFits
<1>3. CommandOps(f, <<line, reply>>) /\ CommandOps(f, <<reply, line>>)
  BY <1>2, TwoOps
<1> QED
  BY <1>1, <1>3, ShapedBy

\* ... and so whatever command is read.
LEMMA CommandShape ==
  ASSUME IInv, NEW f \in Fds, process_command(f)
  PROVE  Shaped(f) /\ pc[f] = "serving" /\ todo[f] = <<>>
         /\ received' = received + 1 /\ Unhandled /\ number \in Nat
<1>1. /\ pc[f] = "serving" /\ todo[f] = <<>> /\ received' = received + 1
      /\ Unhandled /\ number \in Nat
  <2>1. Unhandled /\ \E command : recv_line(f, command)
    <3>1. CASE handle_who(f)
      BY <3>1 DEF handle_who
    <3>2. CASE handle_write_all(f)
      BY <3>2 DEF handle_write_all
    <3>3. CASE handle_create_group(f)
      BY <3>3 DEF handle_create_group
    <3>4. CASE handle_group_invite(f)
      BY <3>4 DEF handle_group_invite
    <3>5. CASE handle_group_accept(f)
      BY <3>5 DEF handle_group_accept
    <3>6. CASE handle_group_key(f)
      BY <3>6 DEF handle_group_key
    <3>7. CASE handle_group_write(f)
      BY <3>7 DEF handle_group_write
    <3>8. CASE handle_list_files(f)
      BY <3>8 DEF handle_list_files
    <3>9. CASE handle_request_file(f)
      BY <3>9 DEF handle_request_file
    <3>10. CASE handle_public_key_request(f)
      BY <3>10 DEF handle_public_key_request
    <3>11. CASE handle_send_public_key(f)
      BY <3>11 DEF handle_send_public_key
    <3>12. CASE reject_command(f)
      BY <3>12 DEF reject_command
    <3> QED
      BY <3>1, <3>2, <3>3, <3>4, <3>5, <3>6, <3>7, <3>8, <3>9, <3>10, <3>11, <3>12
      DEF process_command
  <2>2. received \in Nat
    BY DEF IInv, TypeOK
  <2> QED
    BY <2>1, <2>2 DEF recv_line, number
<1> DEFINE head == Reply(Piece(NoUser, TRUE, FALSE))
           file == Reply(Piece(NoUser, FALSE, FALSE))
           tail == Reply(Piece(NoUser, FALSE, TRUE))
<1>2. /\ OpOK(head) /\ Fits(f, head) /\ head.chunk.kind # "all" /\ head.op # "names"
      /\ OpOK(file) /\ Fits(f, file) /\ file.chunk.kind # "all" /\ file.op # "names"
      /\ OpOK(tail) /\ Fits(f, tail) /\ tail.chunk.kind # "all" /\ tail.op # "names"
  BY PieceFits
<1>3. head = WhoHead
  BY DEF WhoHead
<1>4. CASE handle_who(f)
  <2>1. Sends(f, <<head, WhoNames, tail>>)
    BY <1>4 DEF handle_who
  <2> HIDE DEF head, tail
  <2>2. CommandOps(f, <<head, WhoNames, tail>>)
    BY <1>1, <1>2, <1>3, NamesFit, ThreeOpsFit
  <2> QED
    BY <1>1, <2>1, <2>2, ShapedBy
<1>5. CASE handle_write_all(f)
  <2> DEFINE op == ToAll(Line("all", user[f], NoUser, 0, number))
  <2>1. Sends(f, <<op>>)
    BY <1>5 DEF handle_write_all
  <2>2. OpOK(op) /\ Fits(f, op) /\ op.op # "names"
    <3>1. PICK chunk, from : from = user[f]
                             /\ chunk = Line("all", from, NoUser, 0, number)
      OBVIOUS
    <3>2. chunk.kind = "all" /\ chunk.from = user[f] /\ chunk.val = number
      BY <3>1 DEF Line
    <3>3. op.op = "all" /\ op.chunk = chunk
      BY <3>1 DEF ToAll
    <3>4. number > 0
      BY DEF number, IInv, TypeOK
    <3> QED
      BY <3>2, <3>3, <3>4 DEF OpOK, Fits
  <2> HIDE DEF op
  <2> QED
    BY <1>1, <2>1, <2>2, OneOp, ShapedBy
<1>6. CASE handle_create_group(f)
  <2>1. "GROUP_CREATED" \in Kinds \ {"all", "piece"}
    BY DEF Kinds
  <2> QED
    BY <1>1, <1>6, <2>1, AnswerShaped, RefusalShaped DEF handle_create_group
<1>7. CASE handle_group_invite(f)
  <2>1. "INVITE_SENT" \in Kinds \ {"all", "piece"}
    BY DEF Kinds
  <2> QED
    BY <1>1, <1>7, <2>1, NoticeShaped, RefusalShaped DEF handle_group_invite
<1>8. CASE handle_group_accept(f)
  <2>1. "GROUP_JOINED" \in Kinds \ {"all", "piece"}
    BY DEF Kinds
  <2> QED
    BY <1>1, <1>8, <2>1, AnswerShaped, RefusalShaped DEF handle_group_accept
<1>9. CASE handle_group_key(f)
  <2>1. ASSUME NEW g \in GroupIds, Sends(f, ToMembers("key", user[f], g))
        PROVE  Shaped(f)
    BY <1>1, <2>1, MembersFit, ShapedBy
  <2> QED
    BY <1>1, <1>9, <2>1, RefusalShaped DEF handle_group_key, find_group_locked
<1>10. CASE handle_group_write(f)
  <2>1. ASSUME NEW g \in GroupIds, Sends(f, ToMembers("group", user[f], g))
        PROVE  Shaped(f)
    BY <1>1, <2>1, MembersFit, ShapedBy
  <2> QED
    BY <1>1, <1>10, <2>1, RefusalShaped DEF handle_group_write, find_group_locked
<1>11. CASE handle_list_files(f)
  <2>1. \/ Sends(f, <<head, tail>>) \/ Sends(f, <<head, file, tail>>)
        \/ Sends(f, <<Reply(Answer("FILES"))>>) \/ Refuse(f)
    BY <1>11 DEF handle_list_files
  <2> HIDE DEF head, file, tail
  <2>2. CommandOps(f, <<head, tail>>) /\ CommandOps(f, <<head, file, tail>>)
    BY <1>1, <1>2, TwoOps, ThreeOpsFit
  <2>3. "FILES" \in Kinds \ {"all", "piece"}
    BY DEF Kinds
  <2> QED
    BY <1>1, <2>1, <2>2, <2>3, ShapedBy, AnswerShaped, RefusalShaped
<1>12. CASE handle_request_file(f)
  <2>1. "FILE_REQUEST_SENT" \in Kinds \ {"all", "piece"}
    BY DEF Kinds
  <2> QED
    BY <1>1, <1>12, <2>1, NoticeShaped, RefusalShaped DEF handle_request_file
<1>13. CASE handle_public_key_request(f)
  <2>1. "PUBLIC_KEY_REQUEST_SENT" \in Kinds \ {"all", "piece"}
    BY DEF Kinds
  <2> QED
    BY <1>1, <1>13, <2>1, NoticeShaped DEF handle_public_key_request
<1>14. CASE handle_send_public_key(f)
  <2>1. "PUBLIC_KEY_SENT" \in Kinds \ {"all", "piece"}
    BY DEF Kinds
  <2> QED
    BY <1>1, <1>14, <2>1, NoticeShaped DEF handle_send_public_key
<1>15. CASE reject_command(f)
  BY <1>1, <1>15, RefusalShaped DEF reject_command
<1> QED
  BY <1>4, <1>5, <1>6, <1>7, <1>8, <1>9, <1>10, <1>11, <1>12, <1>13, <1>14, <1>15
  DEF process_command
-----------------------------------------------------------------------------
(* What the steps do to the pending sends and to what is written.          *)

\* The sends of e stay, or the first of them is done.
Shorter(e) == /\ todo[e] # <<>> /\ Len(todo'[e]) = Len(todo[e]) - 1
              /\ \A k \in 1 .. Len(todo'[e]) : todo'[e][k] = todo[e][k + 1]

TodoShrinks == \A e \in Fds : todo'[e] = todo[e] \/ Shorter(e)

\* A thread with something to send stays who it is.
SendersStay == \A e \in Fds : todo[e] # <<>> => pc'[e] = pc[e] /\ user'[e] = user[e]

Grown(e, chunk) ==
  /\ chunk.kind \in Watched /\ Len(out'[e]) = Len(out[e]) + 1
  /\ \A i \in 1 .. Len(out[e]) : out'[e][i] = out[e][i]
  /\ out'[e][Len(out[e]) + 1] = chunk

\* What has been written to e stays, goes with the connection, or grows.
OutKept(e) == out'[e] = out[e] \/ out'[e] = <<>>

\* A step that sends nothing: accept, a login, close, hanging up, the lock.
Idle == /\ UNCHANGED <<todo, received>> /\ SendersStay
        /\ \A e \in Fds : OutKept(e) /\ scan[e] <= scan'[e]
        /\ UNCHANGED clients \/ LockFree

\* A step that gives thread f its sends, all of one number not seen before.
Refill(f) == /\ todo[f] = <<>> /\ \A e \in Fds \ {f} : todo'[e] = todo[e]
             /\ OpsOK(todo'[f])
             /\ Len(todo'[f]) > 0 => todo'[f][1].op # "names"
             /\ \A k \in 1 .. Len(todo'[f]) : todo'[f][k].chunk.val > 0 =>
                  /\ todo'[f][k].chunk.val = received' /\ received < received'
                  /\ todo'[f][k].chunk.from = user'[f] /\ pc'[f] = "serving"
             /\ received <= received' /\ SendersStay
             /\ UNCHANGED <<out, scan>>
             /\ UNCHANGED clients \/ LockFree

\* A step of thread f that writes a chunk to the connections fds.
Send(f, fds, chunk) ==
  /\ \A e \in Fds : out'[e] = out[e] \/ (e \in fds /\ Grown(e, chunk))
  /\ \A e \in Fds \cap fds : chunk.kind \in Watched => Grown(e, chunk)
  /\ UNCHANGED <<pc, user, clients, received>>
  /\ \A e \in Fds \ {f} : todo'[e] = todo[e] /\ scan'[e] = scan[e]
  /\ TodoShrinks /\ todo[f] # <<>>

\* A send writes its chunk to the connections named, or drops it where nobody reads.
LEMMA Writes ==
  ASSUME IInv, NEW fds, NEW chunk \in Chunk, SendTo(fds, chunk)
  PROVE  /\ \A e \in Fds : out'[e] = out[e] \/ (e \in fds /\ Grown(e, chunk))
         /\ \A e \in Fds \cap fds : chunk.kind \in Watched => Grown(e, chunk)
<1>1. \A e \in Fds : out[e] \in Seq(Chunk)
  BY DEF IInv, TypeOK
<1>2. ASSUME NEW e \in Fds
      PROVE  /\ Len(Append(out[e], chunk)) = Len(out[e]) + 1
             /\ \A i \in 1 .. Len(out[e]) : Append(out[e], chunk)[i] = out[e][i]
             /\ Append(out[e], chunk)[Len(out[e]) + 1] = chunk
  BY <1>1
<1> QED
  BY <1>2 DEF SendTo, Grown

\* A send done is taken from its own thread's list.
LEMMA DoneShrinks ==
  ASSUME IInv, NEW f \in Fds, todo[f] # <<>>, Done(f)
  PROVE  /\ Shorter(f) /\ \A e \in Fds \ {f} : todo'[e] = todo[e]
         /\ TodoShrinks
<1>1. todo[f] \in Seq(Op)
  BY DEF IInv, TypeOK
<1>2. todo'[f] = Tail(todo[f]) /\ \A e \in Fds \ {f} : todo'[e] = todo[e]
  BY DEF Done, IInv, TypeOK
<1>3. Shorter(f)
  BY <1>1, <1>2 DEF Shorter
<1> QED
  BY <1>2, <1>3 DEF TodoShrinks

\* The first of the pending sends.
LEMMA HeadFirst ==
  ASSUME IInv, NEW f \in Fds, todo[f] # <<>>
  PROVE  /\ Head(todo[f]) = todo[f][1] /\ 1 \in 1 .. Len(todo[f])
         /\ todo[f][1].chunk \in Chunk /\ todo[f][1].chunk.val \in Nat
<1>1. todo[f] \in Seq(Op)
  BY DEF IInv, TypeOK
<1>2. Head(todo[f]) = todo[f][1] /\ 1 \in 1 .. Len(todo[f])
  BY <1>1
<1>3. todo[f][1] \in Op
  BY <1>1, <1>2
<1> QED
  BY <1>2, <1>3 DEF Op, Chunk

\* Every step is of one of the three sorts, or frees the lock.
LEMMA LifeSorts ==
  ASSUME IInv, NEW f \in Fds,
         \/ accept(f) \/ authenticate_chat(f) \/ client_slot_add(f)
         \/ client_slot_remove(f) \/ close(f) \/ hang_up(f)
  PROVE  Idle \/ Refill(f)
<1>0. /\ \A e \in Fds : scan[e] \in Nat
      /\ received \in Nat
      /\ \A e \in Fds : pc[e] \in {"closed", "auth", "slot"} => todo[e] = <<>>
      /\ pc \in [Fds -> States] /\ user \in [Fds -> Users \cup {NoUser}]
      /\ todo \in [Fds -> Seq(Op)] /\ out \in [Fds -> Seq(Chunk)]
  BY DEF IInv, TypeOK, ThreadInv
<1>1. CASE accept(f) \/ hang_up(f) \/ client_slot_remove(f) \/ close(f)
  <2>1. /\ UNCHANGED <<todo, received, scan>>
        /\ \A e \in Fds : OutKept(e)
        /\ UNCHANGED clients \/ LockFree
    BY <1>0, <1>1
    DEF accept, hang_up, client_slot_remove, close, OutKept
  <2>2. SendersStay
    BY <1>0, <1>1
    DEF accept, hang_up, client_slot_remove, close, SendersStay
  <2> QED
    BY <1>0, <2>1, <2>2 DEF Idle
<1>2. ASSUME NEW ops, todo' = [todo EXCEPT ![f] = ops], todo[f] = <<>>,
             OpsOK(ops), \A k \in 1 .. Len(ops) : ops[k].chunk.val = 0,
             Len(ops) > 0 => ops[1].op # "names",
             UNCHANGED <<out, scan, received>>, UNCHANGED clients \/ LockFree,
             SendersStay
      PROVE  Refill(f)
  <2>1. todo'[f] = ops /\ \A e \in Fds \ {f} : todo'[e] = todo[e]
    BY <1>0, <1>2
  <2> QED
    BY <1>0, <1>2, <2>1 DEF Refill
<1>3. ASSUME NEW kind \in Kinds \ {"all", "piece"}
      PROVE  /\ OpsOK(<<Reply(Answer(kind))>>)
             /\ \A k \in 1 .. Len(<<Reply(Answer(kind))>>) :
                  <<Reply(Answer(kind))>>[k].chunk.val = 0
             /\ <<Reply(Answer(kind))>>[1].op # "names"
  <2>1. PICK op : op = Reply(Answer(kind))
    OBVIOUS
  <2>2. OpOK(op) /\ op.op # "names" /\ op.chunk.val = 0
    BY <2>1, AnswerFits DEF Reply, Answer, Line
  <2>3. Len(<<op>>) = 1 /\ <<op>>[1] = op
    OBVIOUS
  <2>4. OpsOK(<<op>>)
    BY <2>2, <2>3 DEF OpsOK
  <2> QED
    BY <2>1, <2>2, <2>3, <2>4
<1>4. "ERR" \in Kinds \ {"all", "piece"}
  BY DEF Kinds
<1>5. CASE authenticate_chat(f)
  <2>1. UNCHANGED <<out, scan, received, clients>> /\ todo[f] = <<>> /\ SendersStay
    BY <1>0, <1>5 DEF authenticate_chat, SendersStay
  <2>2. CASE UNCHANGED todo
    BY <1>0, <2>1, <2>2 DEF Idle, OutKept
  <2>3. CASE todo' = [todo EXCEPT ![f] = <<Reply(Answer("ERR"))>>]
    BY <1>2, <1>3, <1>4, <2>1, <2>3
  <2> QED
    BY <1>5, <2>2, <2>3 DEF authenticate_chat
<1>6. CASE client_slot_add(f)
  <2>1. /\ UNCHANGED <<out, scan, received>> /\ todo[f] = <<>> /\ SendersStay
        /\ LockFree
    BY <1>0, <1>6 DEF client_slot_add, SendersStay
  <2>2. CASE todo' = [todo EXCEPT ![f] = <<Reply(Answer("ERR"))>>]
    BY <1>2, <1>3, <1>4, <2>1, <2>2
  <2>3. CASE todo' = [todo EXCEPT ![f] =
                        <<Reply(Answer("OK")), ToAll(Answer("login"))>>]
    <3>1. PICK ok, notice : ok = Reply(Answer("OK")) /\ notice = ToAll(Answer("login"))
      OBVIOUS
    <3>2. /\ OpOK(ok) /\ ok.op # "names" /\ ok.chunk.val = 0 /\ ok.chunk.kind # "all"
          /\ OpOK(notice) /\ notice.op # "names" /\ notice.chunk.val = 0
          /\ notice.chunk.kind # "all"
      BY <3>1, AnswerFits DEF Reply, ToAll, Answer, Line, Kinds
    <3> DEFINE ops == <<ok, notice>>
    <3>3. Len(ops) = 2 /\ ops[1] = ok /\ ops[2] = notice
      OBVIOUS
    <3>4. todo' = [todo EXCEPT ![f] = ops]
      BY <2>3, <3>1
    <3> HIDE DEF ops
    <3>5. \A k \in 1 .. Len(ops) : ops[k] \in {ok, notice}
      BY <3>3
    <3>6. OpsOK(ops) /\ \A k \in 1 .. Len(ops) : ops[k].chunk.val = 0
      BY <3>2, <3>3, <3>5 DEF OpsOK
    <3> QED
      BY <1>2, <2>1, <3>2, <3>3, <3>4, <3>6
  <2> QED
    BY <1>6, <2>2, <2>3 DEF client_slot_add
<1> QED
  BY <1>1, <1>5, <1>6

\* A command read is a refill, ...
LEMMA CommandSort ==
  ASSUME IInv, NEW f \in Fds, process_command(f)
  PROVE  Refill(f)
<1>1. /\ Shaped(f) /\ pc[f] = "serving" /\ todo[f] = <<>>
      /\ received' = received + 1 /\ Unhandled /\ number \in Nat
  BY CommandShape
<1>2. received \in Nat
  BY DEF IInv, TypeOK
<1>3. UNCHANGED clients \/ LockFree
  <2>1. CASE handle_send_public_key(f)
    BY <2>1 DEF handle_send_public_key
  <2> QED
    BY <2>1
    DEF process_command, handle_who, handle_write_all, handle_create_group,
        handle_group_invite, handle_group_accept, handle_group_key,
        handle_group_write, handle_list_files, handle_request_file,
        handle_public_key_request, reject_command
<1>4. \A k \in 1 .. Len(todo'[f]) : todo'[f][k].chunk.val > 0 =>
        todo'[f][k].chunk.val = received' /\ todo'[f][k].chunk.from = user'[f]
  BY <1>1, <1>2 DEF Shaped, CommandOps, Fits, Unhandled, number
<1> QED
  BY <1>1, <1>2, <1>3, <1>4 DEF Refill, Shaped, CommandOps, Unhandled, SendersStay

\* The sends of a step, each with what it leaves of the loop.
SendAll(f) == /\ todo[f][1].op = "reply" /\ Shorter(f) /\ scan'[f] = scan[f]
              /\ Send(f, {f}, todo[f][1].chunk)

SendUser(f) == LET op == todo[f][1] IN
  /\ op.op = "user" /\ Shorter(f) /\ scan'[f] = scan[f]
  /\ Send(f, {clients[i].fd : i \in find_client_locked(op.chunk.to)}, op.chunk)

LoopAll(f) == /\ todo[f][1].op = "all" /\ todo'[f] = todo[f]
              /\ scan[f] \in ClientSlots /\ clients[scan[f]].active
              /\ scan'[f] = scan[f] + 1
              /\ Send(f, {clients[scan[f]].fd}, todo[f][1].chunk)

LoopNames(f) == /\ todo[f][1].op = "names" /\ todo'[f] = todo[f]
                /\ scan[f] \in ClientSlots /\ clients[scan[f]].active
                /\ scan'[f] = scan[f] + 1
                /\ Send(f, {f}, Piece(clients[scan[f]].user, FALSE, FALSE))

LoopEnds(f) == /\ todo[f][1].op \in {"all", "names"} /\ Shorter(f)
               /\ \A e \in Fds \ {f} : todo'[e] = todo[e] /\ scan'[e] = scan[e]
               /\ TodoShrinks /\ todo[f] # <<>>
               /\ UNCHANGED <<pc, user, clients, received, out>>

\* ... a send is one of the five sorts of sending, ...
LEMMA SendSorts ==
  ASSUME IInv, NEW f \in Fds, send_step(f)
  PROVE  \/ Idle /\ UNCHANGED out
         \/ SendAll(f) \/ SendUser(f) \/ LoopAll(f) \/ LoopNames(f) \/ LoopEnds(f)
<1>0. /\ scan \in [Fds -> 0 .. MAX_CLIENTS + 1]
      /\ MAX_CLIENTS \in Nat
      /\ todo[f] # <<>> => Head(todo[f]) = todo[f][1] /\ todo[f][1].chunk \in Chunk
      /\ scan[f] # 0 => todo[f] # <<>> /\ todo[f][1].op \in {"all", "names"}
  BY HeadFirst, ConstantsAssumption DEF IInv, TypeOK, LockInv, ConstantsAssumption
<1>1. CASE send_all(f)
  <2>1. /\ todo[f] # <<>> /\ Head(todo[f]).op = "reply" /\ Done(f)
        /\ SendTo({f}, Head(todo[f]).chunk)
        /\ UNCHANGED <<pc, user, scan, clients, received>>
    BY <1>1 DEF send_all, NextOp
  <2>2. SendAll(f)
    BY <1>0, <2>1, DoneShrinks, Writes DEF Send, SendAll
  <2> QED
    BY <2>2
<1>2. CASE send_to_user(f)
  <2>1. /\ todo[f] # <<>> /\ Head(todo[f]).op = "user" /\ Done(f)
        /\ SendTo({clients[i].fd : i \in find_client_locked(Head(todo[f]).chunk.to)},
                  Head(todo[f]).chunk)
        /\ UNCHANGED <<pc, user, scan, clients, received>>
    BY <1>2 DEF send_to_user, NextOp
  <2> DEFINE fds == {clients[i].fd : i \in find_client_locked(todo[f][1].chunk.to)}
  <2>2. SendTo(fds, todo[f][1].chunk)
    BY <1>0, <2>1
  <2>3. fds = {clients[i].fd : i \in find_client_locked(todo[f][1].chunk.to)}
    OBVIOUS
  <2> HIDE DEF fds
  <2>4. Send(f, fds, todo[f][1].chunk) /\ Shorter(f)
    BY <1>0, <2>1, <2>2, DoneShrinks, Writes DEF Send
  <2>5. SendUser(f)
    BY <1>0, <2>1, <2>3, <2>4 DEF SendUser
  <2> QED
    BY <2>5
<1>3. CASE take_lock(f)
  <2>1. /\ UNCHANGED <<todo, received, clients, pc, user, out>>
        /\ scan[f] = 0 /\ scan' = [scan EXCEPT ![f] = 1]
    BY <1>3 DEF take_lock
  <2>2. \A e \in Fds : scan[e] <= scan'[e]
    BY <1>0, <2>1
  <2> QED
    BY <2>1, <2>2 DEF Idle, OutKept, SendersStay
<1>4. CASE loop_over_clients(f)
  <2>1. /\ scan[f] \in ClientSlots /\ scan[f] # 0
        /\ scan'[f] = scan[f] + 1 /\ \A e \in Fds \ {f} : scan'[e] = scan[e]
        /\ UNCHANGED <<todo, pc, user, clients, received>>
    BY <1>0, <1>4 DEF loop_over_clients, ClientSlots
  <2>2. \A e \in Fds : scan[e] <= scan'[e]
    BY <1>0, <2>1
  <2>3. todo[f] # <<>> /\ Head(todo[f]) = todo[f][1] /\ todo[f][1].chunk \in Chunk
    BY <1>0, <2>1
  <2> DEFINE slot == clients[scan[f]]
  <2>4. CASE ~slot.active /\ UNCHANGED out
    BY <2>1, <2>2, <2>4 DEF Idle, OutKept, SendersStay
  <2>5. CASE slot.active /\ todo[f][1].op = "all" /\ SendTo({slot.fd}, todo[f][1].chunk)
    <3>1. Send(f, {slot.fd}, todo[f][1].chunk)
      BY <2>1, <2>3, <2>5, Writes DEF Send, TodoShrinks
    <3> QED
      BY <2>1, <2>5, <3>1 DEF LoopAll
  <2>6. CASE /\ slot.active /\ todo[f][1].op = "names"
             /\ SendTo({f}, Piece(slot.user, FALSE, FALSE))
    <3>1. Piece(slot.user, FALSE, FALSE) \in Chunk
      BY <2>1, PieceType, ConstantsAssumption
      DEF IInv, TypeOK, Client, ConstantsAssumption
    <3>2. Send(f, {f}, Piece(slot.user, FALSE, FALSE))
      BY <2>1, <2>3, <2>6, <3>1, Writes DEF Send, TodoShrinks
    <3> QED
      BY <2>1, <2>6, <3>2 DEF LoopNames
  <2> QED
    BY <1>4, <2>3, <2>4, <2>5, <2>6 DEF loop_over_clients
<1>5. CASE free_lock(f)
  <2>1. /\ scan[f] # 0 /\ Done(f) /\ scan' = [scan EXCEPT ![f] = 0]
        /\ UNCHANGED <<pc, user, clients, received, out>>
    BY <1>0, <1>5 DEF free_lock
  <2>2. LoopEnds(f)
    BY <1>0, <2>1, DoneShrinks DEF LoopEnds
  <2> QED
    BY <2>2
<1> QED
  BY <1>1, <1>2, <1>3, <1>4, <1>5 DEF send_step

\* What one step does, whichever it is.
Sorts == \/ Idle
         \/ \E f \in Fds : \/ Refill(f) \/ SendAll(f) \/ SendUser(f) \/ LoopAll(f)
                           \/ LoopNames(f) \/ LoopEnds(f)

\* ... and so every step is of a sort.
LEMMA StepSorts ==
  ASSUME IInv, [Next]_vars
  PROVE  Sorts
<1>1. CASE UNCHANGED vars
  <2>1. UNCHANGED <<todo, received, clients, pc, user, out, scan>>
    BY <1>1 DEF vars
  <2>2. \A e \in Fds : scan[e] \in Nat
    BY DEF IInv, TypeOK
  <2>3. Idle
    BY <2>1, <2>2 DEF Idle, OutKept, SendersStay
  <2> QED
    BY <2>3 DEF Sorts
<1> QED
  BY <1>1, LifeSorts, SendSorts, CommandSort DEF Next, Sorts
-----------------------------------------------------------------------------
(* The pending sends and the numbers.                                      *)

\* At first nothing is to be sent.
LEMMA InitOrder == Init => NInv
<1> SUFFICES ASSUME Init PROVE NInv
  OBVIOUS
<1>1. /\ \A f \in Fds : todo[f] = <<>> /\ out[f] = <<>>
      /\ Len(<<>>) = 0
  BY DEF Init
<1>2. TodoInv /\ OwnNumber /\ OutInv
  BY <1>1 DEF TodoInv, OwnNumber, OutInv, OpsOK
<1> QED
  BY <1>2, InitInv DEF NInv

\* The sends that remain are as they were.
LEMMA ShorterOps ==
  ASSUME IInv, NEW e \in Fds, todo'[e] = todo[e] \/ Shorter(e)
  PROVE  /\ \A k \in 1 .. Len(todo'[e]) : \E l \in 1 .. Len(todo[e]) :
              todo'[e][k] = todo[e][l]
         /\ OpsOK(todo[e]) => OpsOK(todo'[e])
<1>1. Len(todo[e]) \in Nat
  BY DEF IInv, TypeOK
<1>2. CASE todo'[e] = todo[e]
  BY <1>2
<1>3. CASE Shorter(e)
  <2>1. \A k \in 1 .. Len(todo'[e]) : k + 1 \in 1 .. Len(todo[e])
                                       /\ todo'[e][k] = todo[e][k + 1]
    BY <1>1, <1>3 DEF Shorter
  <2>2. ASSUME OpsOK(todo[e]) PROVE OpsOK(todo'[e])
    <3>1. \A k \in 1 .. Len(todo'[e]) : OpOK(todo'[e][k])
      BY <2>1, <2>2 DEF OpsOK
    <3>2. \A k \in 1 .. Len(todo'[e]) : todo'[e][k].chunk.kind # "all"
      BY <1>1, <2>1, <2>2 DEF OpsOK
    <3>3. \A k \in 2 .. Len(todo'[e]) : todo'[e][k].op # "names"
      BY <1>1, <2>1, <2>2 DEF OpsOK
    <3>4. \A k, l \in 1 .. Len(todo'[e]) :
            todo'[e][k].chunk.val > 0 /\ todo'[e][l].chunk.val > 0 =>
              todo'[e][k].chunk.val = todo'[e][l].chunk.val
      <4>1. ASSUME NEW k \in 1 .. Len(todo'[e]), NEW l \in 1 .. Len(todo'[e]),
                   todo'[e][k].chunk.val > 0, todo'[e][l].chunk.val > 0
            PROVE  todo'[e][k].chunk.val = todo'[e][l].chunk.val
        <5>1. PICK i \in 1 .. Len(todo[e]), j \in 1 .. Len(todo[e]) :
                todo'[e][k] = todo[e][i] /\ todo'[e][l] = todo[e][j]
          BY <2>1
        <5> QED
          BY <2>2, <4>1, <5>1 DEF OpsOK
      <4> QED
        BY <4>1
    <3> QED
      BY <3>1, <3>2, <3>3, <3>4 DEF OpsOK
  <2> QED
    BY <2>1, <2>2
<1> QED
  BY <1>2, <1>3

\* Numbers of lines are numbers: of those to be sent, and of those sent.
LEMMA OpVal ==
  ASSUME IInv
  PROVE  \A e \in Fds : \A k \in 1 .. Len(todo[e]) :
           todo[e][k].chunk.val \in Nat /\ todo[e][k].chunk \in Chunk
<1> SUFFICES ASSUME NEW e \in Fds, NEW k \in 1 .. Len(todo[e])
             PROVE  todo[e][k].chunk.val \in Nat /\ todo[e][k].chunk \in Chunk
  OBVIOUS
<1>1. todo[e] \in Seq(Op)
  BY DEF IInv, TypeOK
<1>2. todo[e][k] \in Op
  BY <1>1
<1> QED
  BY <1>2 DEF Op, Chunk

LEMMA OpValNext ==
  ASSUME IInv'
  PROVE  \A e \in Fds : \A k \in 1 .. Len(todo'[e]) :
           todo'[e][k].chunk.val \in Nat
<1> SUFFICES ASSUME NEW e \in Fds, NEW k \in 1 .. Len(todo'[e])
             PROVE  todo'[e][k].chunk.val \in Nat
  OBVIOUS
<1>1. todo'[e] \in Seq(Op)
  BY DEF IInv, TypeOK
<1>2. todo'[e][k] \in Op
  BY <1>1
<1> QED
  BY <1>2 DEF Op, Chunk

LEMMA OutVal ==
  ASSUME IInv
  PROVE  \A e \in Fds : /\ Len(out[e]) \in Nat
                        /\ \A i \in 1 .. Len(out[e]) : out[e][i].val \in Nat
<1> SUFFICES ASSUME NEW e \in Fds
             PROVE  /\ Len(out[e]) \in Nat
                    /\ \A i \in 1 .. Len(out[e]) : out[e][i].val \in Nat
  OBVIOUS
<1>1. out[e] \in Seq(Chunk)
  BY DEF IInv, TypeOK
<1>2. \A i \in 1 .. Len(out[e]) : out[e][i] \in Chunk
  BY <1>1
<1> QED
  BY <1>1, <1>2 DEF Chunk

\* Lists that only get shorter stay in order.
LEMMA TodoOrder ==
  ASSUME NInv, TodoShrinks, SendersStay, UNCHANGED received
  PROVE  TodoInv' /\ OwnNumber'
<1>1. \A e \in Fds : /\ \A k \in 1 .. Len(todo'[e]) : \E l \in 1 .. Len(todo[e]) :
                          todo'[e][k] = todo[e][l]
                     /\ OpsOK(todo'[e])
  BY ShorterOps DEF NInv, TodoInv, TodoShrinks
<1>2. \A e \in Fds : \A l \in 1 .. Len(todo[e]) :
        Signed(e, todo[e][l]) /\ todo[e] # <<>>
  BY DEF NInv, TodoInv, IInv, TypeOK
<1>3. ASSUME NEW e \in Fds, NEW op, NEW l \in 1 .. Len(todo[e]), op = todo[e][l]
      PROVE  Signed(e, op)'
  <2>1. Signed(e, op) /\ todo[e] # <<>>
    BY <1>2, <1>3
  <2> QED
    BY <2>1 DEF Signed, SendersStay
<1>4. TodoInv'
  <2>1. ASSUME NEW e \in Fds, NEW op, NEW k \in 1 .. Len(todo'[e]), op = todo'[e][k]
        PROVE  Signed(e, op)'
    BY <1>1, <1>3, <2>1
  <2> QED
    BY <1>1, <2>1 DEF TodoInv
<1>5. OwnNumber'
  <2>1. ASSUME NEW e \in Fds, NEW g \in Fds, e # g,
               NEW k \in 1 .. Len(todo'[e]), NEW l \in 1 .. Len(todo'[g]),
               todo'[e][k].chunk.val > 0
        PROVE  todo'[e][k].chunk.val # todo'[g][l].chunk.val
    <3>1. PICK i \in 1 .. Len(todo[e]), j \in 1 .. Len(todo[g]) :
            todo'[e][k] = todo[e][i] /\ todo'[g][l] = todo[g][j]
      BY <1>1
    <3> QED
      BY <2>1, <3>1 DEF NInv, OwnNumber
  <2> QED
    BY <2>1 DEF OwnNumber
<1> QED
  BY <1>4, <1>5

\* A line written has a number given before.
LEMMA WriteOut ==
  ASSUME NInv, NEW chunk, chunk.val <= received, UNCHANGED received,
         \A e \in Fds : out'[e] = out[e] \/ Grown(e, chunk)
  PROVE  OutInv'
<1>1. \A e \in Fds : Len(out[e]) \in Nat
  BY DEF NInv, IInv, TypeOK
<1> QED
  BY <1>1 DEF NInv, OutInv, Grown

\* Every step keeps the lists in order and their numbers apart.
LEMMA NextOrder ==
  ASSUME NInv, IInv', Sorts
  PROVE  NInv'
<1>1. received \in Nat
  BY DEF NInv, IInv, TypeOK
<1>2. CASE Idle
  <2>1. TodoInv' /\ OwnNumber'
    BY <1>2, TodoOrder DEF Idle, TodoShrinks
  <2>2. OutInv'
    BY <1>2 DEF NInv, Idle, OutInv, OutKept
  <2> QED
    BY <2>1, <2>2 DEF NInv
<1>3. ASSUME NEW f \in Fds, Refill(f) PROVE NInv'
  <2>1. \A e \in Fds \ {f} : todo'[e] = todo[e]
    BY <1>3 DEF Refill
  <2>2. ASSUME NEW e \in Fds \ {f}, NEW k \in 1 .. Len(todo[e]),
               NEW op, op = todo[e][k]
        PROVE  Signed(e, op)' /\ op.chunk.val <= received
    <3>1. Signed(e, op) /\ todo[e] # <<>>
      BY <2>2 DEF NInv, TodoInv, IInv, TypeOK
    <3>2. op.chunk.val \in Nat
      BY <2>2, OpVal DEF NInv
    <3>3. received' \in Nat
      BY DEF IInv, TypeOK
    <3> QED
      BY <1>1, <1>3, <3>1, <3>2, <3>3 DEF Signed, Refill, SendersStay
  <2>3. ASSUME NEW k \in 1 .. Len(todo'[f]), NEW op, op = todo'[f][k]
        PROVE  /\ Signed(f, op)'
               /\ op.chunk.val > 0 => received < op.chunk.val
    <3>1. op.chunk.val \in Nat /\ received' \in Nat
      BY <2>3, OpValNext DEF IInv, TypeOK
    <3> QED
      BY <1>1, <1>3, <2>3, <3>1 DEF Signed, Refill
  <2>4. TodoInv'
    <3>1. ASSUME NEW e \in Fds, NEW k \in 1 .. Len(todo'[e]), NEW op, op = todo'[e][k]
          PROVE  Signed(e, op)'
      BY <2>1, <2>2, <2>3, <3>1
    <3>2. \A e \in Fds : OpsOK(todo'[e])
      BY <1>3, <2>1 DEF Refill, NInv, TodoInv
    <3> QED
      BY <3>1, <3>2 DEF TodoInv
  <2>5. OwnNumber'
    <3>1. \A e \in Fds \ {f} : \A k \in 1 .. Len(todo[e]), l \in 1 .. Len(todo'[f]) :
            /\ todo[e][k].chunk.val > 0 => todo[e][k].chunk.val # todo'[f][l].chunk.val
            /\ todo'[f][l].chunk.val > 0 => todo'[f][l].chunk.val # todo[e][k].chunk.val
      <4>1. ASSUME NEW e \in Fds \ {f}, NEW k \in 1 .. Len(todo[e]),
                   NEW l \in 1 .. Len(todo'[f])
            PROVE  /\ todo[e][k].chunk.val > 0 =>
                        todo[e][k].chunk.val # todo'[f][l].chunk.val
                   /\ todo'[f][l].chunk.val > 0 =>
                        todo'[f][l].chunk.val # todo[e][k].chunk.val
        <5>1. todo[e][k].chunk.val \in Nat /\ todo'[f][l].chunk.val \in Nat
          BY OpVal, OpValNext DEF NInv
        <5>2. PICK old, new : old = todo[e][k] /\ new = todo'[f][l]
          OBVIOUS
        <5>3. old.chunk.val <= received
          BY <2>2, <5>2
        <5>4. new.chunk.val > 0 => received < new.chunk.val
          BY <2>3, <5>2
        <5> QED
          BY <1>1, <5>1, <5>2, <5>3, <5>4
      <4> QED
        BY <4>1
    <3> QED
      BY <2>1, <3>1 DEF NInv, OwnNumber
  <2>6. OutInv'
    <3>1. \A e \in Fds : \A i \in 1 .. Len(out[e]) : out[e][i].val \in Nat
      BY OutVal DEF NInv
    <3>2. received' \in Nat
      BY DEF IInv, TypeOK
    <3> QED
      BY <1>1, <1>3, <3>1, <3>2 DEF NInv, OutInv, Refill
  <2> QED
    BY <2>4, <2>5, <2>6 DEF NInv
<1>4. ASSUME NEW f \in Fds, NEW fds, NEW chunk, Send(f, fds, chunk),
             chunk.val <= received
      PROVE  NInv'
  <2>1. TodoInv' /\ OwnNumber'
    BY <1>4, TodoOrder DEF Send, SendersStay
  <2>2. OutInv'
    BY <1>4, WriteOut DEF Send
  <2> QED
    BY <2>1, <2>2 DEF NInv
<1>5. ASSUME NEW f \in Fds, todo[f] # <<>>
      PROVE  todo[f][1].chunk.val <= received
  BY <1>5, HeadFirst DEF NInv, TodoInv, Signed
<1>6. ASSUME NEW who PROVE Piece(who, FALSE, FALSE).val <= received
  BY <1>1 DEF Piece, Line
<1>7. ASSUME NEW f \in Fds, LoopEnds(f) PROVE NInv'
  <2>1. TodoInv' /\ OwnNumber'
    BY <1>7, TodoOrder DEF LoopEnds, SendersStay
  <2>2. OutInv'
    BY <1>7 DEF LoopEnds, NInv, OutInv
  <2> QED
    BY <2>1, <2>2 DEF NInv
<1>8. ASSUME NEW f \in Fds,
             SendAll(f) \/ SendUser(f) \/ LoopAll(f) \/ LoopNames(f)
      PROVE  NInv'
  <2>1. CASE SendAll(f)
    BY <1>4, <1>5, <2>1 DEF SendAll, Send
  <2>2. CASE SendUser(f)
    <3>1. PICK fds : Send(f, fds, todo[f][1].chunk)
      BY <2>2 DEF SendUser
    <3> QED
      BY <1>4, <1>5, <3>1 DEF Send
  <2>3. CASE LoopAll(f)
    BY <1>4, <1>5, <2>3 DEF LoopAll, Send
  <2>4. CASE LoopNames(f)
    BY <1>4, <1>6, <2>4 DEF LoopNames
  <2> QED
    BY <1>8, <2>1, <2>2, <2>3, <2>4
<1> QED
  BY <1>2, <1>3, <1>7, <1>8 DEF Sorts
-----------------------------------------------------------------------------
(* One order of messages to all.                                           *)

Broadcasts(f, n) == /\ todo[f] # <<>> /\ todo[f][1].chunk.kind = "all"
                    /\ todo[f][1].chunk.val = n

\* The slots the loop of f is past.
Reached(f, e) == \E s \in ClientSlots :
                   s < scan[f] /\ clients[s].active /\ clients[s].fd = e

\* A message under way is only where its loop has been, and last there.
BInv == \A f, e \in Fds : \A n \in 1 .. received : Broadcasts(f, n) =>
          \A i \in Positions(e, "all", n) :
            /\ Reached(f, e)
            /\ \A j \in 1 .. Len(out[e]) : out[e][j].kind = "all" => j <= i

TotalInv == NInv /\ BInv /\ BroadcastTotalOrder

AllsKept == \A e \in Fds : \A i \in 1 .. Len(out'[e]) : out'[e][i].kind = "all" =>
              i \in 1 .. Len(out[e]) /\ out'[e][i] = out[e][i]

\* One thread at most is in a loop over clients[].
LEMMA FreeScan ==
  ASSUME IInv
  PROVE  /\ LockFree => \A f \in Fds : scan[f] = 0
         /\ \A f, g \in Fds : scan[f] # 0 /\ scan[g] # 0 => f = g
         /\ \A f \in Fds : scan[f] \in Nat
BY ConstantsAssumption DEF LockFree, IInv, LockInv, TypeOK, ConstantsAssumption

\* A loop that has not begun has reached nobody.
LEMMA NothingReached ==
  ASSUME IInv, NEW f \in Fds, scan[f] = 0, NEW e
  PROVE  ~Reached(f, e)
BY ConstantsAssumption DEF Reached, ClientSlots, ConstantsAssumption

\* Where an earlier loop has been stays where it has been.
LEMMA ReachedStays ==
  ASSUME IInv, NEW f \in Fds, NEW e, Reached(f, e),
         UNCHANGED clients \/ LockFree, scan[f] <= scan'[f], scan'[f] \in Nat
  PROVE  Reached(f, e)'
<1>1. UNCHANGED clients
  BY FreeScan, NothingReached
<1>2. PICK s \in ClientSlots : s < scan[f] /\ clients[s].active /\ clients[s].fd = e
  BY DEF Reached
<1>3. s < scan'[f]
  BY <1>2, FreeScan, ConstantsAssumption DEF ClientSlots, ConstantsAssumption
<1> QED
  BY <1>1, <1>2, <1>3 DEF Reached

\* A step that writes no message to all keeps the order.
LEMMA KeptTotal ==
  ASSUME TotalInv, AllsKept, NInv',
         \A f \in Fds : \A n \in 1 .. received : Broadcasts(f, n)' =>
           /\ Broadcasts(f, n)
           /\ \A e \in Fds : Reached(f, e) => Reached(f, e)'
  PROVE  BInv' /\ BroadcastTotalOrder'
<1>1. received \in Nat /\ received' \in Nat
  BY DEF TotalInv, NInv, IInv, TypeOK
<1>2. ASSUME NEW e \in Fds, NEW n \in 1 .. received',
             NEW i \in Positions(e, "all", n)'
      PROVE  n \in 1 .. received /\ i \in Positions(e, "all", n)
  <2>1. /\ i \in 1 .. Len(out[e]) /\ out'[e][i] = out[e][i]
        /\ out'[e][i].kind = "all" /\ out'[e][i].val = n
    BY <1>2 DEF AllsKept, Positions
  <2>2. n <= received
    BY <2>1 DEF TotalInv, NInv, OutInv
  <2> QED
    BY <1>1, <2>1, <2>2 DEF Positions
<1>3. BInv'
  <2>1. ASSUME NEW f \in Fds, NEW e \in Fds, NEW n \in 1 .. received',
               Broadcasts(f, n)', NEW i \in Positions(e, "all", n)'
        PROVE  /\ Reached(f, e)'
               /\ \A j \in 1 .. Len(out'[e]) : out'[e][j].kind = "all" => j <= i
    <3>1. n \in 1 .. received /\ i \in Positions(e, "all", n)
      BY <1>2, <2>1
    <3>2. Broadcasts(f, n)
      BY <2>1, <3>1
    <3>3. /\ Reached(f, e)
          /\ \A j \in 1 .. Len(out[e]) : out[e][j].kind = "all" => j <= i
      BY <3>1, <3>2 DEF TotalInv, BInv
    <3> QED
      BY <2>1, <3>1, <3>3 DEF AllsKept
  <2> QED
    BY <2>1 DEF BInv
<1>4. BroadcastTotalOrder'
  <2> SUFFICES ASSUME NEW g \in Fds, NEW e \in Fds,
                      NEW m \in 1 .. received', NEW n \in 1 .. received',
                      NEW i \in Positions(g, "all", m)', NEW j \in Positions(g, "all", n)',
                      NEW k \in Positions(e, "all", m)', NEW l \in Positions(e, "all", n)',
                      i < j
               PROVE  k <= l
    BY DEF BroadcastTotalOrder
  <2>1. /\ m \in 1 .. received /\ n \in 1 .. received
        /\ i \in Positions(g, "all", m) /\ j \in Positions(g, "all", n)
        /\ k \in Positions(e, "all", m) /\ l \in Positions(e, "all", n)
    BY <1>2
  <2> QED
    BY <2>1 DEF TotalInv, BroadcastTotalOrder
<1> QED
  BY <1>3, <1>4

\* One turn of the loop of broadcast_message.
LEMMA LoopTotal ==
  ASSUME TotalInv, NInv', NEW f \in Fds, LoopAll(f), todo[f][1].chunk.kind = "all"
  PROVE  BInv' /\ BroadcastTotalOrder'
<1>0. PICK chunk, n0, s0, e0 :
        /\ chunk = todo[f][1].chunk /\ n0 = chunk.val
        /\ s0 = scan[f] /\ e0 = clients[s0].fd
  OBVIOUS
<1>a. IInv /\ todo[f] # <<>> /\ todo'[f] = todo[f] /\ Send(f, {e0}, chunk)
  BY <1>0 DEF TotalInv, NInv, LoopAll, Send
<1>b. /\ received \in Nat /\ received' = received
      /\ \A e \in Fds : Len(out[e]) \in Nat
  BY <1>a, OutVal DEF IInv, TypeOK, Send
<1>c. /\ s0 \in ClientSlots /\ clients[s0].active /\ s0 # 0
      /\ scan'[f] = s0 + 1 /\ s0 \in Nat /\ UNCHANGED clients
  BY <1>0, ConstantsAssumption DEF LoopAll, Send, ClientSlots, ConstantsAssumption
<1>d. /\ \A e \in Fds : out'[e] = out[e] \/ (e = e0 /\ Grown(e, chunk))
      /\ \A g \in Fds \ {f} : todo'[g] = todo[g] /\ scan'[g] = scan[g]
  BY <1>a DEF Send
<1>1. n0 \in 1 .. received /\ Broadcasts(f, n0) /\ Broadcasts(f, n0)'
  <2>1. OpOK(todo[f][1]) /\ Signed(f, todo[f][1]) /\ chunk.val \in Nat
    BY <1>0, <1>a, <1>b, <1>c, <1>d, HeadFirst DEF TotalInv, NInv, TodoInv, OpsOK
  <2>2. n0 > 0 /\ n0 <= received
    BY <1>0, <2>1 DEF OpOK, Signed
  <2> QED
    BY <1>0, <1>a, <1>b, <1>c, <1>d, <2>1, <2>2 DEF Broadcasts
<1>2. ~Reached(f, e0)
  <2>1. ASSUME NEW s \in ClientSlots, s < s0, clients[s].active, clients[s].fd = e0
        PROVE  FALSE
    <3>1. s # s0
      BY <1>c, <2>1
    <3>2. s0 \in ClientSlots /\ clients[s0].active /\ clients[s0].fd = e0
      BY <1>0, <1>c
    <3>3. SlotsMatchConnections
      BY <1>a DEF IInv
    <3> QED
      BY <2>1, <3>1, <3>2, <3>3 DEF SlotsMatchConnections
  <2> QED
    BY <1>0, <2>1 DEF Reached
<1>3. ASSUME NEW e \in Fds, NEW n, NEW i \in Positions(e, "all", n)'
      PROVE  \/ i \in Positions(e, "all", n)
             \/ n = n0 /\ e = e0 /\ i = Len(out[e]) + 1 /\ i = Len(out'[e])
  <2>1. i \in 1 .. Len(out'[e]) /\ out'[e][i].kind = "all" /\ out'[e][i].val = n
    BY DEF Positions
  <2>2. CASE out'[e] = out[e]
    BY <2>1, <2>2 DEF Positions
  <2>3. CASE e = e0 /\ Grown(e, chunk)
    <3>1. /\ Len(out'[e]) = Len(out[e]) + 1
          /\ \A j \in 1 .. Len(out[e]) : out'[e][j] = out[e][j]
          /\ out'[e][Len(out[e]) + 1] = chunk
      BY <2>3 DEF Grown
    <3>2. CASE i = Len(out[e]) + 1
      BY <1>0, <2>1, <2>3, <3>1, <3>2
    <3>3. CASE i \in 1 .. Len(out[e])
      BY <2>1, <3>1, <3>3 DEF Positions
    <3> QED
      BY <1>0, <1>a, <1>b, <1>c, <1>d, <2>1, <3>1, <3>2, <3>3
  <2> QED
    BY <1>0, <1>a, <1>b, <1>c, <1>d, <2>2, <2>3
<1>4. ASSUME NEW e \in Fds, NEW i \in Positions(e, "all", n0)'
      PROVE  /\ Reached(f, e)'
             /\ \A j \in 1 .. Len(out'[e]) : out'[e][j].kind = "all" => j <= i
  <2>1. CASE e = e0 /\ i = Len(out'[e])
    <3>1. Reached(f, e)'
      <4>1. s0 < scan'[f]
        BY <1>0, <1>a, <1>b, <1>c, <1>d
      <4>2. clients'[s0].active /\ clients'[s0].fd = e
        BY <1>0, <1>a, <1>b, <1>c, <1>d, <2>1
      <4> QED
        BY <1>0, <1>a, <1>b, <1>c, <1>d, <4>1, <4>2 DEF Reached
    <3>2. Len(out'[e]) \in Nat
      BY DEF NInv, IInv, TypeOK
    <3> QED
      BY <2>1, <3>1, <3>2
  <2>2. CASE i \in Positions(e, "all", n0)
    <3>1. /\ Reached(f, e)
          /\ \A j \in 1 .. Len(out[e]) : out[e][j].kind = "all" => j <= i
      BY <1>1, <2>2 DEF TotalInv, BInv
    <3>2. e # e0
      BY <1>2, <3>1
    <3>3. out'[e] = out[e]
      BY <1>0, <1>a, <1>b, <1>c, <1>d, <3>2
    <3>4. Reached(f, e)'
      <4>1. s0 <= s0 + 1 /\ s0 + 1 \in Nat
        BY <1>0, <1>a, <1>b, <1>c, <1>d
      <4> QED
        BY <1>0, <1>a, <1>b, <1>c, <1>d, <3>1, <4>1, ReachedStays
    <3> QED
      BY <3>1, <3>3, <3>4
  <2> QED
    BY <1>3, <2>1, <2>2
<1>5. BInv'
  <2> SUFFICES ASSUME NEW g \in Fds, NEW e \in Fds, NEW n \in 1 .. received,
                      Broadcasts(g, n)', NEW i \in Positions(e, "all", n)'
               PROVE  /\ Reached(g, e)'
                      /\ \A j \in 1 .. Len(out'[e]) : out'[e][j].kind = "all" => j <= i
    BY <1>0, <1>a, <1>b, <1>c, <1>d DEF BInv
  <2>1. CASE g = f
    <3>1. n = n0
      BY <1>1, <2>1 DEF Broadcasts
    <3> QED
      BY <1>4, <2>1, <3>1
  <2>2. CASE g # f
    <3>1. scan[g] = 0 /\ Broadcasts(g, n)
      BY <1>0, <1>a, <1>b, <1>c, <1>d, <2>2, FreeScan DEF Broadcasts
    <3>2. n # n0
      <4>1. /\ 1 \in 1 .. Len(todo[g]) /\ 1 \in 1 .. Len(todo[f])
            /\ todo[g][1].chunk.val = n /\ todo[f][1].chunk.val = n0
        BY <1>0, <1>a, <1>b, <1>c, <1>d, <1>1, <3>1, HeadFirst DEF Broadcasts
      <4> QED
        BY <1>0, <1>a, <1>b, <1>c, <1>d, <1>1, <2>2, <4>1 DEF TotalInv, NInv, OwnNumber
    <3>3. i \in Positions(e, "all", n)
      BY <1>3, <3>2
    <3>4. Reached(g, e)
      BY <3>1, <3>3 DEF TotalInv, BInv
    <3> QED
      BY <1>0, <1>a, <1>b, <1>c, <1>d, <3>1, <3>4, NothingReached
  <2> QED
    BY <2>1, <2>2
<1>6. BroadcastTotalOrder'
  <2> SUFFICES ASSUME NEW g \in Fds, NEW e \in Fds,
                      NEW m \in 1 .. received, NEW n \in 1 .. received,
                      NEW i \in Positions(g, "all", m)', NEW j \in Positions(g, "all", n)',
                      NEW k \in Positions(e, "all", m)', NEW l \in Positions(e, "all", n)',
                      i < j
               PROVE  k <= l
    BY <1>0, <1>a, <1>b, <1>c, <1>d DEF BroadcastTotalOrder
  <2>1. /\ j \in 1 .. Len(out'[g]) /\ out'[g][j].kind = "all" /\ i \in Nat /\ j \in Nat
        /\ k \in 1 .. Len(out'[e]) /\ out'[e][k].kind = "all"
    BY DEF Positions
  <2>2. CASE m = n0
    BY <1>4, <2>1, <2>2
  <2>3. CASE n = n0
    BY <1>4, <2>1, <2>3
  <2>4. CASE m # n0 /\ n # n0
    <3>1. /\ i \in Positions(g, "all", m) /\ j \in Positions(g, "all", n)
          /\ k \in Positions(e, "all", m) /\ l \in Positions(e, "all", n)
      BY <1>3, <2>4
    <3> QED
      BY <3>1 DEF TotalInv, BroadcastTotalOrder
  <2> QED
    BY <2>2, <2>3, <2>4
<1> QED
  BY <1>5, <1>6

\* After its first send a thread has no message to all left.
LEMMA AllIsAlone ==
  ASSUME NInv, IInv', NEW f \in Fds, Shorter(f)
  PROVE  \A n : ~Broadcasts(f, n)'
<1> SUFFICES ASSUME NEW n, Broadcasts(f, n)' PROVE FALSE
  OBVIOUS
<1>1. todo[f] \in Seq(Op) /\ OpsOK(todo[f])
  BY DEF NInv, TodoInv, IInv, TypeOK
<1>2. todo'[f] \in Seq(Op)
  BY DEF IInv, TypeOK
<1>3. Len(todo'[f]) > 0 /\ todo'[f][1].chunk.kind = "all"
  BY <1>2 DEF Broadcasts
<1>4. 2 \in 1 .. Len(todo[f]) /\ todo[f][2].chunk.kind = "all"
  BY <1>1, <1>3 DEF Shorter
<1> QED
  BY <1>1, <1>4 DEF OpsOK

\* A chunk of another kind adds no message to all.
LEMMA GrownAlls ==
  ASSUME NInv, NEW chunk, chunk.kind # "all",
         \A e \in Fds : out'[e] = out[e] \/ Grown(e, chunk)
  PROVE  AllsKept
<1>1. \A e \in Fds : Len(out[e]) \in Nat
  BY OutVal DEF NInv
<1> QED
  BY <1>1 DEF AllsKept, Grown

\* The step of a thread whose send is no message to all.
LEMMA SendTotal ==
  ASSUME TotalInv, NInv', NEW f \in Fds, NEW fds, NEW chunk, Send(f, fds, chunk),
         chunk.kind # "all", Shorter(f) \/ todo'[f] = todo[f], scan[f] <= scan'[f]
  PROVE  BInv' /\ BroadcastTotalOrder'
<1>1. AllsKept
  BY GrownAlls DEF Send, TotalInv
<1>2. ASSUME NEW g \in Fds, NEW n \in 1 .. received, Broadcasts(g, n)'
      PROVE  /\ Broadcasts(g, n)
             /\ \A e \in Fds : Reached(g, e) => Reached(g, e)'
  <2>1. todo'[g] = todo[g] /\ scan[g] <= scan'[g] /\ UNCHANGED clients
    BY <1>2, AllIsAlone, FreeScan DEF Send, TotalInv, NInv
  <2>2. Broadcasts(g, n)
    BY <1>2, <2>1 DEF Broadcasts
  <2>3. scan'[g] \in Nat
    BY DEF NInv, IInv, TypeOK
  <2> QED
    BY <2>1, <2>2, <2>3, ReachedStays DEF TotalInv, NInv
<1> QED
  BY <1>1, <1>2, KeptTotal

\* Every step keeps the order of the messages to all.
LEMMA NextTotal ==
  ASSUME TotalInv, NInv', Sorts
  PROVE  TotalInv'
<1>0. /\ \A e \in Fds : scan[e] \in Nat /\ scan'[e] \in Nat
      /\ IInv /\ received \in Nat /\ received' \in Nat
  BY DEF TotalInv, NInv, IInv, TypeOK
<1>1. CASE Idle
  <2>1. AllsKept
    BY <1>1 DEF Idle, OutKept, AllsKept
  <2>2. ASSUME NEW g \in Fds, NEW n \in 1 .. received, Broadcasts(g, n)'
        PROVE  /\ Broadcasts(g, n)
               /\ \A e \in Fds : Reached(g, e) => Reached(g, e)'
    BY <1>0, <1>1, <2>2, ReachedStays DEF Idle, Broadcasts
  <2> QED
    BY <2>1, <2>2, KeptTotal DEF TotalInv
<1>2. ASSUME NEW f \in Fds, Refill(f) PROVE TotalInv'
  <2>1. AllsKept
    BY <1>2 DEF Refill, AllsKept
  <2>2. ASSUME NEW g \in Fds, NEW n \in 1 .. received, Broadcasts(g, n)'
        PROVE  /\ Broadcasts(g, n)
               /\ \A e \in Fds : Reached(g, e) => Reached(g, e)'
    <3>1. CASE g = f
      <4>1. /\ 1 \in 1 .. Len(todo'[f]) /\ todo'[f][1].chunk.val = n
        BY <2>2, <3>1 DEF Broadcasts, NInv, IInv, TypeOK
      <4> QED
        BY <1>0, <1>2, <4>1 DEF Refill
    <3>2. CASE g # f
      BY <1>0, <1>2, <2>2, <3>2, ReachedStays DEF Refill, Broadcasts
    <3> QED
      BY <3>1, <3>2
  <2> QED
    BY <2>1, <2>2, KeptTotal DEF TotalInv
<1>3. ASSUME NEW f \in Fds, todo[f] # <<>>
      PROVE  OpOK(todo[f][1])
  BY <1>3, HeadFirst DEF TotalInv, NInv, TodoInv, OpsOK
<1>4. ASSUME NEW f \in Fds, SendAll(f) PROVE TotalInv'
  <2>1. Send(f, {f}, todo[f][1].chunk) /\ Shorter(f) /\ scan'[f] = scan[f]
        /\ todo[f][1].op = "reply" /\ todo[f] # <<>>
    BY <1>4 DEF SendAll, Send
  <2>2. PICK chunk : chunk = todo[f][1].chunk
    OBVIOUS
  <2>3. chunk.kind # "all"
    BY <1>3, <2>1, <2>2 DEF OpOK
  <2> QED
    BY <1>0, <2>1, <2>2, <2>3, SendTotal DEF TotalInv
<1>5. ASSUME NEW f \in Fds, SendUser(f) PROVE TotalInv'
  <2>1. PICK fds : Send(f, fds, todo[f][1].chunk)
    BY <1>5 DEF SendUser
  <2>2. Shorter(f) /\ scan'[f] = scan[f] /\ todo[f][1].op = "user" /\ todo[f] # <<>>
    BY <1>5, <2>1 DEF SendUser, Send
  <2>3. PICK chunk : chunk = todo[f][1].chunk
    OBVIOUS
  <2>4. chunk.kind # "all"
    BY <1>3, <2>2, <2>3 DEF OpOK
  <2> QED
    BY <1>0, <2>1, <2>2, <2>3, <2>4, SendTotal DEF TotalInv
<1>6. ASSUME NEW f \in Fds, LoopAll(f) PROVE TotalInv'
  <2>1. CASE todo[f][1].chunk.kind = "all"
    BY <1>6, <2>1, LoopTotal DEF TotalInv
  <2>2. CASE todo[f][1].chunk.kind # "all"
    <3>1. PICK fds, chunk : chunk = todo[f][1].chunk /\ Send(f, fds, chunk)
      BY <1>6 DEF LoopAll
    <3>2. todo'[f] = todo[f] /\ scan'[f] = scan[f] + 1
      BY <1>6 DEF LoopAll
    <3> QED
      BY <1>0, <2>2, <3>1, <3>2, SendTotal DEF TotalInv
  <2> QED
    BY <2>1, <2>2
<1>7. ASSUME NEW f \in Fds, LoopNames(f) PROVE TotalInv'
  <2>1. PICK chunk : /\ chunk = Piece(clients[scan[f]].user, FALSE, FALSE)
                     /\ Send(f, {f}, chunk)
    BY <1>7 DEF LoopNames
  <2>2. todo'[f] = todo[f] /\ scan'[f] = scan[f] + 1
    BY <1>7 DEF LoopNames
  <2>3. chunk.kind # "all" /\ scan[f] <= scan'[f]
    BY <1>0, <2>1, <2>2 DEF Piece, Line
  <2>4. BInv' /\ BroadcastTotalOrder'
    BY <2>1, <2>2, <2>3, SendTotal
  <2> QED
    BY <2>4 DEF TotalInv
<1>8. ASSUME NEW f \in Fds, LoopEnds(f) PROVE TotalInv'
  <2>1. AllsKept
    BY <1>8 DEF LoopEnds, AllsKept
  <2>2. ASSUME NEW g \in Fds, NEW n \in 1 .. received, Broadcasts(g, n)'
        PROVE  /\ Broadcasts(g, n)
               /\ \A e \in Fds : Reached(g, e) => Reached(g, e)'
    <3>1. g # f
      BY <1>8, <2>2, AllIsAlone DEF LoopEnds, TotalInv, NInv
    <3> QED
      BY <1>0, <1>8, <2>2, <3>1, ReachedStays DEF LoopEnds, Broadcasts
  <2> QED
    BY <2>1, <2>2, KeptTotal DEF TotalInv
<1> QED
  BY <1>1, <1>2, <1>4, <1>5, <1>6, <1>7, <1>8 DEF Sorts
-----------------------------------------------------------------------------
(* The order of one sender's lines.                                        *)

\* Nothing written is newer than what its sender has still to send.
SInv == \A e, g \in Fds :
  \A i \in 1 .. Len(out[e]), k \in 1 .. Len(todo[g]) :
    /\ out[e][i].val > 0 /\ todo[g][k].chunk.val > 0
    /\ out[e][i].from = todo[g][k].chunk.from
    => out[e][i].val <= todo[g][k].chunk.val

SenderInv == NInv /\ SInv /\ SenderOrder

NumbersKept == \A e \in Fds : \A i \in 1 .. Len(out'[e]) : out'[e][i].val > 0 =>
                 i \in 1 .. Len(out[e]) /\ out'[e][i] = out[e][i]

SendsOldOrNew == \A e \in Fds : \A k \in 1 .. Len(todo'[e]) :
  \/ \E l \in 1 .. Len(todo[e]) : todo'[e][k] = todo[e][l]
  \/ todo'[e][k].chunk.val > 0 => received < todo'[e][k].chunk.val

\* A list that only gets shorter holds nothing new.
LEMMA ShrinksOld ==
  ASSUME IInv, TodoShrinks
  PROVE  SendsOldOrNew
BY ShorterOps DEF TodoShrinks, SendsOldOrNew

\* A step that writes no numbered line keeps the order of each sender's.
LEMMA KeptSender ==
  ASSUME SenderInv, IInv', NumbersKept, SendsOldOrNew
  PROVE  SInv' /\ SenderOrder'
<1>1. SInv'
  <2> SUFFICES ASSUME NEW e \in Fds, NEW g \in Fds,
                      NEW i \in 1 .. Len(out'[e]), NEW k \in 1 .. Len(todo'[g]),
                      out'[e][i].val > 0, todo'[g][k].chunk.val > 0,
                      out'[e][i].from = todo'[g][k].chunk.from
               PROVE  out'[e][i].val <= todo'[g][k].chunk.val
    BY DEF SInv
  <2>0. i \in 1 .. Len(out[e]) /\ out'[e][i] = out[e][i]
    BY DEF NumbersKept
  <2>1. /\ out[e][i].val <= received /\ out[e][i].val \in Nat /\ received \in Nat
        /\ todo'[g][k].chunk.val \in Nat
    <3>1. out[e][i].val \in Nat /\ todo'[g][k].chunk.val \in Nat
      BY <2>0, OutVal, OpValNext DEF SenderInv, NInv
    <3>2. received \in Nat
      BY DEF IInv, TypeOK, SenderInv, NInv
    <3>3. OutInv
      BY DEF SenderInv, NInv
    <3>4. out[e][i].val <= received
      BY <2>0, <3>3 DEF OutInv
    <3> QED
      BY <3>1, <3>2, <3>4
  <2>2. CASE received < todo'[g][k].chunk.val
    BY <2>0, <2>1, <2>2
  <2>3. ASSUME NEW l \in 1 .. Len(todo[g]), todo'[g][k] = todo[g][l]
        PROVE  out'[e][i].val <= todo'[g][k].chunk.val
    BY <2>0, <2>3 DEF SenderInv, SInv
  <2> QED
    BY <2>2, <2>3 DEF SendsOldOrNew
<1>2. SenderOrder'
  <2> SUFFICES ASSUME NEW e \in Fds, NEW i \in 1 .. Len(out'[e]),
                      NEW j \in 1 .. Len(out'[e]), i < j,
                      out'[e][i].from = out'[e][j].from,
                      out'[e][i].val > 0, out'[e][j].val > 0
               PROVE  out'[e][i].val <= out'[e][j].val
    BY DEF SenderOrder
  <2> QED
    BY DEF NumbersKept, SenderInv, SenderOrder
<1> QED
  BY <1>1, <1>2

\* A thread writes the first line it has to send.
LEMMA SendSender ==
  ASSUME SenderInv, IInv', NEW f \in Fds, NEW fds, NEW chunk,
         chunk = todo[f][1].chunk, Send(f, fds, chunk)
  PROVE  SInv' /\ SenderOrder'
<1>0. /\ IInv /\ todo[f] # <<>> /\ 1 \in 1 .. Len(todo[f])
      /\ Signed(f, todo[f][1]) /\ OpsOK(todo[f]) /\ chunk.val \in Nat
  BY HeadFirst DEF SenderInv, NInv, TodoInv, Send
<1>1. /\ \A e \in Fds : Len(out[e]) \in Nat
      /\ \A e \in Fds : out'[e] = out[e] \/ Grown(e, chunk)
  BY <1>0, OutVal DEF Send
<1>2. ASSUME NEW e \in Fds, NEW i \in 1 .. Len(out'[e])
      PROVE  \/ i \in 1 .. Len(out[e]) /\ out'[e][i] = out[e][i]
             \/ i = Len(out[e]) + 1 /\ out'[e][i] = chunk
  BY <1>1 DEF Grown
<1>3. ASSUME NEW g \in Fds, NEW k \in 1 .. Len(todo'[g])
      PROVE  \E l \in 1 .. Len(todo[g]) : todo'[g][k] = todo[g][l]
  BY <1>0, ShorterOps DEF Send, TodoShrinks
<1>4. ASSUME NEW g \in Fds, NEW l \in 1 .. Len(todo[g]),
             chunk.val > 0, todo[g][l].chunk.val > 0,
             chunk.from = todo[g][l].chunk.from
      PROVE  chunk.val = todo[g][l].chunk.val
  <2>1. /\ pc[f] = "serving" /\ user[f] = chunk.from
        /\ pc[g] = "serving" /\ user[g] = chunk.from
    BY <1>0, <1>4 DEF SenderInv, NInv, TodoInv, Signed
  <2>2. PICK i \in ClientSlots, j \in ClientSlots :
          /\ clients[i].active /\ clients[i].fd = f
          /\ clients[j].active /\ clients[j].fd = g
    BY <1>0, <2>1 DEF IInv, SlotsMatchConnections
  <2>3. clients[i].user = clients[j].user
    BY <1>0, <2>1, <2>2 DEF IInv, SlotsMatchConnections
  <2>4. f = g
    BY <1>0, <2>2, <2>3 DEF IInv, SlotsMatchConnections
  <2> QED
    BY <1>0, <1>4, <2>4 DEF OpsOK
<1>5. SInv'
  <2> SUFFICES ASSUME NEW e \in Fds, NEW g \in Fds,
                      NEW i \in 1 .. Len(out'[e]), NEW k \in 1 .. Len(todo'[g]),
                      out'[e][i].val > 0, todo'[g][k].chunk.val > 0,
                      out'[e][i].from = todo'[g][k].chunk.from
               PROVE  out'[e][i].val <= todo'[g][k].chunk.val
    BY DEF SInv
  <2>1. PICK l \in 1 .. Len(todo[g]) : todo'[g][k] = todo[g][l]
    BY <1>3
  <2>2. CASE i \in 1 .. Len(out[e]) /\ out'[e][i] = out[e][i]
    BY <2>1, <2>2 DEF SenderInv, SInv
  <2>3. CASE out'[e][i] = chunk
    BY <1>0, <1>4, <2>1, <2>3
  <2> QED
    BY <1>2, <2>2, <2>3
<1>6. SenderOrder'
  <2> SUFFICES ASSUME NEW e \in Fds, NEW i \in 1 .. Len(out'[e]),
                      NEW j \in 1 .. Len(out'[e]), i < j,
                      out'[e][i].from = out'[e][j].from,
                      out'[e][i].val > 0, out'[e][j].val > 0
               PROVE  out'[e][i].val <= out'[e][j].val
    BY DEF SenderOrder
  <2>1. i \in 1 .. Len(out[e]) /\ out'[e][i] = out[e][i]
    BY <1>1, <1>2 DEF Grown
  <2>2. CASE j \in 1 .. Len(out[e]) /\ out'[e][j] = out[e][j]
    BY <2>1, <2>2 DEF SenderInv, SenderOrder
  <2>3. CASE out'[e][j] = chunk
    BY <1>0, <2>1, <2>3 DEF SenderInv, SInv
  <2> QED
    BY <1>2, <2>2, <2>3
<1> QED
  BY <1>5, <1>6

\* Every step keeps the order of each sender's lines.
LEMMA NextSender ==
  ASSUME SenderInv, NInv', Sorts
  PROVE  SenderInv'
<1>0. IInv /\ IInv'
  BY DEF SenderInv, NInv
<1>1. CASE Idle
  <2>1. NumbersKept
    BY <1>1 DEF Idle, OutKept, NumbersKept
  <2>2. SendsOldOrNew
    BY <1>1 DEF Idle, SendsOldOrNew
  <2> QED
    BY <1>0, <2>1, <2>2, KeptSender DEF SenderInv
<1>2. ASSUME NEW f \in Fds, Refill(f) PROVE SenderInv'
  <2>1. NumbersKept
    BY <1>2 DEF Refill, NumbersKept
  <2>2. SendsOldOrNew
    BY <1>2 DEF Refill, SendsOldOrNew
  <2> QED
    BY <1>0, <2>1, <2>2, KeptSender DEF SenderInv
<1>3. ASSUME NEW f \in Fds, SendAll(f) \/ SendUser(f) \/ LoopAll(f) PROVE SenderInv'
  <2>1. PICK fds, chunk : chunk = todo[f][1].chunk /\ Send(f, fds, chunk)
    BY <1>3 DEF SendAll, SendUser, LoopAll
  <2> QED
    BY <1>0, <2>1, SendSender DEF SenderInv
<1>4. ASSUME NEW f \in Fds, LoopNames(f) PROVE SenderInv'
  <2>1. PICK chunk : /\ chunk = Piece(clients[scan[f]].user, FALSE, FALSE)
                     /\ Send(f, {f}, chunk)
    BY <1>4 DEF LoopNames
  <2>2. chunk.val = 0
    BY <2>1 DEF Piece, Line
  <2>3. NumbersKept
    <3>1. \A e \in Fds : Len(out[e]) \in Nat /\ (out'[e] = out[e] \/ Grown(e, chunk))
      BY <1>0, <2>1, OutVal DEF Send
    <3> QED
      BY <2>2, <3>1 DEF NumbersKept, Grown
  <2>4. SendsOldOrNew
    BY <1>0, <2>1, ShrinksOld DEF Send
  <2> QED
    BY <1>0, <2>3, <2>4, KeptSender DEF SenderInv
<1>5. ASSUME NEW f \in Fds, LoopEnds(f) PROVE SenderInv'
  <2>1. NumbersKept
    BY <1>5 DEF LoopEnds, NumbersKept
  <2>2. SendsOldOrNew
    BY <1>0, <1>5, ShrinksOld DEF LoopEnds
  <2> QED
    BY <1>0, <2>1, <2>2, KeptSender DEF SenderInv
<1> QED
  BY <1>1, <1>2, <1>3, <1>4, <1>5 DEF Sorts
-----------------------------------------------------------------------------
(* One answer to /who names nobody twice.                                  *)

Named(e, i) == out[e][i].kind = "piece" /\ out[e][i].from # NoUser

\* A later answer has begun since.
Over(e, i) == \E k \in i .. Len(out[e]) : out[e][k].kind = "piece" /\ out[e][k].bol

Listed(e, u) == \E s \in ClientSlots :
                  s < scan[e] /\ clients[s].active /\ clients[s].user = u

\* While /who is answered, every name written is of an earlier answer, or of
\* a slot the loop is past.
WInv == \A e \in Fds : todo[e] # <<>> /\ todo[e][1].op = "names" =>
          \A i \in 1 .. Len(out[e]) :
            Named(e, i) => Over(e, i) \/ Listed(e, out[e][i].from)

Distinct(e) == \A i, j \in 1 .. Len(out[e]) :
  i < j /\ Named(e, i) /\ Named(e, j) /\ out[e][i].from = out[e][j].from
  => \E k \in i .. j : out[e][k].kind = "piece" /\ out[e][k].bol

NamesInv == NInv /\ WInv /\ \A e \in Fds : Distinct(e)

NamesKept(e) == \A i \in 1 .. Len(out'[e]) : Named(e, i)' =>
                  i \in 1 .. Len(out[e]) /\ out'[e][i] = out[e][i]

Extends(e) == \A i \in 1 .. Len(out[e]) :
                i \in 1 .. Len(out'[e]) /\ out'[e][i] = out[e][i]

\* Who was listed stays listed while the loop of /who goes on: clients[] does not
\* change under the lock.
LEMMA ListedStays ==
  ASSUME IInv, NEW e \in Fds, NEW u, Listed(e, u),
         UNCHANGED clients \/ LockFree, scan[e] <= scan'[e], scan'[e] \in Nat
  PROVE  Listed(e, u)'
<1>1. PICK s \in ClientSlots : s < scan[e] /\ clients[s].active /\ clients[s].user = u
  BY DEF Listed
<1>2. s \in Nat /\ s > 0 /\ scan[e] \in Nat
  BY FreeScan, ConstantsAssumption DEF ClientSlots, ConstantsAssumption
<1>3. UNCHANGED clients
  BY <1>1, <1>2, FreeScan
<1>4. s < scan'[e]
  BY <1>1, <1>2
<1> QED
  BY <1>1, <1>3, <1>4 DEF Listed

\* What the second conjunct needs at one connection, no name being written.
LEMMA KeptNames ==
  ASSUME NamesInv, NEW e \in Fds, NamesKept(e), Extends(e) \/ out'[e] = <<>>
  PROVE  Distinct(e)'
<1> SUFFICES ASSUME NEW i \in 1 .. Len(out'[e]), NEW j \in 1 .. Len(out'[e]),
                    i < j, Named(e, i)', Named(e, j)',
                    out'[e][i].from = out'[e][j].from
             PROVE  \E k \in i .. j : out'[e][k].kind = "piece" /\ out'[e][k].bol
  BY DEF Distinct
<1>1. /\ i \in 1 .. Len(out[e]) /\ out'[e][i] = out[e][i]
      /\ j \in 1 .. Len(out[e]) /\ out'[e][j] = out[e][j]
  BY DEF NamesKept
<1>2. Named(e, i) /\ Named(e, j)
  BY <1>1 DEF Named
<1>3. PICK k \in i .. j : out[e][k].kind = "piece" /\ out[e][k].bol
  BY <1>1, <1>2 DEF NamesInv, Distinct
<1>4. k \in 1 .. Len(out[e]) /\ out'[e] # <<>>
  BY <1>1, OutVal DEF NamesInv, NInv
<1>5. out'[e][k] = out[e][k]
  BY <1>4 DEF Extends
<1> QED
  BY <1>3, <1>5

\* ... and what the first conjunct needs, the loop of e going on.
LEMMA KeptListed ==
  ASSUME NamesInv, NEW e \in Fds, NamesKept(e), Extends(e) \/ out'[e] = <<>>,
         todo[e] # <<>>, todo[e][1].op = "names",
         UNCHANGED clients \/ LockFree, scan[e] <= scan'[e], scan'[e] \in Nat
  PROVE  \A i \in 1 .. Len(out'[e]) :
           Named(e, i)' => Over(e, i)' \/ Listed(e, out[e][i].from)'
<1> SUFFICES ASSUME NEW i \in 1 .. Len(out'[e]), Named(e, i)'
             PROVE  Over(e, i)' \/ Listed(e, out[e][i].from)'
  OBVIOUS
<1>1. i \in 1 .. Len(out[e]) /\ out'[e][i] = out[e][i]
  BY DEF NamesKept
<1>2. Named(e, i)
  BY <1>1 DEF Named
<1>3. PICK u : u = out[e][i].from /\ u = out'[e][i].from
  BY <1>1
<1>4. CASE Over(e, i)
  <2>1. PICK k \in i .. Len(out[e]) : out[e][k].kind = "piece" /\ out[e][k].bol
    BY <1>4 DEF Over
  <2>2. k \in 1 .. Len(out[e]) /\ out'[e] # <<>>
    BY <1>1, OutVal DEF NamesInv, NInv
  <2>3. k \in i .. Len(out'[e]) /\ out'[e][k] = out[e][k]
    BY <2>1, <2>2 DEF Extends
  <2> QED
    BY <2>1, <2>3 DEF Over
<1>5. CASE Listed(e, u)
  <2>1. Listed(e, u)'
    BY <1>5, ListedStays DEF NamesInv, NInv
  <2> QED
    BY <1>3, <2>1 DEF Listed
<1>6. Over(e, i) \/ Listed(e, out[e][i].from)
  BY <1>1, <1>2 DEF NamesInv, WInv
<1> QED
  BY <1>3, <1>4, <1>5, <1>6

\* The names of /who come right after the head of the answer, ...
LEMMA NamesFollowHead ==
  ASSUME NInv, IInv', NEW f \in Fds, Shorter(f), todo'[f] # <<>>,
         todo'[f][1].op = "names"
  PROVE  todo[f][1] = WhoHead
<1>1. todo[f] \in Seq(Op) /\ OpsOK(todo[f])
  BY DEF NInv, TodoInv, IInv, TypeOK
<1>2. todo'[f] \in Seq(Op)
  BY DEF IInv, TypeOK
<1>3. 2 \in 2 .. Len(todo[f]) /\ todo[f][2].op = "names"
  BY <1>1, <1>2 DEF Shorter
<1> QED
  BY <1>1, <1>3 DEF OpsOK

\* ... which begins a line and names nobody.
LEMMA HeadOfWho == /\ WhoHead.op = "reply" /\ WhoHead.chunk.kind = "piece"
                   /\ WhoHead.chunk.bol
<1>1. PICK chunk : chunk = Piece(NoUser, TRUE, FALSE)
  OBVIOUS
<1>2. chunk.kind = "piece" /\ chunk.bol
  BY <1>1 DEF Piece, Line
<1>3. WhoHead.op = "reply" /\ WhoHead.chunk = chunk
  BY <1>1 DEF WhoHead, Reply
<1> QED
  BY <1>2, <1>3

\* A chunk more is one at the end, and names somebody only if it is a name.
LEMMA GrownNames ==
  ASSUME IInv, NEW e \in Fds, NEW chunk, out'[e] = out[e] \/ Grown(e, chunk)
  PROVE  /\ Extends(e)
         /\ (chunk.kind = "piece" => chunk.from = NoUser) => NamesKept(e)
<1>1. Len(out[e]) \in Nat
  BY OutVal
<1>2. CASE out'[e] = out[e]
  BY <1>2 DEF Extends, NamesKept
<1>3. CASE Grown(e, chunk)
  <2>1. /\ Len(out'[e]) = Len(out[e]) + 1
        /\ \A i \in 1 .. Len(out[e]) : out'[e][i] = out[e][i]
        /\ out'[e][Len(out[e]) + 1] = chunk
    BY <1>3 DEF Grown
  <2>2. Extends(e)
    BY <1>1, <2>1 DEF Extends
  <2>3. ASSUME chunk.kind = "piece" => chunk.from = NoUser PROVE NamesKept(e)
    BY <1>1, <2>1, <2>3 DEF NamesKept, Named
  <2> QED
    BY <2>2, <2>3
<1> QED
  BY <1>2, <1>3

\* One turn of the loop of handle_who.
LEMMA LoopWho ==
  ASSUME NamesInv, NInv', NEW f \in Fds, LoopNames(f)
  PROVE  NamesInv'
<1>0. PICK chunk, s0, u0 :
        /\ s0 = scan[f] /\ u0 = clients[s0].user
        /\ chunk = Piece(u0, FALSE, FALSE) /\ Send(f, {f}, chunk)
  BY DEF LoopNames
<1>a. IInv /\ todo[f] # <<>> /\ todo[f][1].op = "names" /\ todo'[f] = todo[f]
  BY <1>0 DEF NamesInv, NInv, LoopNames, Send
<1>b. \A e \in Fds : Len(out[e]) \in Nat /\ Len(out'[e]) \in Nat /\ scan'[e] \in Nat
  BY <1>a, OutVal DEF NInv, IInv, TypeOK
<1>c. /\ s0 \in ClientSlots /\ clients[s0].active /\ s0 # 0
      /\ scan'[f] = s0 + 1 /\ s0 \in Nat /\ UNCHANGED clients
  BY <1>0, ConstantsAssumption DEF LoopNames, Send, ClientSlots, ConstantsAssumption
<1>d. /\ \A e \in Fds : e # f => out'[e] = out[e] /\ todo'[e] = todo[e]
                                 /\ scan'[e] = scan[e]
      /\ out'[f] = out[f] \/ Grown(f, chunk)
      /\ chunk.from = u0 /\ chunk.kind = "piece"
  BY <1>0 DEF Send, Piece, Line
<1>1. ASSUME NEW i \in 1 .. Len(out'[f])
      PROVE  \/ i \in 1 .. Len(out[f]) /\ out'[f][i] = out[f][i]
             \/ i = Len(out[f]) + 1 /\ out'[f][i] = chunk /\ Len(out'[f]) = i
  BY <1>b, <1>d DEF Grown
<1>2. Listed(f, u0)'
  <2>1. s0 < scan'[f] /\ clients'[s0].active /\ clients'[s0].user = u0
    BY <1>0, <1>c
  <2> QED
    BY <1>c, <2>1 DEF Listed
<1>3. ~Listed(f, u0)
  <2>1. ASSUME NEW s \in ClientSlots, s < s0, clients[s].active, clients[s].user = u0
        PROVE  FALSE
    <3>1. s # s0
      BY <1>c, <2>1
    <3>2. s0 \in ClientSlots /\ clients[s0].active /\ clients[s0].user = u0
      BY <1>0, <1>c
    <3>3. SlotsMatchConnections
      BY <1>a DEF IInv
    <3> QED
      BY <2>1, <3>1, <3>2, <3>3 DEF SlotsMatchConnections
  <2> QED
    BY <1>0, <2>1 DEF Listed
<1>4. Extends(f)
  BY <1>a, <1>d, GrownNames
<1>5. ASSUME NEW i \in 1 .. Len(out[f]), Named(f, i)
      PROVE  Over(f, i) \/ Listed(f, out[f][i].from)
  BY <1>5, <1>a DEF NamesInv, WInv
<1>6. ASSUME NEW i \in 1 .. Len(out'[f]), Named(f, i)'
      PROVE  Over(f, i)' \/ Listed(f, out[f][i].from)'
  <2>1. CASE i \in 1 .. Len(out[f]) /\ out'[f][i] = out[f][i]
    <3>1. PICK u : u = out[f][i].from /\ u = out'[f][i].from
      BY <2>1
    <3>2. Named(f, i)
      BY <1>6, <2>1 DEF Named
    <3>3. CASE Over(f, i)
      <4>1. PICK k \in i .. Len(out[f]) : out[f][k].kind = "piece" /\ out[f][k].bol
        BY <3>3 DEF Over
      <4>2. k \in 1 .. Len(out[f])
        BY <1>b, <2>1, <4>1
      <4>3. k \in i .. Len(out'[f]) /\ out'[f][k] = out[f][k]
        BY <1>4, <4>1, <4>2, <1>b DEF Extends
      <4> QED
        BY <4>1, <4>3 DEF Over
    <3>4. CASE Listed(f, u)
      <4>1. Listed(f, u)'
        <5>1. scan[f] <= scan'[f]
          BY <1>0, <1>c
        <5> QED
          BY <1>a, <1>b, <1>c, <3>4, <5>1, ListedStays
      <4> QED
        BY <3>1, <4>1 DEF Listed
    <3> QED
      BY <1>5, <2>1, <3>1, <3>2, <3>3, <3>4
  <2>2. CASE out'[f][i] = chunk
    BY <1>2, <1>d, <2>2 DEF Listed
  <2> QED
    BY <1>1, <2>1, <2>2
<1>7. Distinct(f)'
  <2> SUFFICES ASSUME NEW i \in 1 .. Len(out'[f]), NEW j \in 1 .. Len(out'[f]),
                      i < j, Named(f, i)', Named(f, j)',
                      out'[f][i].from = out'[f][j].from
               PROVE  \E k \in i .. j : out'[f][k].kind = "piece" /\ out'[f][k].bol
    BY DEF Distinct
  <2>1. i \in 1 .. Len(out[f]) /\ out'[f][i] = out[f][i]
    BY <1>1, <1>b
  <2>2. Named(f, i)
    BY <2>1 DEF Named
  <2>3. ASSUME NEW k \in i .. j, k \in 1 .. Len(out[f]),
               out[f][k].kind = "piece", out[f][k].bol
        PROVE  \E l \in i .. j : out'[f][l].kind = "piece" /\ out'[f][l].bol
    BY <1>4, <2>3 DEF Extends
  <2>4. CASE j \in 1 .. Len(out[f]) /\ out'[f][j] = out[f][j]
    <3>1. Named(f, j)
      BY <2>4 DEF Named
    <3>2. PICK k \in i .. j : out[f][k].kind = "piece" /\ out[f][k].bol
      BY <2>1, <2>2, <2>4, <3>1 DEF NamesInv, Distinct
    <3>3. k \in 1 .. Len(out[f])
      BY <1>b, <2>1, <2>4, <3>2
    <3> QED
      BY <2>3, <3>2, <3>3
  <2>5. CASE j = Len(out[f]) + 1 /\ out'[f][j] = chunk
    <3>1. out[f][i].from = u0
      BY <1>d, <2>1, <2>5
    <3>2. Over(f, i)
      BY <1>3, <1>5, <2>1, <2>2, <3>1
    <3>3. PICK k \in i .. Len(out[f]) : out[f][k].kind = "piece" /\ out[f][k].bol
      BY <3>2 DEF Over
    <3>4. k \in i .. j /\ k \in 1 .. Len(out[f])
      BY <1>b, <2>1, <2>5, <3>3
    <3> QED
      BY <2>3, <3>3, <3>4
  <2> QED
    BY <1>1, <2>4, <2>5
<1>8. ASSUME NEW e \in Fds, e # f
      PROVE  /\ NamesKept(e) /\ Extends(e) /\ todo'[e] = todo[e]
             /\ scan[e] <= scan'[e]
  BY <1>8, <1>b, <1>d DEF NamesKept, Extends
<1>9. \A e \in Fds : Distinct(e)'
  BY <1>7, <1>8, KeptNames
<1>10. WInv'
  <2> SUFFICES ASSUME NEW e \in Fds, todo'[e] # <<>>, todo'[e][1].op = "names",
                      NEW i \in 1 .. Len(out'[e]), Named(e, i)'
               PROVE  Over(e, i)' \/ Listed(e, out[e][i].from)'
    BY DEF WInv
  <2>1. CASE e = f
    BY <1>6, <2>1
  <2>2. CASE e # f
    BY <1>8, <1>b, <1>c, <2>2, KeptListed
  <2> QED
    BY <2>1, <2>2
<1> QED
  BY <1>9, <1>10 DEF NamesInv

\* A loop is at a slot after every step.
LEMMA ScanNext ==
  ASSUME IInv'
  PROVE  \A e \in Fds : scan'[e] \in Nat
BY ConstantsAssumption DEF IInv, TypeOK, ConstantsAssumption

\* The sends of a step that writes no name.
LEMMA SendWho ==
  ASSUME NamesInv, NInv', NEW f \in Fds, NEW fds, NEW chunk, Send(f, fds, chunk),
         chunk.kind = "piece" => chunk.from = NoUser,
         scan[f] <= scan'[f],
         \/ todo'[f] = todo[f]
         \/ todo'[f] # <<>> /\ todo'[f][1].op = "names" =>
              \A i \in 1 .. Len(out'[f]) : Named(f, i)' => Over(f, i)'
  PROVE  NamesInv'
<1>0. /\ \A e \in Fds : scan[e] \in Nat /\ scan'[e] \in Nat
      /\ IInv
  BY FreeScan, ScanNext DEF NamesInv, NInv
<1>a. /\ \A e \in Fds \ {f} : todo'[e] = todo[e] /\ scan'[e] = scan[e]
      /\ UNCHANGED clients
      /\ \A e \in Fds : out'[e] = out[e] \/ Grown(e, chunk)
  BY DEF Send
<1>1. \A e \in Fds : NamesKept(e) /\ Extends(e)
  BY <1>0, <1>a, GrownNames
<1>2. \A e \in Fds : Distinct(e)'
  BY <1>1, KeptNames
<1>3. WInv'
  <2> SUFFICES ASSUME NEW e \in Fds, todo'[e] # <<>>, todo'[e][1].op = "names"
               PROVE  \A i \in 1 .. Len(out'[e]) : Named(e, i)' =>
                        Over(e, i)' \/ Listed(e, out[e][i].from)'
    BY DEF WInv
  <2>1. CASE todo'[e] = todo[e]
    <3>1. scan[e] <= scan'[e]
      BY <1>0, <1>a
    <3> QED
      BY <1>0, <1>a, <1>1, <2>1, <3>1, KeptListed
  <2>2. CASE todo'[e] # todo[e]
    BY <1>0, <1>a, <2>2
  <2> QED
    BY <2>1, <2>2
<1> QED
  BY <1>2, <1>3 DEF NamesInv

\* Every step keeps the names of an answer apart.
LEMMA NextWho ==
  ASSUME NamesInv, NInv', Sorts
  PROVE  NamesInv'
<1>0. /\ \A e \in Fds : scan[e] \in Nat /\ scan'[e] \in Nat
      /\ \A e \in Fds : out'[e] \in Seq(Chunk)
      /\ IInv /\ IInv'
  <2>1. IInv /\ IInv'
    BY DEF NamesInv, NInv
  <2>2. \A e \in Fds : out'[e] \in Seq(Chunk)
    BY <2>1 DEF IInv, TypeOK
  <2> QED
    BY <2>1, <2>2, FreeScan, ScanNext
<1>1. ASSUME NEW f \in Fds, todo[f] # <<>>
      PROVE  OpOK(todo[f][1])
  BY <1>1, HeadFirst DEF NamesInv, NInv, TodoInv, OpsOK
<1>2. ASSUME \A e \in Fds : OutKept(e)
      PROVE  \A e \in Fds : NamesKept(e) /\ (Extends(e) \/ out'[e] = <<>>)
  BY <1>2, <1>0 DEF OutKept, NamesKept, Extends
<1>3. CASE Idle
  <2>1. \A e \in Fds : NamesKept(e) /\ (Extends(e) \/ out'[e] = <<>>)
    BY <1>2, <1>3 DEF Idle
  <2>2. \A e \in Fds : Distinct(e)'
    BY <2>1, KeptNames
  <2>3. WInv'
    <3> SUFFICES ASSUME NEW e \in Fds, todo'[e] # <<>>, todo'[e][1].op = "names"
                 PROVE  \A i \in 1 .. Len(out'[e]) : Named(e, i)' =>
                          Over(e, i)' \/ Listed(e, out[e][i].from)'
      BY DEF WInv
    <3>1. /\ todo'[e] = todo[e] /\ scan[e] <= scan'[e]
          /\ UNCHANGED clients \/ LockFree
      BY <1>3 DEF Idle
    <3> QED
      BY <1>0, <2>1, <3>1, KeptListed
  <2> QED
    BY <2>2, <2>3 DEF NamesInv
<1>4. ASSUME NEW f \in Fds, Refill(f) PROVE NamesInv'
  <2>1. \A e \in Fds : NamesKept(e) /\ (Extends(e) \/ out'[e] = <<>>)
    BY <1>2, <1>4 DEF Refill, OutKept
  <2>2. \A e \in Fds : Distinct(e)'
    BY <2>1, KeptNames
  <2>3. WInv'
    <3> SUFFICES ASSUME NEW e \in Fds, todo'[e] # <<>>, todo'[e][1].op = "names"
                 PROVE  \A i \in 1 .. Len(out'[e]) : Named(e, i)' =>
                          Over(e, i)' \/ Listed(e, out[e][i].from)'
      BY DEF WInv
    <3>1. e # f
      <4>1. todo'[e] \in Seq(Op)
        BY <1>0 DEF IInv, TypeOK
      <4>2. Len(todo'[e]) > 0
        BY <4>1
      <4> QED
        BY <1>4, <4>2 DEF Refill
    <3>2. todo'[e] = todo[e] /\ scan'[e] = scan[e] /\ (UNCHANGED clients \/ LockFree)
      BY <1>4, <3>1 DEF Refill
    <3>3. scan[e] <= scan'[e]
      BY <1>0, <3>2
    <3> QED
      BY <1>0, <2>1, <3>2, <3>3, KeptListed
  <2> QED
    BY <2>2, <2>3 DEF NamesInv
<1>5. ASSUME NEW f \in Fds, SendAll(f) PROVE NamesInv'
  <2>0. PICK chunk : chunk = todo[f][1].chunk
    OBVIOUS
  <2>1. Send(f, {f}, chunk) /\ Shorter(f) /\ scan[f] <= scan'[f] /\ todo[f] # <<>>
    BY <1>0, <1>5, <2>0 DEF SendAll, Send
  <2>2. chunk.kind = "piece" => chunk.from = NoUser
    BY <1>1, <2>0, <2>1 DEF OpOK
  <2>3. ASSUME todo'[f] # <<>>, todo'[f][1].op = "names",
               NEW i \in 1 .. Len(out'[f]), Named(f, i)'
        PROVE  Over(f, i)'
    <3>1. chunk.kind = "piece" /\ chunk.bol
      BY <1>0, <2>0, <2>1, <2>3, NamesFollowHead, HeadOfWho DEF NamesInv
    <3>2. "piece" \in Watched
      BY <2>3 DEF NInv, OutInv, Named
    <3>3. Grown(f, chunk)
      BY <2>1, <3>1, <3>2 DEF Send
    <3>4. /\ Len(out'[f]) \in i .. Len(out'[f]) /\ Len(out'[f]) = Len(out[f]) + 1
          /\ out'[f][Len(out[f]) + 1] = chunk
      BY <1>0, <3>3 DEF Grown
    <3> QED
      BY <3>1, <3>4 DEF Over
  <2> QED
    BY <2>1, <2>2, <2>3, SendWho
<1>6. ASSUME NEW f \in Fds, Shorter(f), todo[f][1].op # "reply",
             todo'[f] # <<>>, todo'[f][1].op = "names"
      PROVE  FALSE
  BY <1>0, <1>6, NamesFollowHead, HeadOfWho DEF NamesInv
<1>7. ASSUME NEW f \in Fds, SendUser(f) PROVE NamesInv'
  <2>1. PICK fds, chunk : chunk = todo[f][1].chunk /\ Send(f, fds, chunk)
    BY <1>7 DEF SendUser
  <2>2. /\ Shorter(f) /\ scan[f] <= scan'[f] /\ todo[f] # <<>>
        /\ todo[f][1].op = "user"
    BY <1>0, <1>7, <2>1 DEF SendUser, Send
  <2>3. chunk.kind = "piece" => chunk.from = NoUser
    BY <1>1, <2>1, <2>2 DEF OpOK
  <2>4. ~(todo'[f] # <<>> /\ todo'[f][1].op = "names")
    BY <1>6, <2>2
  <2> QED
    BY <2>1, <2>2, <2>3, <2>4, SendWho
<1>8. ASSUME NEW f \in Fds, LoopAll(f) PROVE NamesInv'
  <2>1. PICK fds, chunk : chunk = todo[f][1].chunk /\ Send(f, fds, chunk)
    BY <1>8 DEF LoopAll
  <2>2. /\ todo'[f] = todo[f] /\ scan[f] <= scan'[f] /\ todo[f] # <<>>
        /\ todo[f][1].op = "all"
    BY <1>0, <1>8, <2>1 DEF LoopAll, Send
  <2>3. chunk.kind = "piece" => chunk.from = NoUser
    BY <1>1, <2>1, <2>2 DEF OpOK
  <2> QED
    BY <2>1, <2>2, <2>3, SendWho
<1>9. ASSUME NEW f \in Fds, LoopEnds(f) PROVE NamesInv'
  <2>1. \A e \in Fds : NamesKept(e) /\ (Extends(e) \/ out'[e] = <<>>)
    BY <1>2, <1>9 DEF LoopEnds, OutKept
  <2>2. \A e \in Fds : Distinct(e)'
    BY <2>1, KeptNames
  <2>3. WInv'
    <3> SUFFICES ASSUME NEW e \in Fds, todo'[e] # <<>>, todo'[e][1].op = "names"
                 PROVE  \A i \in 1 .. Len(out'[e]) : Named(e, i)' =>
                          Over(e, i)' \/ Listed(e, out[e][i].from)'
      BY DEF WInv
    <3>1. e # f
      BY <1>6, <1>9 DEF LoopEnds
    <3>2. todo'[e] = todo[e] /\ scan'[e] = scan[e] /\ UNCHANGED clients
      BY <1>9, <3>1 DEF LoopEnds
    <3>3. scan[e] <= scan'[e]
      BY <1>0, <3>2
    <3> QED
      BY <1>0, <2>1, <3>2, <3>3, KeptListed
  <2> QED
    BY <2>2, <2>3 DEF NamesInv
<1>10. ASSUME NEW f \in Fds, LoopNames(f) PROVE NamesInv'
  BY <1>10, LoopWho
<1> QED
  BY <1>3, <1>4, <1>5, <1>7, <1>8, <1>9, <1>10 DEF Sorts
-----------------------------------------------------------------------------
(* Every member logged in gets the group's line.                           *)

Has(f, n) == \E i \in 1 .. Len(out[f]) : out[f][i].val = n

WillGet(f, n) == \E g \in Fds : \E k \in 1 .. Len(todo[g]) :
  /\ todo[g][k].op = "user" /\ todo[g][k].chunk.val = n
  /\ todo[g][k].chunk.to = user[f] /\ todo[g][k].chunk.kind \in {"group", "key"}

\* Who was logged in when a line was typed, and has not left, is served and
\* has the line or has it coming.
GInv == \A n \in 1 .. MaxCommands : \A e \in audience[n] :
          pc[e] = "serving" /\ (Has(e, n) \/ WillGet(e, n))

DeliveryInv == IInv /\ GInv

Attends(e) == pc'[e] = "serving" /\ user'[e] = user[e] /\ Extends(e)

\* Who must get a line still will, or has it, when nobody is added and what is
\* pending is not lost.
LEMMA KeptAudience ==
  ASSUME DeliveryInv,
         \A n \in 1 .. MaxCommands : \A e \in audience'[n] :
           e \in Fds /\ e \in audience[n] /\ (pc[e] = "serving" => Attends(e)),
         \A e \in Fds : \A n \in 1 .. MaxCommands :
           Attends(e) /\ pc[e] = "serving" /\ WillGet(e, n) =>
             WillGet(e, n)' \/ Has(e, n)'
  PROVE  GInv'
<1> SUFFICES ASSUME NEW n \in 1 .. MaxCommands, NEW e \in audience'[n]
             PROVE  pc'[e] = "serving" /\ (Has(e, n)' \/ WillGet(e, n)')
  BY DEF GInv
<1>1. /\ e \in Fds /\ pc[e] = "serving" /\ Attends(e)
      /\ Has(e, n) \/ WillGet(e, n)
  BY DEF DeliveryInv, GInv
<1>2. Has(e, n) => Has(e, n)'
  BY <1>1 DEF Has, Attends, Extends
<1> QED
  BY <1>1, <1>2 DEF Attends

\* Sends that are added do not take away what is coming.
LEMMA AddedSends ==
  ASSUME IInv, NEW e \in Fds, Attends(e), NEW n, WillGet(e, n),
         \A g \in Fds : todo'[g] = todo[g] \/ todo[g] = <<>>
  PROVE  WillGet(e, n)'
<1>0. PICK g \in Fds : \E k \in 1 .. Len(todo[g]) :
        /\ todo[g][k].op = "user" /\ todo[g][k].chunk.val = n
        /\ todo[g][k].chunk.to = user[e]
        /\ todo[g][k].chunk.kind \in {"group", "key"}
  BY DEF WillGet
<1>1. PICK k \in 1 .. Len(todo[g]) :
        /\ todo[g][k].op = "user" /\ todo[g][k].chunk.val = n
        /\ todo[g][k].chunk.to = user[e]
        /\ todo[g][k].chunk.kind \in {"group", "key"}
  BY <1>0
<1>2. todo'[g] = todo[g]
  BY DEF IInv, TypeOK
<1> QED
  BY <1>1, <1>2 DEF WillGet, Attends

\* Connections that come and go take nothing from the others, ...
LEMMA LifeAudience ==
  ASSUME DeliveryInv, NEW f \in Fds,
         \/ accept(f) \/ authenticate_chat(f) \/ client_slot_add(f)
         \/ client_slot_remove(f) \/ close(f) \/ hang_up(f)
  PROVE  GInv'
<1>0. /\ IInv /\ audience \in [1 .. MaxCommands -> SUBSET Fds]
      /\ pc \in [Fds -> States] /\ user \in [Fds -> Users \cup {NoUser}]
      /\ todo \in [Fds -> Seq(Op)] /\ out \in [Fds -> Seq(Chunk)]
      /\ pc[f] \in {"closed", "auth", "slot"} => todo[f] = <<>>
  BY DEF DeliveryInv, IInv, TypeOK, ThreadInv
<1>1. \A g \in Fds : todo'[g] = todo[g] \/ todo[g] = <<>>
  BY <1>0 DEF accept, authenticate_chat, client_slot_add, client_slot_remove,
              close, hang_up
<1>2. ASSUME NEW n \in 1 .. MaxCommands, NEW e \in audience'[n]
      PROVE  e \in Fds /\ e \in audience[n] /\ (client_slot_remove(f) => e # f)
  <2>1. CASE client_slot_remove(f)
    BY <1>0, <1>2, <2>1 DEF client_slot_remove
  <2>2. CASE ~client_slot_remove(f)
    <3>1. UNCHANGED audience
      BY <2>2 DEF accept, authenticate_chat, client_slot_add, close, hang_up
    <3> QED
      BY <1>0, <2>2, <3>1
  <2> QED
    BY <2>1, <2>2
<1>3. ASSUME NEW e \in Fds, pc[e] = "serving", client_slot_remove(f) => e # f
      PROVE  Attends(e)
  <2>1. out'[e] = out[e]
    BY <1>0, <1>3
    DEF accept, authenticate_chat, client_slot_add, client_slot_remove, close, hang_up
  <2>2. user'[e] = user[e] /\ pc'[e] = "serving"
    BY <1>0, <1>3
    DEF accept, authenticate_chat, client_slot_add, client_slot_remove, close, hang_up
  <2> QED
    BY <2>1, <2>2 DEF Attends, Extends
<1> QED
  BY <1>0, <1>1, <1>2, <1>3, AddedSends, KeptAudience

\* After the first send the others are still to come.
LEMMA RestStays ==
  ASSUME IInv, NEW f \in Fds, TodoShrinks, \A g \in Fds \ {f} : todo'[g] = todo[g],
         NEW e \in Fds, Attends(e), NEW n, WillGet(e, n),
         \/ todo'[f] = todo[f]
         \/ Shorter(f) /\ ~(todo[f][1].op = "user" /\ todo[f][1].chunk.to = user[e]
                            /\ todo[f][1].chunk.val = n
                            /\ todo[f][1].chunk.kind \in {"group", "key"})
  PROVE  WillGet(e, n)'
<1>0. PICK g \in Fds : \E k \in 1 .. Len(todo[g]) :
        /\ todo[g][k].op = "user" /\ todo[g][k].chunk.val = n
        /\ todo[g][k].chunk.to = user[e]
        /\ todo[g][k].chunk.kind \in {"group", "key"}
  BY DEF WillGet
<1>1. PICK k \in 1 .. Len(todo[g]) :
        /\ todo[g][k].op = "user" /\ todo[g][k].chunk.val = n
        /\ todo[g][k].chunk.to = user[e]
        /\ todo[g][k].chunk.kind \in {"group", "key"}
  BY <1>0
<1>2. CASE todo'[g] = todo[g]
  BY <1>1, <1>2 DEF WillGet, Attends
<1>3. CASE g = f /\ Shorter(f)
  <2>1. k # 1 /\ Len(todo[f]) \in Nat /\ Len(todo'[f]) = Len(todo[f]) - 1
    BY <1>1, <1>3 DEF Shorter, IInv, TypeOK
  <2>2. k - 1 \in 1 .. Len(todo'[f]) /\ (k - 1) + 1 = k
    BY <1>3, <2>1
  <2>3. todo'[f][k - 1] = todo[f][k]
    BY <1>3, <2>2 DEF Shorter
  <2> QED
    BY <1>1, <1>3, <2>2, <2>3 DEF WillGet, Attends
<1> QED
  BY <1>2, <1>3

\* ... a send gives a member what was pending, ...
LEMMA SendAudience ==
  ASSUME DeliveryInv, {"group", "key"} \subseteq Watched, NEW f \in Fds, send_step(f)
  PROVE  GInv'
<1>0. IInv /\ audience \in [1 .. MaxCommands -> SUBSET Fds]
  BY DEF DeliveryInv, IInv, TypeOK
<1>1. UNCHANGED <<audience, pc, user>>
  BY DEF send_step, send_all, send_to_user, take_lock, loop_over_clients, free_lock
<1>2. /\ \A e \in Fds : e \in Fds
      /\ \A n \in 1 .. MaxCommands : \A e \in audience'[n] : e \in Fds /\ e \in audience[n]
  BY <1>0, <1>1
<1>3. ASSUME \A e \in Fds : Extends(e),
             \A e \in Fds : \A n \in 1 .. MaxCommands :
               Attends(e) /\ pc[e] = "serving" /\ WillGet(e, n) =>
                 WillGet(e, n)' \/ Has(e, n)'
      PROVE  GInv'
  <2>1. \A e \in Fds : pc[e] = "serving" => Attends(e)
    BY <1>1, <1>3 DEF Attends
  <2> QED
    BY <1>2, <1>3, <2>1, KeptAudience
<1>4. CASE Idle /\ UNCHANGED out
  <2>1. \A e \in Fds : Extends(e)
    BY <1>4 DEF Extends
  <2> QED
    BY <1>0, <1>3, <1>4, <2>1, AddedSends DEF Idle
<1>5. ASSUME NEW fds, NEW chunk, Send(f, fds, chunk),
             \A e \in Fds : \A n \in 1 .. MaxCommands :
               Attends(e) /\ pc[e] = "serving" /\ WillGet(e, n) =>
                 WillGet(e, n)' \/ Has(e, n)'
      PROVE  GInv'
  <2>1. \A e \in Fds : Extends(e)
    BY <1>0, <1>5, GrownNames DEF Send
  <2> QED
    BY <1>3, <1>5, <2>1
<1>6. ASSUME todo[f] # <<>>, todo[f][1].op # "user", TodoShrinks,
             \A g \in Fds \ {f} : todo'[g] = todo[g], todo'[f] = todo[f] \/ Shorter(f),
             NEW e \in Fds, NEW n \in 1 .. MaxCommands, Attends(e), WillGet(e, n)
      PROVE  WillGet(e, n)'
  BY <1>0, <1>6, RestStays
<1>7. CASE SendAll(f)
  <2>1. PICK chunk : chunk = todo[f][1].chunk /\ Send(f, {f}, chunk)
    BY <1>7 DEF SendAll
  <2>2. Shorter(f) /\ todo[f][1].op # "user"
    BY <1>7 DEF SendAll
  <2> QED
    BY <1>5, <1>6, <2>1, <2>2 DEF Send
<1>8. CASE LoopAll(f)
  <2>1. PICK fds, chunk : chunk = todo[f][1].chunk /\ Send(f, fds, chunk)
    BY <1>8 DEF LoopAll
  <2>2. todo'[f] = todo[f] /\ todo[f][1].op # "user"
    BY <1>8 DEF LoopAll
  <2> QED
    BY <1>5, <1>6, <2>1, <2>2 DEF Send
<1>9. CASE LoopNames(f)
  <2>1. PICK chunk : Send(f, {f}, chunk)
    BY <1>9 DEF LoopNames
  <2>2. todo'[f] = todo[f] /\ todo[f][1].op # "user"
    BY <1>9 DEF LoopNames
  <2> QED
    BY <1>5, <1>6, <2>1, <2>2 DEF Send
<1>10. CASE LoopEnds(f)
  <2>1. \A e \in Fds : Extends(e)
    BY <1>10 DEF LoopEnds, Extends
  <2>2. /\ todo[f] # <<>> /\ todo[f][1].op # "user" /\ TodoShrinks /\ Shorter(f)
        /\ \A g \in Fds \ {f} : todo'[g] = todo[g]
    BY <1>10 DEF LoopEnds
  <2> QED
    BY <1>3, <1>6, <2>1, <2>2
<1>11. CASE SendUser(f)
  <2>1. PICK fds, chunk :
          /\ chunk = todo[f][1].chunk /\ Send(f, fds, chunk)
          /\ fds = {clients[i].fd : i \in find_client_locked(chunk.to)}
    BY <1>11 DEF SendUser
  <2>2. Shorter(f)
    BY <1>11 DEF SendUser
  <2>3. ASSUME NEW e \in Fds, NEW n \in 1 .. MaxCommands,
               Attends(e), pc[e] = "serving", WillGet(e, n)
        PROVE  WillGet(e, n)' \/ Has(e, n)'
    <3>1. CASE chunk.to = user[e] /\ chunk.val = n /\ chunk.kind \in {"group", "key"}
      <4>1. PICK i \in ClientSlots : clients[i].active /\ clients[i].fd = e
        BY <1>0, <2>3 DEF IInv, SlotsMatchConnections
      <4>2. clients[i].user = user[e]
        BY <1>0, <4>1 DEF IInv, SlotsMatchConnections
      <4>3. \A j \in ClientSlots : clients[j].active /\ clients[j].user = user[e] => j = i
        BY <1>0, <4>1, <4>2 DEF IInv, SlotsMatchConnections
      <4>4. i \in find_client_locked(chunk.to)
        BY <3>1, <4>1, <4>2, <4>3, ConstantsAssumption
        DEF find_client_locked, First, ClientSlots, ConstantsAssumption
      <4>5. e \in fds
        BY <2>1, <4>1, <4>4
      <4>6. Grown(e, chunk)
        BY <2>1, <3>1, <4>5 DEF Send
      <4>7. Len(out[e]) + 1 \in 1 .. Len(out'[e]) /\ out'[e][Len(out[e]) + 1] = chunk
        BY <1>0, <4>6, OutVal DEF Grown
      <4> QED
        BY <3>1, <4>7 DEF Has
    <3>2. CASE ~(chunk.to = user[e] /\ chunk.val = n /\ chunk.kind \in {"group", "key"})
      <4>1. TodoShrinks /\ \A g \in Fds \ {f} : todo'[g] = todo[g]
        BY <2>1 DEF Send
      <4> QED
        BY <1>0, <2>1, <2>2, <2>3, <3>2, <4>1, RestStays
    <3> QED
      BY <3>1, <3>2
  <2> QED
    BY <1>5, <2>1, <2>3
<1> QED
  BY <1>0, <1>4, <1>7, <1>8, <1>9, <1>10, <1>11, SendSorts

\* The members a line goes to are those who must get it.
LEMMA MembersAudience ==
  ASSUME IInv, NEW f \in Fds, NEW g \in GroupIds, NEW kind \in {"group", "key"},
         todo'[f] = ToMembers(kind, user[f], g), Expect(g), number \in Nat,
         NEW n \in 1 .. MaxCommands, NEW e \in audience'[n], e \notin audience[n]
  PROVE  e \in Fds /\ pc[e] = "serving" /\ (user'[e] = user[e] => WillGet(e, n)')
<1>1. n = number /\ e \in LoggedIn(Elems(groups[g].members))
  BY DEF Expect, IInv, TypeOK
<1>2. PICK i \in ClientSlots : /\ clients[i].active /\ clients[i].fd = e
                               /\ clients[i].user \in Elems(groups[g].members)
  BY <1>1 DEF LoggedIn
<1>3. e \in Fds /\ pc[e] = "serving" /\ user[e] = clients[i].user
  BY <1>2 DEF IInv, SlotsMatchConnections
<1>4. PICK k \in 1 .. Len(groups[g].members) : user[e] = groups[g].members[k]
  BY <1>2, <1>3 DEF Elems
<1>5. PICK from, to, m : /\ from = user[f] /\ to = user[e] /\ m = number
  OBVIOUS
<1>6. todo'[f][k] = ToUser(Line(kind, from, to, g, m)) /\ k \in 1 .. Len(todo'[f])
  <2> DEFINE l == Len(groups[g].members)
             s == ToMembers(kind, user[f], g)
             S == {s[j] : j \in 1 .. l}
  <2>1. l \in Nat
    BY DEF IInv, TypeOK, Group
  <2>2. s \in [1 .. l -> S] /\ s[k] = ToUser(Line(kind, from, to, g, m))
    BY <1>4, <1>5 DEF ToMembers
  <2>3. k \in 1 .. l /\ todo'[f] = s
    OBVIOUS
  <2> HIDE DEF l, s, S
  <2> QED
    BY <2>1, <2>2, <2>3
<1>7. PICK op : op = todo'[f][k]
  OBVIOUS
<1>8. op.op = "user" /\ op.chunk.val = m /\ op.chunk.to = to /\ op.chunk.kind = kind
  BY <1>6, <1>7 DEF ToUser, Line
<1> QED
  BY <1>1, <1>3, <1>5, <1>6, <1>7, <1>8 DEF WillGet

\* ... and a command makes its line pending for each of its members.
LEMMA CommandAudience ==
  ASSUME DeliveryInv, NEW f \in Fds, process_command(f)
  PROVE  GInv'
<1>0. /\ IInv /\ audience \in [1 .. MaxCommands -> SUBSET Fds]
      /\ todo[f] = <<>> /\ Unhandled /\ number \in Nat
      /\ \A g \in Fds \ {f} : todo'[g] = todo[g]
  BY CommandShape DEF DeliveryInv, IInv, TypeOK, Shaped
<1>1. \A e \in Fds : /\ pc'[e] = pc[e] /\ user'[e] = user[e] /\ Extends(e)
                     /\ pc[e] = "serving" => Attends(e)
  BY <1>0 DEF Unhandled, Extends, Attends
<1>2. \A e \in Fds : \A n \in 1 .. MaxCommands :
        Attends(e) /\ pc[e] = "serving" /\ WillGet(e, n) => WillGet(e, n)'
  BY <1>0, AddedSends
<1>3. CASE UNCHANGED audience
  BY <1>0, <1>1, <1>2, <1>3, KeptAudience
<1>4. ASSUME NEW g \in GroupIds, NEW kind \in {"group", "key"},
             Sends(f, ToMembers(kind, user[f], g)), Expect(g)
      PROVE  GInv'
  <2>1. todo'[f] = ToMembers(kind, user[f], g)
    BY <1>0, <1>4 DEF Sends, IInv, TypeOK
  <2>2. ASSUME NEW n \in 1 .. MaxCommands, NEW e \in audience'[n]
        PROVE  pc'[e] = "serving" /\ (Has(e, n)' \/ WillGet(e, n)')
    <3>1. CASE e \in audience[n]
      <4>1. e \in Fds /\ pc[e] = "serving" /\ (Has(e, n) \/ WillGet(e, n))
        BY <1>0, <3>1 DEF DeliveryInv, GInv
      <4>2. Has(e, n) => Has(e, n)'
        BY <1>1, <4>1 DEF Has, Extends
      <4> QED
        BY <1>1, <1>2, <4>1, <4>2
    <3>2. CASE e \notin audience[n]
      BY <1>0, <1>1, <1>4, <2>1, <3>2, MembersAudience
    <3> QED
      BY <3>1, <3>2
  <2> QED
    BY <2>2 DEF GInv
<1>5. CASE handle_group_key(f)
  BY <1>3, <1>4, <1>5 DEF handle_group_key, find_group_locked
<1>6. CASE handle_group_write(f)
  BY <1>3, <1>4, <1>6 DEF handle_group_write, find_group_locked
<1>7. \/ UNCHANGED audience \/ handle_group_key(f) \/ handle_group_write(f)
  BY DEF process_command, handle_who, handle_write_all, handle_create_group,
         handle_group_invite, handle_group_accept, handle_list_files,
         handle_request_file, handle_public_key_request, handle_send_public_key,
         reject_command
<1> QED
  BY <1>3, <1>5, <1>6, <1>7
-----------------------------------------------------------------------------
(* The theorems.                                                           *)

\* Every step is of a sort and keeps the numbers.
LEMMA NextNumbers == NInv /\ [Next]_vars => NInv' /\ Sorts
BY NextInv, StepSorts, NextOrder DEF NInv

\* Two messages to all that reach two connections reach both in one order.
THEOREM OneOrder == Spec => []BroadcastTotalOrder
<1>1. Init => TotalInv
  BY InitOrder DEF Init, TotalInv, BInv, BroadcastTotalOrder, Positions
<1>2. TotalInv /\ [Next]_vars => TotalInv'
  BY NextNumbers, NextTotal DEF TotalInv
<1>3. TotalInv => BroadcastTotalOrder
  BY DEF TotalInv
<1> QED
  BY <1>1, <1>2, <1>3, PTL DEF Spec

\* The lines of one user arrive in the order they were typed, everywhere and
\* whatever connections the sender has had.
THEOREM SentInOrder == Spec => []SenderOrder
<1>1. Init => SenderInv
  BY InitOrder DEF Init, SenderInv, SInv, SenderOrder
<1>2. SenderInv /\ [Next]_vars => SenderInv'
  BY NextNumbers, NextSender DEF SenderInv
<1>3. SenderInv => SenderOrder
  BY DEF SenderInv
<1> QED
  BY <1>1, <1>2, <1>3, PTL DEF Spec

\* An answer to /who names nobody twice.
THEOREM NobodyTwice == Spec => []WhoNamesDistinct
<1>1. Init => NamesInv
  BY InitOrder DEF Init, NamesInv, WInv, Distinct
<1>2. NamesInv /\ [Next]_vars => NamesInv'
  BY NextNumbers, NextWho DEF NamesInv
<1>3. NamesInv => WhoNamesDistinct
  BY DEF NamesInv, Distinct, Named, WhoNamesDistinct
<1> QED
  BY <1>1, <1>2, <1>3, PTL DEF Spec

\* Where a run records the group lines, every member logged in when one was
\* typed has it once it is sent.
THEOREM GroupsDelivered ==
  ASSUME {"group", "key"} \subseteq Watched
  PROVE  Spec => []GroupDelivery
<1>1. Init => DeliveryInv
  BY InitInv DEF Init, DeliveryInv, GInv
<1>2. DeliveryInv /\ [Next]_vars => DeliveryInv'
  <2> SUFFICES ASSUME DeliveryInv, [Next]_vars PROVE DeliveryInv'
    OBVIOUS
  <2>1. IInv'
    BY NextInv DEF DeliveryInv
  <2>2. CASE UNCHANGED vars
    BY <2>1, <2>2 DEF vars, DeliveryInv, GInv, Has, WillGet
  <2> QED
    BY <2>1, <2>2, LifeAudience, SendAudience, CommandAudience
    DEF Next, DeliveryInv
<1>3. DeliveryInv => GroupDelivery
  <2> SUFFICES ASSUME DeliveryInv, NEW n \in 1 .. MaxCommands, ~Pending(n),
                      NEW e \in audience[n]
               PROVE  \E chunk \in Elems(out[e]) : chunk.val = n
    BY DEF GroupDelivery
  <2>1. Has(e, n) \/ WillGet(e, n)
    BY DEF DeliveryInv, GInv
  <2>2. ~WillGet(e, n)
    BY DEF WillGet, Pending, Elems
  <2> QED
    BY <2>1, <2>2 DEF Has, Elems
<1> QED
  BY <1>1, <1>2, <1>3, PTL DEF Spec
====
