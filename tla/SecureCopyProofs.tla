--------------------------- MODULE SecureCopyProofs ---------------------------
(***************************************************************************)
(* Secure copies: what is saved is authentic, saving implements the atomic *)
(* write of AtomicFile, for any number of copies and of faults, and where  *)
(* nothing failed a frame within the limits is saved.                      *)
(***************************************************************************)
EXTENDS SecureCopy, SaveFileProofs

\* Processes that run have numbers of their own.
PidsDistinct ==
  \A b, c \in Savers : b # c /\ Running(b) /\ Running(c) => server[b].pid # server[c].pid

\* An HMAC is one that a client made, or is of no key a server has.
Signed(f) ==
  \/ f.mac.key = ShortKey
  \/ \E m \in made : f.mac = build_hmac(m.key, Frame(m.key, m.name, m.data))

FrameInv == \A c \in Savers : pipe[c].frame \in Frames => Signed(pipe[c].frame)

CopyInv == TypeOK /\ PidsDistinct /\ FrameInv /\ SaveInv({}) /\ OutputAuthentic

LEMMA SaversAlone ==
  ASSUME TypeOK, PidsDistinct
  PROVE  Alone({})
<1> SUFFICES ASSUME NEW r \in Savers, NEW s \in Savers, r # s, Saving(r), Saving(s)
             PROVE  TmpName(r) # TmpName(s)
  BY DEF Alone
<1>1. /\ server[r].pc = "saving" /\ save[r].pid = server[r].pid
      /\ server[s].pc = "saving" /\ save[s].pid = server[s].pid
  BY DEF TypeOK
<1>2. server[r].pid # server[s].pid
  BY <1>1 DEF PidsDistinct, Running
<1> QED
  BY <1>1, <1>2 DEF TmpName

-----------------------------------------------------------------------------
(* Frames.                                                                 *)

LEMMA CipherLenNat == ASSUME NEW d \in Data PROVE CipherLen(d) \in Nat
<1>1. Size[d] \in Nat /\ Block \in Nat \ {0}
  BY SaveAssumption, SecureCopyAssumption
<1>2. Size[d] \div Block \in Nat
  BY <1>1
<1> QED
  BY <1>1, <1>2 DEF CipherLen

LEMMA FrameShape ==
  ASSUME NEW key \in Keys, NEW name \in Names, NEW d \in Data
  PROVE  LET f == Frame(key, name, d)
         IN  /\ f \in Frames
             /\ f.mac = build_hmac(key, f)
             /\ Covered(f) \in Covers
             /\ f.name = name /\ f.cipher = Cipher(key, 0, d) /\ f.iv = 0
<1> DEFINE n == NameLen[name]
           l == CipherLen(d)
           ci == Cipher(key, 0, d)
           cov == [magic |-> SC_MAGIC, nameLen |-> n, cipherLen |-> l, iv |-> 0, name |-> name,
                   cipher |-> ci]
<1>1. n \in Nat /\ l \in Nat /\ ci \in Ciphers
  BY SecureCopyAssumption, CipherLenNat DEF Ciphers, Cipher
<1>2. Frame(key, name, d) =
        [magic |-> SC_MAGIC, nameLen |-> n, cipherLen |-> l, iv |-> 0,
         mac |-> [key |-> key, of |-> cov], name |-> name, cipher |-> ci]
  <2> DEFINE bare == [magic |-> SC_MAGIC, nameLen |-> n, cipherLen |-> l, iv |-> 0,
                      mac |-> NoData, name |-> name, cipher |-> ci]
  <2>2. Frame(key, name, d) = [bare EXCEPT !.mac = build_hmac(key, bare)]
    BY DEF Frame
  <2>3. build_hmac(key, bare) = [key |-> key, of |-> cov]
    BY DEF build_hmac, Covered
  <2> QED
    BY <2>2, <2>3
<1> HIDE DEF n, l, ci
<1>3. cov \in Covers
  BY <1>1 DEF Covers
<1> DEFINE f == Frame(key, name, d)
<1>4. Covered(f) = cov /\ f.mac = [key |-> key, of |-> cov]
  BY <1>2 DEF Covered
<1>5. f.name = name /\ f.cipher = ci /\ f.iv = 0
  BY <1>2
<1>6. f \in Frames
  <2> HIDE DEF cov
  <2>1. [key |-> key, of |-> cov] \in Macs
    BY <1>3 DEF Macs
  <2> QED
    BY <1>1, <1>2, <2>1 DEF Frames
<1> HIDE DEF f, cov
<1>7. f.mac = build_hmac(key, f)
  BY <1>4 DEF build_hmac
<1> QED
  BY <1>3, <1>4, <1>5, <1>6, <1>7 DEF f, ci

\* A frame taken apart.
LEMMA FrameFields ==
  ASSUME NEW f \in Frames
  PROVE  /\ f.mac \in Macs /\ f.name \in Names /\ f.cipher \in Ciphers
         /\ f.nameLen \in Nat /\ f.cipherLen \in Nat /\ f.iv \in {0, 1}
BY DEF Frames

\* The corruption of a ciphertext, and whatever happens to a frame on its way,
\* leaves a frame, and the HMAC or no key for it.
LEMMA CorruptedShape ==
  ASSUME NEW f \in Frames
  PROVE  Corrupted(f) \in Frames /\ Corrupted(f).mac = f.mac
BY DEF Frames, Ciphers, Corrupted

LEMMA AlteredShape ==
  ASSUME NEW f \in Frames, NEW g \in Altered(f)
  PROVE  /\ g \in Frames
         /\ g.mac = f.mac \/ g.mac.key = ShortKey
<1>1. CASE g = [f EXCEPT !.magic = "none"] \/ g = [f EXCEPT !.iv = 1]
  BY <1>1 DEF Frames
<1>2. CASE g = [f EXCEPT !.mac.key = ShortKey]
  BY <1>2 DEF Frames, Macs
<1>3. CASE g = [f EXCEPT !.cipher.state = "altered"]
  BY <1>3, CorruptedShape DEF Corrupted
<1>4. CASE \E n \in Names : g = [f EXCEPT !.name = n]
  BY <1>4 DEF Frames
<1>5. CASE \E n \in Nat : g = [f EXCEPT !.nameLen = n] \/ g = [f EXCEPT !.cipherLen = n]
  BY <1>5 DEF Frames
<1>6. {0, SC_MAX_NAME, SC_MAX_NAME + 1} \subseteq Nat
  BY SecureCopyAssumption
<1> QED
  BY <1>1, <1>2, <1>3, <1>4, <1>5, <1>6 DEF Altered

\* What the server takes from the pipe has the HMAC of the frame that is there.
LEMMA ReceivedShape ==
  ASSUME NEW p, p.frame \in Frames, NEW f \in Received(p)
  PROVE  f \in Frames /\ f.mac = p.frame.mac
<1>1. CASE f = p.frame
  BY <1>1
<1>2. CASE \E n \in Names : f = [p.frame EXCEPT !.name = n, !.cipher.state = "altered"]
  <2> DEFINE g == p.frame
  <2>1. g \in Frames
    OBVIOUS
  <2>2. \E n \in Names : f = [g EXCEPT !.name = n, !.cipher.state = "altered"]
    BY <1>2
  <2> HIDE DEF g
  <2>3. PICK n \in Names : f = [Corrupted(g) EXCEPT !.name = n]
    BY <2>2 DEF Corrupted
  <2>4. Corrupted(g) \in Frames /\ Corrupted(g).mac = g.mac
    BY <2>1, CorruptedShape
  <2> DEFINE h == Corrupted(g)
  <2> HIDE DEF h
  <2>5. f \in Frames /\ f.mac = g.mac
    <3>1. h \in Frames /\ h.mac = g.mac /\ f = [h EXCEPT !.name = n]
      BY <2>3, <2>4 DEF h
    <3> QED
      BY <3>1 DEF Frames
  <2> QED
    BY <2>5 DEF g
<1> QED
  BY <1>1, <1>2 DEF Received

\* A frame that passes the server's check is what a client made with its key,
\* up to the last bit of what the HMAC covers.
LEMMA AuthenticIsMade ==
  ASSUME TypeOK, NEW f \in Frames, Signed(f), NEW key \in Keys, Authentic(key, f)
  PROVE  \E m \in made : /\ m.key = key /\ m.name = f.name
                         /\ f.iv = 0 /\ f.cipher = Cipher(key, 0, m.data)
<1>1. f.mac = build_hmac(key, f)
  BY DEF Authentic
<1>2. f.mac.key = key
  BY <1>1 DEF build_hmac
<1>3. PICK m \in made : f.mac = build_hmac(m.key, Frame(m.key, m.name, m.data))
  BY <1>2, SecureCopyAssumption DEF Signed
<1>4. m.key \in Keys /\ m.name \in Names /\ m.data \in Data
  BY DEF TypeOK, Made
<1> DEFINE g == Frame(m.key, m.name, m.data)
<1>5. g.name = m.name /\ g.iv = 0 /\ g.cipher = Cipher(m.key, 0, m.data)
  BY <1>4, FrameShape
<1> HIDE DEF g
<1>6. m.key = key /\ Covered(f) = Covered(g)
  BY <1>1, <1>3 DEF build_hmac, g
<1>7. f.name = g.name /\ f.iv = g.iv /\ f.cipher = g.cipher
  BY <1>6 DEF Covered
<1> QED
  BY <1>5, <1>6, <1>7
-----------------------------------------------------------------------------
(* The invariant in parts.                                                 *)

CopyTypes ==
  /\ client \in [Savers -> {"down", "writing", "done", "failed"}]
  /\ pipe \in [Savers -> [frame : Frames \cup {NoFrame}, rest : {"to come", "written"}]]
  /\ server \in [Savers -> Servers]
  /\ runs \in 0 .. MaxRuns
  /\ faults \in 0 .. MaxFaults
  /\ made \subseteq Made

PairTypes(c) ==
  /\ client[c] = "writing" \/ pipe[c].rest = "written" => pipe[c].frame \in Frames
  /\ Running(c) => server[c].pid \in Pids /\ server[c].key \in Keys
  /\ Saving(c) => server[c].pc = "saving" /\ save[c].pid = server[c].pid

DirAuthentic ==
  \A path \in Paths : named[path] # NoInode =>
    \E m \in made : m.name = path /\ inodes[named[path]] = Whole(m.data)

ServerAuthentic(c) ==
  server[c].pc = "saving" =>
    [key |-> server[c].key, name |-> save[c].path, data |-> save[c].data] \in made

LEMMA Parts ==
  CopyInv <=> /\ SaveTypeOK /\ CopyTypes /\ PidsDistinct /\ FrameInv /\ SaveInv({}) /\ DirAuthentic
              /\ \A c \in Savers : PairTypes(c) /\ ServerAuthentic(c)
BY DEF CopyInv, TypeOK, CopyTypes, PairTypes, OutputAuthentic, DirAuthentic, ServerAuthentic

LEMMA PartsNext ==
  CopyInv' <=> /\ SaveTypeOK' /\ CopyTypes' /\ PidsDistinct' /\ FrameInv' /\ SaveInv({})' /\ DirAuthentic'
               /\ \A c \in Savers : PairTypes(c)' /\ ServerAuthentic(c)'
BY DEF CopyInv, TypeOK, CopyTypes, PairTypes, OutputAuthentic, DirAuthentic, ServerAuthentic

\* One server changes, and keeps the process number it had or gets another than
\* those that run.
LEMMA ServersKeep ==
  ASSUME PidsDistinct, NEW c \in Savers,
         \A b \in Savers \ {c} : server'[b] = server[b],
         \A b \in Savers \ {c} : Running(b) /\ Running(c)' => server[b].pid # server'[c].pid
  PROVE  PidsDistinct'
BY DEF PidsDistinct, Running

\* Frames that were there before or are signed now.
LEMMA FramesKeep ==
  ASSUME FrameInv, made \subseteq made',
         \A c \in Savers : pipe'[c].frame = pipe[c].frame \/ Signed(pipe[c].frame)'
  PROVE  FrameInv'
BY DEF FrameInv, Signed

LEMMA FilesKeep ==
  ASSUME SaveTypeOK, SaveInv({}), DirAuthentic, made \subseteq made', UNCHANGED savevars
  PROVE  SaveTypeOK' /\ SaveInv({})' /\ DirAuthentic'
<1>1. SaveTypeOK'
  BY DEF savevars, SaveTypeOK, InStage, Inodes
<1>2. SaveInv({})'
  BY NoFileChanges DEF savevars
<1>3. DirAuthentic'
  BY DEF savevars, DirAuthentic
<1> QED
  BY <1>1, <1>2, <1>3

LEMMA BoundsNat == MaxRuns \in Nat /\ MaxFaults \in Nat
BY SecureCopyAssumption

LEMMA Counted == CopyTypes => runs \in 0 .. MaxRuns /\ faults \in 0 .. MaxFaults
BY DEF CopyTypes

LEMMA CopyInitially == Init => CopyInv
<1> SUFFICES ASSUME Init PROVE CopyInv
  OBVIOUS
<1>1. SaveTypeOK
  <2>1. NotSaving \in SaveStates
    BY DEF NotSaving, SaveStates, Stages
  <2>2. inodes \in Seq(Contents)
    <3>1. inodes = <<>>
      BY DEF Init, SaveInit
    <3> QED
      BY <3>1
  <2>3. /\ named \in [Paths -> Inodes \cup {NoInode}]
        /\ tmp \in [Paths \X Pids -> Inodes \cup {NoInode}]
    BY DEF Init, SaveInit
  <2>4. /\ save \in [Savers -> SaveStates]
        /\ \A s \in Savers : save[s].stage = "none" /\ save[s] = NotSaving
    <3>1. save = [s \in Savers |-> NotSaving]
      BY DEF Init, SaveInit
    <3>2. NotSaving.stage = "none"
      BY DEF NotSaving
    <3> QED
      BY <2>1, <3>1, <3>2
  <2> QED
    BY <2>2, <2>3, <2>4 DEF SaveTypeOK, InStage
<1>2. CopyTypes
  <2>1. [pc |-> "down", key |-> ShortKey, pid |-> NoData] \in Servers
    BY DEF Servers
  <2>2. [frame |-> NoFrame, rest |-> "to come"]
           \in [frame : Frames \cup {NoFrame}, rest : {"to come", "written"}]
    OBVIOUS
  <2>3. 0 \in 0 .. MaxRuns /\ 0 \in 0 .. MaxFaults
    BY SecureCopyAssumption
  <2> QED
    BY <2>1, <2>2, <2>3 DEF Init, CopyTypes
<1>3. PidsDistinct /\ FrameInv
  <2>1. NoFrame \notin Frames
    BY SaveAssumption, SecureCopyAssumption DEF NoFrame, Frames
  <2> QED
    BY <2>1 DEF Init, PidsDistinct, Running, FrameInv
<1>4. SaveInv({})
  BY DEF Init, SaveInit, SaveInv, TmpInv, OpenInv, OwnInv, NotSaving, InStage, TmpNames
<1>5. DirAuthentic
  BY DEF Init, SaveInit, DirAuthentic
<1>6. ASSUME NEW c \in Savers PROVE PairTypes(c) /\ ServerAuthentic(c)
  BY DEF Init, SaveInit, PairTypes, ServerAuthentic, Running, Saving, NotSaving
<1> QED
  BY <1>1, <1>2, <1>3, <1>4, <1>5, <1>6, Parts
-----------------------------------------------------------------------------
(* The client's steps.                                                     *)

LEMMA ClientStarts ==
  ASSUME CopyInv, NEW c \in Savers, NEW key \in Keys \cup {ShortKey}, NEW name \in Names,
         NEW d \in Inputs, NEW corrupt \in BOOLEAN, secure_client(c, key, name, d, corrupt)
  PROVE  CopyInv'
<1>1. SaveTypeOK /\ CopyTypes /\ PidsDistinct /\ FrameInv /\ SaveInv({}) /\ DirAuthentic
  BY Parts
<1>2. /\ server' = [server EXCEPT ![c].pc = "down"]
      /\ save' = [save EXCEPT ![c] = NotSaving]
      /\ UNCHANGED <<named, tmp, inodes, faults>>
      /\ runs < MaxRuns /\ runs' = runs + 1
  BY DEF secure_client
<1>3. \E f \in Frames \cup {NoFrame}, pc \in {"writing", "failed"} :
        /\ pipe' = [pipe EXCEPT ![c] = [frame |-> f, rest |-> "to come"]]
        /\ client' = [client EXCEPT ![c] = pc]
        /\ f \in Frames => Signed(f)'
        /\ pc = "writing" => f \in Frames
        /\ made \subseteq made' /\ made' \subseteq Made
  <2>0. NoFrame \notin Frames
    BY SecureCopyAssumption, SaveAssumption DEF NoFrame, Frames
  <2>1. CASE Accepts(name) /\ Prepares(key, d)
    <3>1. key \in Keys /\ d \in Data
      BY <2>1 DEF Prepares, load_key_material, Inputs
    <3> DEFINE g == Frame(key, name, d)
               f == IF corrupt THEN Corrupted(g) ELSE g
               m == [key |-> key, name |-> name, data |-> d]
    <3>2. /\ pipe' = [pipe EXCEPT ![c] = [frame |-> f, rest |-> "to come"]]
          /\ made' = made \cup {m}
          /\ client' = [client EXCEPT ![c] = "writing"]
      BY <2>1 DEF secure_client
    <3>3. g \in Frames /\ g.mac = build_hmac(m.key, Frame(m.key, m.name, m.data))
      BY <3>1, FrameShape
    <3>4. m \in Made
      BY <3>1 DEF Made
    <3>5. f \in Frames /\ f.mac = g.mac
      <4> HIDE DEF g
      <4> QED
        BY <3>3, CorruptedShape
    <3> HIDE DEF g, f, m
    <3>6. Signed(f)'
      BY <3>2, <3>3, <3>5 DEF Signed
    <3> QED
      BY <1>1, <3>2, <3>4, <3>5, <3>6 DEF CopyTypes
  <2>2. CASE ~(Accepts(name) /\ Prepares(key, d))
    <3>1. /\ pipe' = [pipe EXCEPT ![c] = [frame |-> NoFrame, rest |-> "to come"]]
          /\ client' = [client EXCEPT ![c] = "failed"]
          /\ made' = made
      BY <2>2 DEF secure_client
    <3> QED
      BY <1>1, <2>0, <3>1 DEF CopyTypes
  <2> QED
    BY <2>1, <2>2
<1>4. PICK f \in Frames \cup {NoFrame}, pc \in {"writing", "failed"} :
        /\ pipe' = [pipe EXCEPT ![c] = [frame |-> f, rest |-> "to come"]]
        /\ client' = [client EXCEPT ![c] = pc]
        /\ f \in Frames => Signed(f)'
        /\ pc = "writing" => f \in Frames
        /\ made \subseteq made' /\ made' \subseteq Made
  BY <1>3
<1>5. CopyTypes'
  <2>1. client' \in [Savers -> {"down", "writing", "done", "failed"}]
    BY <1>1, <1>4 DEF CopyTypes
  <2>2. pipe' \in [Savers -> [frame : Frames \cup {NoFrame}, rest : {"to come", "written"}]]
    <3>1. [frame |-> f, rest |-> "to come"]
             \in [frame : Frames \cup {NoFrame}, rest : {"to come", "written"}]
      OBVIOUS
    <3> QED
      BY <1>1, <1>4, <3>1 DEF CopyTypes
  <2>3. server' \in [Savers -> Servers]
    BY <1>1, <1>2 DEF CopyTypes, Servers
  <2>4. runs' \in 0 .. MaxRuns /\ faults' \in 0 .. MaxFaults
    BY <1>1, <1>2, BoundsNat, Counted
  <2> QED
    BY <1>4, <2>1, <2>2, <2>3, <2>4 DEF CopyTypes
<1>6. /\ server'[c].pc = "down" /\ save'[c].stage = "none"
      /\ pipe'[c].frame = f /\ pipe'[c].rest = "to come" /\ client'[c] = pc
      /\ \A b \in Savers \ {c} : /\ server'[b] = server[b] /\ save'[b] = save[b]
                               /\ client'[b] = client[b] /\ pipe'[b] = pipe[b]
  <2>1. server'[c].pc = "down" /\ \A b \in Savers \ {c} : server'[b] = server[b]
    BY <1>1, <1>2 DEF CopyTypes, Servers
  <2>2. save'[c].stage = "none" /\ \A b \in Savers \ {c} : save'[b] = save[b]
    BY <1>1, <1>2 DEF SaveTypeOK, NotSaving
  <2>3. /\ pipe'[c].frame = f /\ pipe'[c].rest = "to come" /\ client'[c] = pc
        /\ \A b \in Savers \ {c} : client'[b] = client[b] /\ pipe'[b] = pipe[b]
    BY <1>1, <1>4 DEF CopyTypes
  <2> QED
    BY <2>1, <2>2, <2>3
<1>7. SaveTypeOK'
  <2>1. NotSaving \in SaveStates
    BY DEF NotSaving, SaveStates, Stages
  <2>2. save' \in [Savers -> SaveStates]
    BY <1>1, <1>2, <2>1 DEF SaveTypeOK
  <2> QED
    BY <1>1, <1>2, <1>6, <2>2, StopTypes DEF SaveTypeOK
<1>8. SaveInv({})'
  BY <1>1, <1>2, <1>6, NoFileChanges
<1>9. DirAuthentic'
  BY <1>1, <1>2, <1>4 DEF DirAuthentic
<1>10. PidsDistinct'
  BY <1>1, <1>6, ServersKeep DEF Running
<1>11. FrameInv'
  <2>1. ASSUME NEW b \in Savers, pipe'[b].frame \in Frames PROVE Signed(pipe[b].frame)'
    <3>1. CASE b = c
      BY <1>4, <1>6, <2>1, <3>1 DEF Signed
    <3>2. CASE b # c
      <4>1. pipe[b].frame \in Frames /\ pipe'[b].frame = pipe[b].frame
        BY <1>6, <2>1, <3>2
      <4>2. Signed(pipe[b].frame)
        BY <1>1, <4>1 DEF FrameInv
      <4> QED
        BY <1>4, <4>1, <4>2 DEF Signed
    <3> QED
      BY <3>1, <3>2
  <2> QED
    BY <2>1 DEF FrameInv
<1>12. ASSUME NEW b \in Savers PROVE PairTypes(b)' /\ ServerAuthentic(b)'
  <2>1. PairTypes(b) /\ ServerAuthentic(b)
    BY Parts
  <2>2. CASE b = c
    BY <1>4, <1>6, <2>2 DEF PairTypes, ServerAuthentic, Running, Saving
  <2>3. CASE b # c
    BY <1>4, <1>6, <2>1, <2>3 DEF PairTypes, ServerAuthentic, Running, Saving
  <2> QED
    BY <2>2, <2>3
<1> QED
  BY <1>5, <1>7, <1>8, <1>9, <1>10, <1>11, <1>12, PartsNext

\* A step of a client, or of the pipe, that starts nobody.
LEMMA ClientGoesOn ==
  ASSUME CopyInv, NEW c \in Savers, write_frame(c) \/ client_fails(c) \/ alter(c)
  PROVE  CopyInv'
<1>1. SaveTypeOK /\ CopyTypes /\ PidsDistinct /\ FrameInv /\ SaveInv({}) /\ DirAuthentic
  BY Parts
<1>2. /\ UNCHANGED <<savevars, server, runs, made>>
      /\ faults' \in 0 .. MaxFaults
  BY <1>1, BoundsNat, Counted DEF write_frame, client_fails, alter, Fault
<1>3. PairTypes(c)
  BY Parts
<1>4. /\ client' \in [Savers -> {"down", "writing", "done", "failed"}]
      /\ pipe' \in [Savers -> [frame : Frames \cup {NoFrame}, rest : {"to come", "written"}]]
      /\ \A b \in Savers \ {c} : client'[b] = client[b] /\ pipe'[b] = pipe[b]
      /\ client'[c] = "writing" \/ pipe'[c].rest = "written" => pipe'[c].frame \in Frames
      /\ \/ pipe'[c].frame = pipe[c].frame
         \/ pipe[c].frame \in Frames /\ pipe'[c].frame \in Altered(pipe[c].frame)
  <2>1. CASE write_frame(c)
    BY <1>1, <1>3, <2>1 DEF write_frame, CopyTypes, PairTypes
  <2>2. CASE client_fails(c)
    BY <1>1, <1>3, <2>2 DEF client_fails, CopyTypes, PairTypes
  <2>3. CASE alter(c)
    <3>1. PICK f \in Altered(pipe[c].frame) : pipe' = [pipe EXCEPT ![c].frame = f]
      BY <2>3 DEF alter
    <3>2. client' = client /\ pipe[c].frame \in Frames
      BY <1>3, <2>3 DEF alter, PairTypes
    <3>3. f \in Frames
      BY <3>2, AlteredShape
    <3> QED
      BY <1>1, <1>3, <3>1, <3>2, <3>3 DEF CopyTypes, PairTypes
  <2> QED
    BY <2>1, <2>2, <2>3
<1>5. CopyTypes'
  BY <1>1, <1>2, <1>4 DEF CopyTypes
<1>6. SaveTypeOK' /\ SaveInv({})' /\ DirAuthentic'
  BY <1>1, <1>2, FilesKeep
<1>7. PidsDistinct'
  BY <1>1, <1>2 DEF PidsDistinct, Running
<1>8. FrameInv'
  <2>1. ASSUME NEW f \in Frames, Signed(f), NEW g \in Altered(f) PROVE Signed(g)'
    BY <1>2, <2>1, AlteredShape DEF Signed
  <2> QED
    BY <1>1, <1>2, <1>4, <2>1, FramesKeep DEF FrameInv
<1>9. ASSUME NEW b \in Savers PROVE PairTypes(b)' /\ ServerAuthentic(b)'
  <2>1. PairTypes(b) /\ ServerAuthentic(b)
    BY Parts
  <2>2. ServerAuthentic(b)'
    BY <1>2, <2>1 DEF ServerAuthentic, savevars
  <2>3. PairTypes(b)'
    BY <1>2, <1>4, <2>1 DEF PairTypes, savevars, Running, Saving
  <2> QED
    BY <2>2, <2>3
<1> QED
  BY <1>5, <1>6, <1>7, <1>8, <1>9, PartsNext
-----------------------------------------------------------------------------
(* The server's steps.                                                     *)

\* Those that write nothing: the server starts, refuses, or is killed.
LEMMA ServerGoesOn ==
  ASSUME CopyInv, NEW c \in Savers,
         \/ \E key \in Keys \cup {ShortKey}, pid \in Pids : secure_server(c, key, pid)
         \/ refuse(c) \/ kill_server(c)
  PROVE  CopyInv'
<1>1. /\ SaveTypeOK /\ CopyTypes /\ PidsDistinct /\ FrameInv /\ SaveInv({}) /\ DirAuthentic
      /\ PairTypes(c)
  BY Parts
<1>2. /\ UNCHANGED <<named, tmp, inodes, client, pipe, runs, made>>
      /\ faults' \in 0 .. MaxFaults
  BY <1>1, BoundsNat, Counted DEF secure_server, refuse, kill_server, Fault, savevars
<1>3. /\ server' \in [Savers -> Servers]
      /\ \A b \in Savers \ {c} : server'[b] = server[b]
      /\ server'[c].pc \in {"reading", "ended"}
      /\ Running(c)' => /\ server'[c].key \in Keys /\ server'[c].pid \in Pids
                        /\ \A b \in Savers \ {c} : Running(b) => server[b].pid # server'[c].pid
  <2>1. CASE \E key \in Keys \cup {ShortKey}, pid \in Pids : secure_server(c, key, pid)
    <3>1. PICK key \in Keys \cup {ShortKey}, pid \in Pids : secure_server(c, key, pid)
      BY <2>1
    <3> DEFINE new == [pc |-> IF load_key_material(key) THEN "reading" ELSE "ended",
                       key |-> key, pid |-> pid]
    <3>2. new \in Servers
      BY DEF Servers
    <3>3. server' = [server EXCEPT ![c] = new]
      BY <3>1 DEF secure_server
    <3>4. server'[c] = new
      BY <1>1, <3>3 DEF CopyTypes
    <3>5. \A b \in Savers \ {c} : Running(b) => server[b].pid # pid
      BY <3>1 DEF secure_server
    <3> QED
      BY <1>1, <3>2, <3>3, <3>4, <3>5 DEF CopyTypes, Running, load_key_material
  <2>2. CASE refuse(c) \/ kill_server(c)
    <3>1. server' = [server EXCEPT ![c].pc = "ended"]
      BY <2>2 DEF refuse, kill_server
    <3> QED
      BY <1>1, <3>1 DEF CopyTypes, Servers, Running
  <2> QED
    BY <2>1, <2>2
<1>4. /\ save' \in [Savers -> SaveStates]
      /\ \A b \in Savers \ {c} : save'[b] = save[b]
      /\ \/ save'[c] = save[c]
         \/ /\ Saving(c) /\ save'[c].stage = "failed" /\ save'[c].path = save[c].path
            /\ save'[c].pid = save[c].pid /\ save'[c].data = save[c].data
      /\ ~Saving(c)'
  <2>1. CASE ~Saving(c)
    <3>1. save' = save
      BY <2>1 DEF secure_server, refuse, kill_server, savevars
    <3> QED
      BY <1>1, <2>1, <3>1 DEF SaveTypeOK, Saving
  <2>2. CASE Saving(c)
    <3>1. kill_server(c)
      BY <1>1, <2>2 DEF PairTypes, secure_server, refuse
    <3>2. save' = [save EXCEPT ![c].stage = "failed"]
      BY <2>2, <3>1 DEF kill_server
    <3> QED
      BY <1>1, <2>2, <3>2 DEF SaveTypeOK, SaveStates, Saving, Stages
  <2> QED
    BY <2>1, <2>2
<1>5. CopyTypes'
  BY <1>1, <1>2, <1>3 DEF CopyTypes
<1>6. SaveTypeOK'
  BY <1>1, <1>2, <1>4, StopTypes DEF SaveTypeOK
<1>7. SaveInv({})'
  BY <1>1, <1>2, <1>4, NoFileChanges DEF Saving
<1>8. DirAuthentic'
  BY <1>1, <1>2 DEF DirAuthentic
<1>9. PidsDistinct'
  BY <1>1, <1>3, ServersKeep
<1>10. FrameInv'
  BY <1>1, <1>2, FramesKeep
<1>11. ASSUME NEW b \in Savers PROVE PairTypes(b)' /\ ServerAuthentic(b)'
  <2>1. PairTypes(b) /\ ServerAuthentic(b)
    BY Parts
  <2>2. CASE b = c
    BY <1>2, <1>3, <1>4, <2>1, <2>2 DEF PairTypes, ServerAuthentic
  <2>3. CASE b # c
    BY <1>2, <1>3, <1>4, <2>1, <2>3 DEF PairTypes, ServerAuthentic, Running, Saving
  <2> QED
    BY <2>2, <2>3
<1> QED
  BY <1>5, <1>6, <1>7, <1>8, <1>9, <1>10, <1>11, PartsNext

\* What a server is about to save a client put into a frame with its key.
LEMMA ServesWhatIsMade ==
  ASSUME CopyInv, NEW c \in Savers, serve(c)
  PROVE  \E m \in made : /\ m.key = server[c].key
                         /\ save_file_atomic(c, server[c].pid, m.name, m.data)
<1>1. CopyTypes /\ FrameInv /\ PairTypes(c) /\ TypeOK
  BY Parts DEF CopyInv
<1>2. PICK f \in Received(pipe[c]) :
        /\ Authentic(server[c].key, f)
        /\ \E d \in Decrypted(server[c].key, f.iv, f.cipher) \ {NoData} :
             save_file_atomic(c, server[c].pid, f.name, d)
  BY DEF serve
<1>3. server[c].key \in Keys
  BY <1>1 DEF serve, PairTypes, Running
<1>4. pipe[c].frame \in Frames
  <2>1. pipe[c].rest # "to come"
    BY <1>2 DEF Received
  <2>2. pipe[c].rest \in {"to come", "written"}
    BY <1>1 DEF CopyTypes
  <2> QED
    BY <1>1, <2>1, <2>2 DEF PairTypes
<1>5. f \in Frames /\ Signed(f)
  <2> DEFINE p == pipe[c]
  <2>1. p.frame \in Frames /\ Signed(p.frame)
    BY <1>1, <1>4 DEF FrameInv
  <2>2. f \in Frames /\ f.mac = p.frame.mac
    <3> HIDE DEF p
    <3>1. f \in Received(p)
      BY <1>2 DEF p
    <3> QED
      BY <2>1, <3>1, ReceivedShape
  <2> HIDE DEF p
  <2> QED
    BY <2>1, <2>2 DEF Signed
<1>6. PICK m \in made : /\ m.key = server[c].key /\ m.name = f.name
                        /\ f.iv = 0 /\ f.cipher = Cipher(server[c].key, 0, m.data)
  BY <1>1, <1>2, <1>3, <1>5, AuthenticIsMade
<1>7. Decrypted(server[c].key, f.iv, f.cipher) = {m.data}
  BY <1>6 DEF Decrypted, Cipher
<1> QED
  BY <1>2, <1>6, <1>7

LEMMA ServeKeeps ==
  ASSUME CopyInv, NEW c \in Savers, serve(c)
  PROVE  CopyInv'
<1>1. /\ SaveTypeOK /\ CopyTypes /\ PidsDistinct /\ FrameInv /\ SaveInv({}) /\ DirAuthentic
      /\ PairTypes(c)
  BY Parts
<1>2. PICK m \in made : /\ m.key = server[c].key
                        /\ save_file_atomic(c, server[c].pid, m.name, m.data)
  BY ServesWhatIsMade
<1>3. /\ m.name \in Paths /\ m.data \in Data
      /\ m = [key |-> server[c].key, name |-> m.name, data |-> m.data]
  BY <1>1, <1>2, SecureCopyAssumption DEF CopyTypes, Made
<1>4. /\ UNCHANGED <<named, tmp, inodes, client, pipe, runs, faults, made>>
      /\ server' = [server EXCEPT ![c].pc = "saving"]
      /\ server[c].pc = "reading"
  BY DEF serve
<1>5. /\ server[c].pid \in Pids /\ server[c].key \in Keys
  BY <1>1, <1>4 DEF PairTypes, Running
<1>6. /\ server' \in [Savers -> Servers]
      /\ server'[c].pc = "saving" /\ server'[c].key = server[c].key /\ server'[c].pid = server[c].pid
      /\ \A b \in Savers \ {c} : server'[b] = server[b]
  BY <1>1, <1>4 DEF CopyTypes, Servers
<1>7. /\ save'[c].stage = "open" /\ save'[c].path = m.name /\ save'[c].pid = server[c].pid
      /\ save'[c].data = m.data
      /\ \A b \in Savers \ {c} : save'[b] = save[b]
  BY <1>1, <1>2 DEF save_file_atomic, SaveTypeOK
<1>8. CopyTypes'
  BY <1>1, <1>4, <1>6 DEF CopyTypes
<1>9. SaveTypeOK'
  BY <1>1, <1>2, <1>3, <1>4, <1>5, CallTypes
<1>10. SaveInv({})'
  BY <1>1, <1>4, <1>7, NoFileChanges
<1>11. DirAuthentic'
  BY <1>1, <1>4 DEF DirAuthentic
<1>12. PidsDistinct'
  BY <1>1, <1>4, <1>6, ServersKeep DEF PidsDistinct, Running
<1>13. FrameInv'
  BY <1>1, <1>4, FramesKeep
<1>14. ASSUME NEW b \in Savers PROVE PairTypes(b)' /\ ServerAuthentic(b)'
  <2>1. PairTypes(b) /\ ServerAuthentic(b)
    BY Parts
  <2>2. CASE b = c
    BY <1>3, <1>4, <1>5, <1>6, <1>7, <2>1, <2>2 DEF PairTypes, ServerAuthentic
  <2>3. CASE b # c
    BY <1>4, <1>6, <1>7, <2>1, <2>3 DEF PairTypes, ServerAuthentic, Running, Saving
  <2> QED
    BY <2>2, <2>3
<1> QED
  BY <1>8, <1>9, <1>10, <1>11, <1>12, <1>13, <1>14, PartsNext

LEMMA SaveKeeps ==
  ASSUME CopyInv, NEW c \in Savers, save_step(c) \/ save_fails(c)
  PROVE  CopyInv'
<1>1. /\ SaveTypeOK /\ CopyTypes /\ PidsDistinct /\ FrameInv /\ SaveInv({}) /\ DirAuthentic
      /\ PairTypes(c) /\ ServerAuthentic(c) /\ TypeOK
  BY Parts DEF CopyInv
<1>2. SaveStep(c) \/ SaveFault(c)
  BY DEF save_step, save_fails
<1>3. /\ UNCHANGED <<client, pipe, runs, made>> /\ returns(c)
      /\ faults' \in 0 .. MaxFaults
  BY <1>1, BoundsNat, Counted DEF save_step, save_fails, Fault
<1>4. /\ Saving(c) /\ save'[c].stage \in {"write", "unlink", "saved", "failed"}
      /\ save'[c].path = save[c].path /\ save'[c].pid = save[c].pid
      /\ save'[c].data = save[c].data
      /\ \A b \in Savers \ {c} : save'[b] = save[b]
  BY <1>1, <1>2, SaveStepFields
<1>5. server[c].pc = "saving" /\ save[c].pid = server[c].pid
  BY <1>1, <1>4 DEF PairTypes
<1>6. /\ server' \in [Savers -> Servers]
      /\ \A b \in Savers \ {c} : server'[b] = server[b]
      /\ server'[c].key = server[c].key /\ server'[c].pid = server[c].pid
      /\ server'[c].pc = IF save'[c].stage \in {"saved", "failed"} THEN "ended" ELSE "saving"
  BY <1>1, <1>3, <1>5 DEF returns, CopyTypes, Servers
<1>7. Alone({})
  BY <1>1, SaversAlone
<1>8. SaveTypeOK'
  BY <1>1, <1>2, SaveStepTypes
<1>9. SaveInv({})'
  BY <1>1, <1>2, <1>7, SaveStepKeeps
<1>10. CopyTypes'
  BY <1>1, <1>3, <1>6 DEF CopyTypes
<1>11. PidsDistinct'
  BY <1>1, <1>5, <1>6, ServersKeep DEF PidsDistinct, Running
<1>12. FrameInv'
  BY <1>1, <1>3, FramesKeep
<1>13. DirAuthentic'
  <2>1. CASE open_tmp(c)
    BY <1>1, <1>3, <1>7, <2>1, OpenKeeps DEF DirAuthentic
  <2>2. CASE write_piece(c)
    BY <1>1, <1>3, <1>7, <2>2, WriteKeeps DEF DirAuthentic
  <2>3. CASE rename_tmp(c)
    <3>1. inodes[tmp[TmpName(c)]] = Whole(save[c].data)
      BY <1>1, <2>3, RenamesWhole
    <3>2. named' = [named EXCEPT ![save[c].path] = tmp[TmpName(c)]] /\ inodes' = inodes
      BY <2>3 DEF rename_tmp
    <3>3. PICK m \in made : m.name = save[c].path /\ m.data = save[c].data
      BY <1>1, <1>5 DEF ServerAuthentic
    <3>4. ASSUME NEW path \in Paths, named'[path] # NoInode
          PROVE  \E n \in made : n.name = path /\ inodes[named'[path]] = Whole(n.data)
      <4>1. CASE path = save[c].path
        BY <1>1, <3>1, <3>2, <3>3, <4>1 DEF SaveTypeOK
      <4>2. CASE path # save[c].path
        BY <1>1, <3>2, <3>4, <4>2 DEF SaveTypeOK, DirAuthentic
      <4> QED
        BY <4>1, <4>2
    <3> QED
      BY <1>3, <3>2, <3>4 DEF DirAuthentic
  <2>4. CASE UNCHANGED <<named, inodes>>
    BY <1>1, <1>3, <2>4 DEF DirAuthentic
  <2> QED
    BY <1>2, <2>1, <2>2, <2>3, <2>4
    DEF SaveStep, SaveFault, rename_finds_none, unlink_tmp, open_fails, write_fails
<1>14. ASSUME NEW b \in Savers PROVE PairTypes(b)' /\ ServerAuthentic(b)'
  <2>1. PairTypes(b) /\ ServerAuthentic(b)
    BY Parts
  <2>2. CASE b = c
    BY <1>3, <1>4, <1>5, <1>6, <2>1, <2>2 DEF PairTypes, ServerAuthentic, Running, Saving
  <2>3. CASE b # c
    BY <1>3, <1>4, <1>6, <2>1, <2>3 DEF PairTypes, ServerAuthentic, Running, Saving
  <2> QED
    BY <2>2, <2>3
<1> QED
  BY <1>8, <1>9, <1>10, <1>11, <1>12, <1>13, <1>14, PartsNext

LEMMA CopyStep == CopyInv /\ [Next]_vars => CopyInv'
<1> SUFFICES ASSUME CopyInv, [Next]_vars PROVE CopyInv'
  OBVIOUS
<1>1. ASSUME NEW c \in Savers, NEW key \in Keys \cup {ShortKey}, NEW name \in Names,
             NEW d \in Inputs, NEW corrupt \in BOOLEAN,
             secure_client(c, key, name, d, corrupt)
      PROVE  CopyInv'
  BY <1>1, ClientStarts
<1>2. ASSUME NEW c \in Savers, write_frame(c) \/ client_fails(c) \/ alter(c) PROVE CopyInv'
  BY <1>2, ClientGoesOn
<1>3. ASSUME NEW c \in Savers,
             \/ \E key \in Keys \cup {ShortKey}, pid \in Pids : secure_server(c, key, pid)
             \/ refuse(c) \/ kill_server(c)
      PROVE  CopyInv'
  BY <1>3, ServerGoesOn
<1>4. ASSUME NEW c \in Savers, serve(c) PROVE CopyInv'
  BY <1>4, ServeKeeps
<1>5. ASSUME NEW c \in Savers, save_step(c) \/ save_fails(c) PROVE CopyInv'
  BY <1>5, SaveKeeps
<1>6. CASE UNCHANGED vars
  <2>1. UNCHANGED savevars /\ UNCHANGED <<client, pipe, server, runs, faults, made>>
    BY <1>6 DEF vars, savevars
  <2>2. SaveTypeOK' /\ SaveInv({})' /\ DirAuthentic'
    BY <2>1, Parts, FilesKeep
  <2>3. CopyTypes' /\ PidsDistinct' /\ FrameInv'
    BY <2>1, Parts DEF CopyTypes, PidsDistinct, FrameInv, Running, Signed
  <2>4. \A c \in Savers : PairTypes(c)' /\ ServerAuthentic(c)'
    BY <2>1, Parts DEF PairTypes, ServerAuthentic, Running, Saving, savevars
  <2> QED
    BY <2>2, <2>3, <2>4, PartsNext
<1> QED
  BY <1>1, <1>2, <1>3, <1>4, <1>5, <1>6 DEF Next

\* Every behaviour of clients and servers keeps the types of SecureCopy.
THEOREM CopyTypesHold == Spec => []TypeOK
<1>1. CopyInv => TypeOK
  BY DEF CopyInv
<1> QED
  BY <1>1, CopyInitially, CopyStep, PTL DEF Spec

\* Whatever is in the directory is all of what a client put there with the
\* server's key, for any number of copies, of frames altered on the way, and of
\* servers killed.
THEOREM OutputIsAuthentic == Spec => []OutputAuthentic
<1>1. CopyInv => OutputAuthentic
  BY DEF CopyInv
<1> QED
  BY <1>1, CopyInitially, CopyStep, PTL DEF Spec
-----------------------------------------------------------------------------
(* The atomic write.                                                       *)

Files == [path \in Paths |-> Held(named[path])]
Calls == [s \in Savers |-> CallOf(s)]

LEMMA DatumOfWhole == ASSUME NEW d \in Data PROVE Datum(Whole(d)) = d
<1>1. \A e \in Data : Whole(d) = Whole(e) => e = d
  BY WholeTells
<1> QED
  BY <1>1 DEF Datum

\* A path whose inode and its contents stay holds what it held.
LEMMA HeldStays ==
  ASSUME NEW path \in Paths, named'[path] = named[path],
         named[path] # NoInode => inodes'[named[path]] = inodes[named[path]]
  PROVE  Held(named[path])' = Held(named[path])
BY DEF Held, Datum, Whole, Torn

LEMMA FilesStay ==
  ASSUME named' = named,
         \A path \in Paths : named[path] # NoInode => inodes'[named[path]] = inodes[named[path]]
  PROVE  Files' = Files
BY HeldStays DEF Files

\* One saver's call changes.
LEMMA CallsChange ==
  ASSUME NEW c \in Savers, \A b \in Savers \ {c} : save'[b] = save[b]
  PROVE  Calls' = [Calls EXCEPT ![c] = CallOf(c)']
<1>1. \A b \in Savers \ {c} : CallOf(b)' = CallOf(b)
  BY DEF CallOf, Saving
<1> QED
  BY <1>1 DEF Calls

LEMMA CallStays ==
  ASSUME NEW c \in Savers, \A b \in Savers \ {c} : save'[b] = save[b], CallOf(c)' = CallOf(c)
  PROVE  Calls' = Calls
BY CallsChange DEF Calls

\* A step of a saver is a Commit, a GiveUp, or nothing to see.
LEMMA SaveStepMaps ==
  ASSUME CopyInv, NEW c \in Savers, SaveStep(c) \/ SaveFault(c)
  PROVE  \/ Files' = Files /\ Calls' = Calls
         \/ /\ Calls[c].stage = "saving"
            /\ Calls' = [Calls EXCEPT ![c].stage = "saved"]
            /\ Files' = [Files EXCEPT ![Calls[c].path] = Calls[c].data]
         \/ /\ Calls[c].stage = "saving"
            /\ Calls' = [Calls EXCEPT ![c].stage = "failed"]
            /\ Files' = Files
<1>1. SaveTypeOK /\ SaveInv({}) /\ Alone({})
  BY Parts, SaversAlone DEF CopyInv
<1>2. /\ Saving(c) /\ save'[c].stage \in {"write", "unlink", "saved", "failed"}
      /\ save'[c].path = save[c].path /\ save'[c].data = save[c].data
      /\ \A b \in Savers \ {c} : save'[b] = save[b]
  BY <1>1, SaveStepFields
<1>3. Calls[c] = [stage |-> "saving", path |-> save[c].path, data |-> save[c].data]
  BY <1>2 DEF Calls, CallOf
<1>4. Calls' = [Calls EXCEPT ![c] = CallOf(c)']
  BY <1>2, CallsChange
<1>5. CallOf(c)' = [stage |-> IF save'[c].stage \in {"write", "unlink"} THEN "saving" ELSE save'[c].stage,
                    path |-> save[c].path, data |-> save[c].data]
  BY <1>2 DEF CallOf, Saving
<1>a. ASSUME NEW stage, CallOf(c)' = [stage |-> stage, path |-> save[c].path, data |-> save[c].data]
      PROVE  Calls' = [Calls EXCEPT ![c].stage = stage]
  <2>1. CallOf(c)' = [Calls[c] EXCEPT !.stage = stage]
    BY <1>3, <1>a
  <2> QED
    BY <1>4, <2>1
<1>6. CASE save'[c].stage \in {"write", "unlink"}
  <2>1. Calls' = Calls
    BY <1>3, <1>4, <1>5, <1>6 DEF Calls
  <2>2. Files' = Files
    <3>1. CASE open_tmp(c)
      BY <1>1, <3>1, OpenKeeps, FilesStay
    <3>2. CASE write_piece(c)
      BY <1>1, <3>2, WriteKeeps, FilesStay
    <3>3. CASE UNCHANGED <<named, inodes>>
      BY <3>3, FilesStay
    <3>4. CASE rename_tmp(c)
      BY <1>1, <1>6, <3>4 DEF rename_tmp, SaveTypeOK, SaveStates
    <3> QED
      BY <3>1, <3>2, <3>3, <3>4
      DEF SaveStep, SaveFault, rename_finds_none, unlink_tmp, open_fails, write_fails
  <2> QED
    BY <2>1, <2>2
<1>7. CASE save'[c].stage = "saved"
  <2>1. rename_tmp(c)
    <3>1. save \in [Savers -> SaveStates]
      BY <1>1 DEF SaveTypeOK
    <3> QED
      BY <1>7, <3>1 DEF SaveStep, SaveFault, open_tmp, write_piece, rename_finds_none, unlink_tmp,
                        open_fails, write_fails, SaveStates, InStage
  <2>2. Calls' = [Calls EXCEPT ![c].stage = "saved"]
    BY <1>5, <1>a, <1>7
  <2>3. /\ named' = [named EXCEPT ![save[c].path] = tmp[TmpName(c)]] /\ inodes' = inodes
        /\ tmp[TmpName(c)] # NoInode
    BY <2>1 DEF rename_tmp
  <2>4. inodes[tmp[TmpName(c)]] = Whole(save[c].data)
    BY <1>1, <2>1, RenamesWhole
  <2>5. save[c].path \in Paths /\ save[c].data \in Data
    BY <1>1, <1>2, SaverTypes DEF Saving, InStage
  <2>6. ASSUME NEW path \in Paths, path = save[c].path PROVE Held(named[path])' = save[c].data
    <3>1. named'[path] = tmp[TmpName(c)]
      BY <1>1, <2>3, <2>6 DEF SaveTypeOK
    <3>2. inodes'[named'[path]] = Whole(save[c].data)
      BY <2>3, <2>4, <3>1
    <3>3. Held(named[path])' = Datum(inodes[named[path]])'
      BY <2>3, <3>1 DEF Held
    <3>4. Datum(inodes[named[path]])' = Datum(Whole(save[c].data))
      BY <3>2 DEF Datum, Whole, Torn
    <3> QED
      BY <2>5, <3>3, <3>4, DatumOfWhole
  <2>7. \A path \in Paths \ {save[c].path} : Held(named[path])' = Held(named[path])
    <3>1. \A path \in Paths \ {save[c].path} : named'[path] = named[path]
      BY <1>1, <2>3, <2>5 DEF SaveTypeOK
    <3> QED
      BY <2>3, <3>1, HeldStays
  <2>8. Files' = [Files EXCEPT ![save[c].path] = save[c].data]
    <3>1. \A path \in Paths : Files'[path] = IF path = save[c].path THEN save[c].data ELSE Files[path]
      BY <2>6, <2>7 DEF Files
    <3> QED
      BY <3>1 DEF Files
  <2> QED
    BY <1>3, <2>2, <2>8
<1>8. CASE save'[c].stage = "failed"
  <2>1. Calls' = [Calls EXCEPT ![c].stage = "failed"]
    BY <1>5, <1>a, <1>8
  <2>2. UNCHANGED <<named, inodes>>
    <3>1. save \in [Savers -> SaveStates]
      BY <1>1 DEF SaveTypeOK
    <3> QED
      BY <1>8, <3>1 DEF SaveStep, SaveFault, open_tmp, write_piece, rename_tmp, rename_finds_none,
                        unlink_tmp, open_fails, write_fails, SaveStates, InStage
  <2>3. Files' = Files
    BY <2>2, FilesStay
  <2> QED
    BY <1>3, <2>1, <2>3
<1> QED
  BY <1>2, <1>6, <1>7, <1>8

LEMMA AtomicInitially == Init => Atomic!AInit
<1> SUFFICES ASSUME Init PROVE Atomic!AInit
  OBVIOUS
<1>1. Files = [path \in Paths |-> NoData]
  BY DEF Init, SaveInit, Files, Held
<1>2. Calls = [s \in Savers |-> Atomic!NoCall]
  BY DEF Init, SaveInit, Calls, CallOf, Saving, NotSaving, Atomic!NoCall
<1> QED
  BY <1>1, <1>2 DEF Atomic!AInit, Files, Calls

\* Every step of the copies is one of the atomic write, or nothing to see.
LEMMA AtomicStep == CopyInv /\ [Next]_vars => [Atomic!ANext]_(Atomic!avars)
<1> SUFFICES ASSUME CopyInv, [Next]_vars
             PROVE  \/ \E s \in Savers : \/ Atomic!Begin(s) \/ Atomic!Commit(s)
                                       \/ Atomic!GiveUp(s) \/ Atomic!Forget(s)
                    \/ Files' = Files /\ Calls' = Calls
  BY DEF Atomic!ANext, Atomic!avars, Files, Calls
<1>1. SaveTypeOK /\ \A c \in Savers : PairTypes(c)
  BY Parts
<1>2. ASSUME UNCHANGED savevars PROVE Files' = Files /\ Calls' = Calls
  <2>1. Files' = Files
    BY <1>2, FilesStay DEF savevars
  <2>2. Calls' = Calls
    BY <1>2 DEF Calls, CallOf, Saving, savevars
  <2> QED
    BY <2>1, <2>2
<1>3. ASSUME NEW c \in Savers, NEW key \in Keys \cup {ShortKey}, NEW name \in Names,
             NEW d \in Inputs, NEW corrupt \in BOOLEAN,
             secure_client(c, key, name, d, corrupt)
      PROVE  Atomic!Forget(c) \/ (Files' = Files /\ Calls' = Calls)
  <2>1. save' = [save EXCEPT ![c] = NotSaving] /\ UNCHANGED <<named, tmp, inodes>> /\ Ended(c)
    BY <1>3 DEF secure_client
  <2>2. save'[c] = NotSaving /\ \A b \in Savers \ {c} : save'[b] = save[b]
    BY <1>1, <2>1 DEF SaveTypeOK
  <2>3. ~Saving(c)
    BY <1>1, <2>1 DEF Ended, PairTypes
  <2>4. Files' = Files
    BY <2>1, FilesStay
  <2>5. CallOf(c)' = Atomic!NoCall
    BY <2>2 DEF CallOf, Saving, NotSaving, Atomic!NoCall
  <2>6. CASE save[c].stage = "none"
    <3>1. save[c] = NotSaving
      BY <1>1, <2>6 DEF SaveTypeOK, InStage
    <3>2. CallOf(c) = Atomic!NoCall
      BY <3>1 DEF CallOf, Saving, NotSaving, Atomic!NoCall
    <3> QED
      BY <2>2, <2>4, <2>5, <3>2, CallStays
  <2>7. CASE save[c].stage # "none"
    <3>1. Calls[c].stage \in {"saved", "failed"}
      <4>1. save[c].stage \in Stages
        BY <1>1 DEF SaveTypeOK, SaveStates
      <4> QED
        BY <2>3, <2>7, <4>1 DEF Calls, CallOf, Saving, Stages
    <3>2. Calls' = [Calls EXCEPT ![c] = Atomic!NoCall]
      BY <2>2, <2>5, CallsChange
    <3> QED
      BY <2>4, <3>1, <3>2 DEF Atomic!Forget, Calls, Files
  <2> QED
    BY <2>6, <2>7
<1>4. ASSUME NEW c \in Savers, serve(c) PROVE Atomic!Begin(c)
  <2>1. PICK m \in made : save_file_atomic(c, server[c].pid, m.name, m.data)
    BY <1>4, ServesWhatIsMade
  <2>2. m.name \in Paths /\ m.data \in Data
    BY Parts, SecureCopyAssumption DEF CopyTypes, Made
  <2>3. UNCHANGED <<named, inodes>> /\ server[c].pc = "reading"
    BY <1>4 DEF serve
  <2>4. /\ save'[c].stage = "open" /\ save'[c].path = m.name /\ save'[c].data = m.data
        /\ \A b \in Savers \ {c} : save'[b] = save[b]
    BY <1>1, <2>1 DEF save_file_atomic, SaveTypeOK
  <2>5. Calls[c].stage # "saving"
    <3>1. ~Saving(c) /\ save[c].stage \in Stages
      BY <1>1, <2>3 DEF PairTypes, SaveTypeOK, SaveStates
    <3> QED
      BY <3>1 DEF Calls, CallOf, Saving, Atomic!NoCall, Stages
  <2>6. Calls' = [Calls EXCEPT ![c] = [stage |-> "saving", path |-> m.name, data |-> m.data]]
    <3>1. CallOf(c)' = [stage |-> "saving", path |-> m.name, data |-> m.data]
      <4>1. Saving(c)'
        BY <2>4 DEF Saving
      <4> QED
        BY <2>4, <4>1 DEF CallOf
    <3> QED
      BY <2>4, <3>1, CallsChange
  <2>7. Files' = Files
    BY <2>3, FilesStay
  <2> QED
    BY <2>2, <2>5, <2>6, <2>7 DEF Atomic!Begin, Calls, Files
<1>5. ASSUME NEW c \in Savers, kill_server(c)
      PROVE  Atomic!GiveUp(c) \/ (Files' = Files /\ Calls' = Calls)
  <2>1. UNCHANGED <<named, tmp, inodes>>
    BY <1>5 DEF kill_server
  <2>2. Files' = Files
    BY <2>1, FilesStay
  <2>3. CASE Saving(c)
    <3>1. save' = [save EXCEPT ![c].stage = "failed"]
      BY <1>5, <2>3 DEF kill_server
    <3>2. /\ save'[c].stage = "failed" /\ save'[c].path = save[c].path /\ save'[c].data = save[c].data
          /\ \A b \in Savers \ {c} : save'[b] = save[b]
      BY <1>1, <3>1 DEF SaveTypeOK, SaveStates
    <3>3. Calls[c] = [stage |-> "saving", path |-> save[c].path, data |-> save[c].data]
      BY <2>3 DEF Calls, CallOf
    <3>4. CallOf(c)' = [Calls[c] EXCEPT !.stage = "failed"]
      BY <3>2, <3>3 DEF CallOf, Saving
    <3>5. Calls' = [Calls EXCEPT ![c].stage = "failed"]
      BY <3>2, <3>4, CallsChange
    <3> QED
      BY <2>2, <3>3, <3>5 DEF Atomic!GiveUp, Calls, Files
  <2>4. CASE ~Saving(c)
    BY <1>2, <1>5, <2>4 DEF kill_server, savevars
  <2> QED
    BY <2>3, <2>4
<1>6. ASSUME NEW c \in Savers, save_step(c) \/ save_fails(c)
      PROVE  Atomic!Commit(c) \/ Atomic!GiveUp(c) \/ (Files' = Files /\ Calls' = Calls)
  <2>1. SaveStep(c) \/ SaveFault(c)
    BY <1>6 DEF save_step, save_fails
  <2> QED
    BY <2>1, SaveStepMaps DEF Atomic!Commit, Atomic!GiveUp, Calls, Files
<1>7. CASE UNCHANGED vars
  BY <1>2, <1>7 DEF vars, savevars
<1>8. ASSUME NEW c \in Savers,
             \/ write_frame(c) \/ client_fails(c) \/ alter(c) \/ refuse(c)
             \/ \E key \in Keys \cup {ShortKey}, pid \in Pids : secure_server(c, key, pid)
      PROVE  Files' = Files /\ Calls' = Calls
  BY <1>2, <1>8 DEF write_frame, client_fails, alter, refuse, secure_server
<1> QED
  BY <1>3, <1>4, <1>5, <1>6, <1>7, <1>8 DEF Next

\* What the directory holds changes as AtomicFile says, whole file by whole file
\* and each with the call that says so, for any number of servers that share
\* paths, are killed, and inherit process numbers and temporaries.
THEOREM CopiesAreAtomic == Spec => AtomicSpec
BY CopyInitially, CopyStep, AtomicInitially, AtomicStep, PTL
DEF Spec, AtomicSpec, Atomic!ASpec
-----------------------------------------------------------------------------
(* A frame is taken unless something failed.  The invariant says of a copy *)
(* that nothing happened to what its client writes, that the server has    *)
(* not ended without saving it, and that no call of save_file_atomic is on *)
(* its way to fail: of the last, that nobody else has the temporary's name *)
(* (SaveInv) is what rules out a rename that finds nothing.                *)

\* the frame is one a client made, corrupted by the client or not
Writes(c) ==
  client[c] \in {"writing", "done"} =>
    /\ \E m \in made :
         /\ Accepts(m.name)
         /\ \/ pipe[c].frame = Frame(m.key, m.name, m.data)
            \/ pipe[c].frame = Corrupted(Frame(m.key, m.name, m.data))
    /\ client[c] = "done" => pipe[c].rest = "written"

\* the server's key is the client's, and the frame is within its limits
Good(c) ==
  /\ pipe[c].frame.mac = build_hmac(server[c].key, pipe[c].frame)
  /\ pipe[c].frame.name \notin Dotted
  /\ CipherLen(pipe[c].frame.cipher.data) <= SC_MAX_CIPHERTEXT

Takes(c) ==
  client[c] \in {"writing", "done"} /\ server[c].pc = "ended" /\ Good(c) => InStage(c, "saved")

Unfailing == faults = 0 => \A c \in Savers : /\ Writes(c) /\ Takes(c)
                                             /\ save[c].stage \notin {"unlink", "failed"}

\* What a frame that a client made says of itself.
LEMMA FrameHeader ==
  ASSUME NEW key, NEW name, NEW d
  PROVE  LET f == Frame(key, name, d)
         IN  /\ f.magic = SC_MAGIC /\ f.nameLen = NameLen[name] /\ f.cipherLen = CipherLen(d)
             /\ f.name = name /\ f.cipher = Cipher(key, 0, d) /\ f.iv = 0
<1> DEFINE bare == [magic |-> SC_MAGIC, nameLen |-> NameLen[name], cipherLen |-> CipherLen(d),
                    iv |-> 0, mac |-> NoData, name |-> name, cipher |-> Cipher(key, 0, d)]
           mac == build_hmac(key, bare)
<1>1. Frame(key, name, d) = [bare EXCEPT !.mac = mac]
  BY DEF Frame
<1> HIDE DEF mac
<1> QED
  BY <1>1

\* A server's HMAC is right only of a frame its client did not corrupt, and
\* with the client's key.
LEMMA RightMac ==
  ASSUME NEW m \in Made, NEW key, NEW f, f.mac = build_hmac(key, f),
         \/ f = Frame(m.key, m.name, m.data)
         \/ f = Corrupted(Frame(m.key, m.name, m.data))
  PROVE  f = Frame(m.key, m.name, m.data) /\ key = m.key
<1> DEFINE g == Frame(m.key, m.name, m.data)
<1>1. m.key \in Keys /\ m.name \in Names /\ m.data \in Data
  BY DEF Made
<1>2. /\ g \in Frames /\ g.mac = build_hmac(m.key, g)
      /\ g.cipher = Cipher(m.key, 0, m.data)
  BY <1>1, FrameShape
<1>3. f = g \/ f = Corrupted(g)
  OBVIOUS
<1> HIDE DEF g
<1>4. f.mac = g.mac
  BY <1>2, <1>3, CorruptedShape
<1>5. key = m.key /\ Covered(f) = Covered(g)
  BY <1>2, <1>4 DEF build_hmac
<1>6. f.cipher = g.cipher
  BY <1>5 DEF Covered
<1>7. g.cipher.state = "intact"
  BY <1>2 DEF Cipher
<1>8. Corrupted(g).cipher.state = "altered"
  BY <1>2 DEF Corrupted, Frames, Ciphers
<1> QED
  BY <1>3, <1>5, <1>6, <1>7, <1>8 DEF g

\* The server's limits hold of a frame whose name the client accepts and whose
\* ciphertext is not too long.
LEMMA WithinLimits ==
  ASSUME NEW m \in Made, Accepts(m.name), CipherLen(m.data) <= SC_MAX_CIPHERTEXT
  PROVE  LET f == Frame(m.key, m.name, m.data) IN LawfulHeader(f) /\ CutRight(f)
<1> DEFINE f == Frame(m.key, m.name, m.data)
<1>1. /\ f.magic = SC_MAGIC /\ f.nameLen = NameLen[m.name] /\ f.cipherLen = CipherLen(m.data)
      /\ f.name = m.name /\ f.cipher = Cipher(m.key, 0, m.data)
  BY FrameHeader
<1>2. CipherLen(m.data) \in Nat /\ CipherLen(m.data) > 0
  <2>1. Size[m.data] \in Nat /\ Block \in Nat \ {0}
    BY SaveAssumption, SecureCopyAssumption DEF Made
  <2> DEFINE q == Size[m.data] \div Block
  <2>2. q \in Nat
    BY <2>1
  <2> HIDE DEF q
  <2>3. (q + 1) * Block \in Nat /\ (q + 1) * Block > 0
    BY <2>1, <2>2
  <2> QED
    BY <2>3 DEF CipherLen, q
<1>3. SC_MAX_CIPHERTEXT \in Nat /\ INT_MAX \in Nat /\ SC_MAX_CIPHERTEXT <= INT_MAX
  BY SecureCopyAssumption
<1>4. CipherLen(m.data) <= INT_MAX
  BY <1>2, <1>3
<1> HIDE DEF f
<1>5. LawfulHeader(f)
  BY <1>1, <1>2, <1>4 DEF LawfulHeader, Accepts
<1>6. f.cipher.data = m.data
  BY <1>1 DEF Cipher
<1>7. CutRight(f)
  BY <1>1, <1>6 DEF CutRight
<1> QED
  BY <1>5, <1>7 DEF f

\* While nothing failed no server refuses a frame that is good.
LEMMA RefusesNoGood ==
  ASSUME CopyInv, NEW c \in Savers, Writes(c), Good(c), client[c] \in {"writing", "done"},
         refuse(c)
  PROVE  FALSE
<1>1. PICK m \in made : /\ Accepts(m.name)
                        /\ \/ pipe[c].frame = Frame(m.key, m.name, m.data)
                           \/ pipe[c].frame = Corrupted(Frame(m.key, m.name, m.data))
  BY DEF Writes
<1> DEFINE f == pipe[c].frame
           key == server[c].key
<1>2. m \in Made
  BY DEF CopyInv, TypeOK
<1>3. f = Frame(m.key, m.name, m.data) /\ key = m.key
  BY <1>1, <1>2, RightMac DEF Good
<1>4. f.name = m.name /\ f.iv = 0 /\ f.cipher = Cipher(key, 0, m.data)
  BY <1>3, FrameHeader
<1>5. CipherLen(m.data) <= SC_MAX_CIPHERTEXT
  <2>1. f.cipher.data = m.data
    BY <1>4 DEF Cipher
  <2> QED
    BY <2>1 DEF Good
<1>6. LawfulHeader(f) /\ CutRight(f)
  BY <1>1, <1>2, <1>3, <1>5, WithinLimits
<1>7. client[c] = "done" /\ pipe[c].rest = "written"
  BY <1>6 DEF refuse, Writes
<1>8. Received(pipe[c]) = {f}
  BY <1>6, <1>7 DEF Received
<1>9. Authentic(key, f) /\ safe_output_path(f.name)
  BY <1>1, <1>4 DEF Good, Authentic, safe_output_path, Accepts
<1>10. Decrypted(key, f.iv, f.cipher) = {m.data}
  <2> HIDE DEF f, key
  <2> QED
    BY <1>4 DEF Decrypted, Cipher
<1>11. NoData \notin Decrypted(key, f.iv, f.cipher)
  BY <1>2, <1>10, SaveAssumption DEF Made
<1> QED
  BY <1>8, <1>9, <1>11 DEF refuse

\* A copy that nobody touches is as it was.
LEMMA Untouched ==
  ASSUME NEW b \in Savers, Writes(b), Takes(b), save[b].stage \notin {"unlink", "failed"},
         client'[b] = client[b], pipe'[b] = pipe[b], server'[b] = server[b],
         save'[b] = save[b], made \subseteq made'
  PROVE  Writes(b)' /\ Takes(b)' /\ save'[b].stage \notin {"unlink", "failed"}
BY DEF Writes, Takes, Good, InStage

\* What no call can do while it is alone and nothing fails.
LEMMA SavesFine ==
  ASSUME CopyInv, NEW c \in Savers, SaveStep(c), save[c].stage \notin {"unlink", "failed"}
  PROVE  save'[c].stage \in {"write", "saved"}
<1>1. SaveTypeOK /\ SaveInv({}) /\ save \in [Savers -> SaveStates]
  BY Parts DEF SaveTypeOK
<1>2. ~unlink_tmp(c)
  BY DEF unlink_tmp, InStage
<1>3. ~rename_finds_none(c)
  <2> SUFFICES ASSUME rename_finds_none(c) PROVE FALSE
    OBVIOUS
  <2>1. InStage(c, "write") /\ tmp[TmpName(c)] = NoInode
    BY DEF rename_finds_none
  <2>2. tmp[TmpName(c)] = save[c].inode
    BY <1>1, <2>1 DEF SaveInv, OwnInv
  <2>3. save[c].inode \in Inodes
    BY <1>1, <2>1 DEF SaveTypeOK
  <2>4. Inodes \subseteq Nat
    BY DEF Inodes
  <2> QED
    BY <2>1, <2>2, <2>3, <2>4, SaveAssumption
<1>4. CASE open_tmp(c)
  BY <1>1, <1>4 DEF open_tmp, SaveStates
<1>5. CASE write_piece(c)
  BY <1>1, <1>5 DEF write_piece, InStage, SaveStates
<1>6. CASE rename_tmp(c)
  BY <1>1, <1>6 DEF rename_tmp, SaveStates
<1> QED
  BY <1>2, <1>3, <1>4, <1>5, <1>6 DEF SaveStep

LEMMA StartUnfailing ==
  ASSUME CopyInv, NEW c \in Savers, NEW key \in Keys \cup {ShortKey}, NEW name \in Names,
         NEW d \in Inputs, NEW corrupt \in BOOLEAN, secure_client(c, key, name, d, corrupt)
  PROVE  /\ Writes(c)' /\ Takes(c)' /\ save'[c].stage \notin {"unlink", "failed"}
         /\ made \subseteq made'
         /\ \A b \in Savers \ {c} : /\ client'[b] = client[b] /\ pipe'[b] = pipe[b]
                                    /\ server'[b] = server[b] /\ save'[b] = save[b]
<1>1. SaveTypeOK /\ CopyTypes
  BY Parts
<1>2. /\ server' = [server EXCEPT ![c].pc = "down"]
      /\ save' = [save EXCEPT ![c] = NotSaving]
  BY DEF secure_client
<1>3. server'[c].pc = "down" /\ save'[c].stage = "none"
  BY <1>1, <1>2 DEF CopyTypes, Servers, SaveTypeOK, NotSaving
<1>4. \A b \in Savers \ {c} : server'[b] = server[b] /\ save'[b] = save[b]
  BY <1>1, <1>2 DEF CopyTypes, SaveTypeOK
<1>5. CASE Accepts(name) /\ Prepares(key, d)
  <2> DEFINE g == Frame(key, name, d)
             f == IF corrupt THEN Corrupted(g) ELSE g
             m == [key |-> key, name |-> name, data |-> d]
  <2>1. /\ pipe' = [pipe EXCEPT ![c] = [frame |-> f, rest |-> "to come"]]
        /\ made' = made \cup {m}
        /\ client' = [client EXCEPT ![c] = "writing"]
    BY <1>5 DEF secure_client
  <2>2. g = Frame(m.key, m.name, m.data) /\ Accepts(m.name)
    BY <1>5
  <2>3. f = g \/ f = Corrupted(g)
    OBVIOUS
  <2> HIDE DEF g, f, m
  <2>4. /\ pipe'[c].frame = f /\ client'[c] = "writing"
        /\ \A b \in Savers \ {c} : client'[b] = client[b] /\ pipe'[b] = pipe[b]
    BY <1>1, <2>1 DEF CopyTypes
  <2>5. Writes(c)'
    BY <2>1, <2>2, <2>3, <2>4 DEF Writes
  <2> QED
    BY <1>3, <1>4, <2>1, <2>4, <2>5 DEF Takes
<1>6. CASE ~(Accepts(name) /\ Prepares(key, d))
  <2>1. /\ pipe' = [pipe EXCEPT ![c] = [frame |-> NoFrame, rest |-> "to come"]]
        /\ client' = [client EXCEPT ![c] = "failed"]
        /\ made' = made
    BY <1>6 DEF secure_client
  <2>2. /\ client'[c] = "failed"
        /\ \A b \in Savers \ {c} : client'[b] = client[b] /\ pipe'[b] = pipe[b]
    BY <1>1, <2>1 DEF CopyTypes
  <2> QED
    BY <1>3, <1>4, <2>1, <2>2 DEF Writes, Takes
<1> QED
  BY <1>5, <1>6

LEMMA ClientUnfailing ==
  ASSUME CopyInv, NEW c \in Savers, write_frame(c) \/ client_fails(c),
         Writes(c), Takes(c), save[c].stage \notin {"unlink", "failed"}
  PROVE  Writes(c)' /\ Takes(c)' /\ save'[c].stage \notin {"unlink", "failed"}
<1>1. CopyTypes
  BY Parts
<1>2. UNCHANGED <<server, save, made>> /\ client[c] = "writing"
  BY DEF write_frame, client_fails, savevars
<1>3. CASE write_frame(c)
  <2>1. client'[c] = "done" /\ pipe'[c].rest = "written" /\ pipe'[c].frame = pipe[c].frame
    BY <1>1, <1>3 DEF write_frame, CopyTypes
  <2> QED
    BY <1>2, <2>1 DEF Writes, Takes, Good, InStage
<1>4. CASE client_fails(c)
  <2>1. client'[c] = "failed"
    BY <1>1, <1>4 DEF client_fails, CopyTypes
  <2> QED
    BY <1>2, <2>1 DEF Writes, Takes
<1> QED
  BY <1>3, <1>4

\* A server that starts with no key good for anything ends, and its HMAC is
\* nobody's.
LEMMA ServerUnfailing ==
  ASSUME CopyInv, NEW c \in Savers,
         \/ \E key \in Keys \cup {ShortKey}, pid \in Pids : secure_server(c, key, pid)
         \/ serve(c) \/ refuse(c),
         Writes(c), Takes(c), save[c].stage \notin {"unlink", "failed"}
  PROVE  Writes(c)' /\ Takes(c)' /\ save'[c].stage \notin {"unlink", "failed"}
<1>1. SaveTypeOK /\ CopyTypes
  BY Parts
<1>2. UNCHANGED <<client, pipe, made>>
  BY DEF secure_server, serve, refuse
<1>3. Writes(c)'
  BY <1>2 DEF Writes
<1>4. CASE \E key \in Keys \cup {ShortKey}, pid \in Pids : secure_server(c, key, pid)
  <2>1. PICK key \in Keys \cup {ShortKey}, pid \in Pids : secure_server(c, key, pid)
    BY <1>4
  <2>2. /\ server'[c].pc = IF load_key_material(key) THEN "reading" ELSE "ended"
        /\ server'[c].key = key
        /\ save' = save
    BY <1>1, <2>1 DEF secure_server, CopyTypes, savevars
  <2>3. CASE load_key_material(key)
    BY <1>3, <2>2, <2>3 DEF Takes
  <2>4. CASE ~load_key_material(key)
    <3>1. ASSUME Good(c)', client[c] \in {"writing", "done"} PROVE FALSE
      <4>1. PICK m \in made : \/ pipe[c].frame = Frame(m.key, m.name, m.data)
                              \/ pipe[c].frame = Corrupted(Frame(m.key, m.name, m.data))
        BY <3>1 DEF Writes
      <4>2. m \in Made
        BY <1>1 DEF CopyTypes
      <4>3. pipe[c].frame.mac = build_hmac(key, pipe[c].frame)
        BY <1>2, <2>2, <3>1 DEF Good
      <4>4. key = m.key
        BY <4>1, <4>2, <4>3, RightMac
      <4> QED
        BY <2>4, <4>2, <4>4 DEF Made, load_key_material
    <3>2. Takes(c)'
      BY <1>2, <3>1 DEF Takes
    <3> QED
      BY <1>3, <2>2, <3>2
  <2> QED
    BY <2>3, <2>4
<1>5. CASE serve(c)
  <2>1. server' = [server EXCEPT ![c].pc = "saving"]
    BY <1>5 DEF serve
  <2>2. server'[c].pc = "saving"
    BY <1>1, <2>1 DEF CopyTypes, Servers
  <2>3. PICK path, d : save_file_atomic(c, server[c].pid, path, d)
    BY <1>5 DEF serve
  <2>4. save'[c].stage = "open"
    BY <1>1, <2>3 DEF save_file_atomic, SaveTypeOK
  <2> QED
    BY <1>3, <2>2, <2>4 DEF Takes
<1>6. CASE refuse(c)
  <2>1. server'[c].key = server[c].key /\ save' = save
    BY <1>1, <1>6 DEF refuse, CopyTypes, Servers, savevars
  <2>2. Good(c)' => Good(c)
    BY <1>2, <2>1 DEF Good
  <2>3. ~(Good(c)' /\ client'[c] \in {"writing", "done"})
    BY <1>2, <1>6, <2>2, RefusesNoGood
  <2> QED
    BY <1>3, <2>1, <2>3 DEF Takes
<1> QED
  BY <1>4, <1>5, <1>6

LEMMA SaveUnfailing ==
  ASSUME CopyInv, NEW c \in Savers, save_step(c),
         Writes(c), Takes(c), save[c].stage \notin {"unlink", "failed"}
  PROVE  Writes(c)' /\ Takes(c)' /\ save'[c].stage \notin {"unlink", "failed"}
<1>1. SaveTypeOK /\ CopyTypes /\ PairTypes(c)
  BY Parts
<1>2. UNCHANGED <<client, pipe, made>> /\ SaveStep(c) /\ returns(c)
  BY DEF save_step
<1>3. Saving(c)
  BY <1>1, <1>2, SaveStepFields
<1>4. save'[c].stage \in {"write", "saved"}
  BY <1>2, SavesFine
<1>5. server[c].pc = "saving"
  BY <1>1, <1>3 DEF PairTypes
<1>6. save'[c].stage # "saved" => server'[c].pc = "saving"
  BY <1>4, <1>2, <1>5 DEF returns
<1>7. Takes(c)'
  BY <1>4, <1>6 DEF Takes, InStage
<1> QED
  BY <1>2, <1>4, <1>7 DEF Writes

\* A step that leaves the count of faults at none is none of a fault.
LEMMA NothingFailed ==
  ASSUME CopyInv, [Next]_vars, faults' = 0
  PROVE  /\ faults = 0 /\ ~Fault
<1>1. faults \in Nat
  BY BoundsNat, Counted, Parts
<1>2. faults' = faults \/ Fault
  <2>1. ASSUME NEW c \in Savers, NEW key \in Keys \cup {ShortKey}, NEW name \in Names,
               NEW d \in Inputs, NEW corrupt \in BOOLEAN,
               secure_client(c, key, name, d, corrupt)
        PROVE  faults' = faults
    BY <2>1 DEF secure_client
  <2>2. ASSUME NEW c \in Savers, NEW key \in Keys \cup {ShortKey}, NEW pid \in Pids,
               secure_server(c, key, pid)
        PROVE  faults' = faults
    BY <2>2 DEF secure_server
  <2>3. ASSUME NEW c \in Savers,
               write_frame(c) \/ serve(c) \/ refuse(c) \/ save_step(c)
        PROVE  faults' = faults
    BY <2>3 DEF write_frame, serve, refuse, save_step
  <2>4. ASSUME NEW c \in Savers,
               client_fails(c) \/ alter(c) \/ save_fails(c) \/ kill_server(c)
        PROVE  faults' = faults \/ Fault
    BY <2>4 DEF client_fails, alter, save_fails, kill_server
  <2>5. CASE UNCHANGED vars
    BY <2>5 DEF vars
  <2> QED
    BY <2>1, <2>2, <2>3, <2>4, <2>5 DEF Next
<1> QED
  BY <1>1, <1>2 DEF Fault

LEMMA UnfailingStep == CopyInv /\ Unfailing /\ [Next]_vars => Unfailing'
<1> SUFFICES ASSUME CopyInv, Unfailing, [Next]_vars, faults' = 0, NEW b \in Savers
             PROVE  Writes(b)' /\ Takes(b)' /\ save'[b].stage \notin {"unlink", "failed"}
  BY DEF Unfailing
<1>1. ~Fault /\ \A c \in Savers : /\ Writes(c) /\ Takes(c)
                                  /\ save[c].stage \notin {"unlink", "failed"}
  BY NothingFailed DEF Unfailing
<1>2. SaveTypeOK /\ CopyTypes
  BY Parts
<1>3. ASSUME NEW c \in Savers, NEW key \in Keys \cup {ShortKey}, NEW name \in Names,
             NEW d \in Inputs, NEW corrupt \in BOOLEAN,
             secure_client(c, key, name, d, corrupt)
      PROVE  Writes(b)' /\ Takes(b)' /\ save'[b].stage \notin {"unlink", "failed"}
  BY <1>1, <1>3, StartUnfailing, Untouched
<1>4. ASSUME NEW c \in Savers, write_frame(c) \/ client_fails(c)
      PROVE  Writes(b)' /\ Takes(b)' /\ save'[b].stage \notin {"unlink", "failed"}
  <2>1. CASE b = c
    BY <1>1, <1>4, <2>1, ClientUnfailing
  <2>2. CASE b # c
    <3>1. /\ client'[b] = client[b] /\ pipe'[b] = pipe[b]
          /\ UNCHANGED <<server, save, made>>
      BY <1>2, <1>4, <2>2 DEF write_frame, client_fails, CopyTypes, savevars
    <3> QED
      BY <1>1, <3>1, Untouched
  <2> QED
    BY <2>1, <2>2
<1>5. ASSUME NEW c \in Savers,
             \/ \E key \in Keys \cup {ShortKey}, pid \in Pids : secure_server(c, key, pid)
             \/ serve(c) \/ refuse(c)
      PROVE  Writes(b)' /\ Takes(b)' /\ save'[b].stage \notin {"unlink", "failed"}
  <2>1. CASE b = c
    BY <1>1, <1>5, <2>1, ServerUnfailing
  <2>2. CASE b # c
    <3>1. UNCHANGED <<client, pipe, made>>
      BY <1>5 DEF secure_server, serve, refuse
    <3>2. server'[b] = server[b]
      BY <1>2, <1>5, <2>2 DEF secure_server, serve, refuse, CopyTypes
    <3>3. save'[b] = save[b]
      BY <1>2, <1>5, <2>2 DEF secure_server, serve, refuse, save_file_atomic, savevars, SaveTypeOK
    <3> QED
      BY <1>1, <3>1, <3>2, <3>3, Untouched
  <2> QED
    BY <2>1, <2>2
<1>6. ASSUME NEW c \in Savers, save_step(c)
      PROVE  Writes(b)' /\ Takes(b)' /\ save'[b].stage \notin {"unlink", "failed"}
  <2>1. CASE b = c
    BY <1>1, <1>6, <2>1, SaveUnfailing
  <2>2. CASE b # c
    <3>1. UNCHANGED <<client, pipe, made>> /\ SaveStep(c) /\ returns(c)
      BY <1>6 DEF save_step
    <3>2. save'[b] = save[b]
      BY <1>2, <2>2, <3>1, SaveStepFields
    <3>3. server'[b] = server[b]
      BY <1>2, <2>2, <3>1 DEF returns, CopyTypes
    <3> QED
      BY <1>1, <3>1, <3>2, <3>3, Untouched
  <2> QED
    BY <2>1, <2>2
<1>7. ASSUME NEW c \in Savers, alter(c) \/ save_fails(c) \/ kill_server(c)
      PROVE  FALSE
  BY <1>1, <1>7 DEF alter, save_fails, kill_server
<1>8. CASE UNCHANGED vars
  BY <1>1, <1>8, Untouched DEF vars
<1> QED
  BY <1>3, <1>4, <1>5, <1>6, <1>7, <1>8 DEF Next

LEMMA UnfailingInitially == Init => Unfailing
<1> SUFFICES ASSUME Init, NEW c \in Savers
             PROVE  Writes(c) /\ Takes(c) /\ save[c].stage \notin {"unlink", "failed"}
  BY DEF Unfailing
<1>1. client[c] = "down" /\ save[c].stage = "none"
  BY DEF Init, SaveInit, NotSaving
<1> QED
  BY <1>1 DEF Writes, Takes

\* A frame written whole, with the server's key and within its limits, is saved
\* unless something failed: for any number of copies at a time, whatever their
\* names, keys and process numbers.
THEOREM FrameIsTaken == Spec => []FrameTaken
<1>1. Unfailing => FrameTaken
  BY DEF Unfailing, FrameTaken, Takes, Good
<1> QED
  BY <1>1, CopyInitially, CopyStep, UnfailingInitially, UnfailingStep, PTL DEF Spec
=============================================================================
