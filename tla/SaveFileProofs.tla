---------------------------- MODULE SaveFileProofs ----------------------------
(***************************************************************************)
(* What a saver's steps keep, whoever calls save_file_atomic: the types,   *)
(* and, where no two savers share a temporary's name, that the temporary   *)
(* holds what its saver has written and the paths hold whole data.         *)
(*                                                                         *)
(* Two callers differ in when savers share a name: never for the processes *)
(* of SecureCopy, for the paths in shared for the threads of FileTransfer. *)
(* Here they are the set of paths risky.                                   *)
(***************************************************************************)
EXTENDS SaveFile, TLAPS

TmpNames == Paths \X Pids

Piece(s) == [i \in 1 .. save[s].done |-> save[s].data]

\* A temporary's inode has no other name.
TmpInv ==
  /\ \A a, b \in TmpNames : a # b /\ tmp[a] # NoInode => tmp[a] # tmp[b]
  /\ \A a \in TmpNames, path \in Paths : tmp[a] # NoInode => tmp[a] # named[path]

\* An inode being written is no other path's.
OpenInv ==
  \A s \in Savers : InStage(s, "write") =>
    \A path \in Paths \ {save[s].path} :
      /\ named[path] # save[s].inode
      /\ \A pid \in Pids : tmp[<<path, pid>>] # save[s].inode

\* Outside the risky paths the temporary is its saver's.
OwnInv(risky) ==
  \A s \in Savers : InStage(s, "write") /\ save[s].path \notin risky =>
    tmp[TmpName(s)] = save[s].inode /\ inodes[save[s].inode] = Piece(s)

SaveInv(risky) == TmpInv /\ OpenInv /\ OwnInv(risky)

\* Outside the risky paths nobody else has a saver's temporary name.
Alone(risky) ==
  \A r, s \in Savers : r # s /\ Saving(r) /\ Saving(s) /\ save[s].path \notin risky
                         => TmpName(r) # TmpName(s)
-----------------------------------------------------------------------------
(* The inodes' contents.                                                   *)

LEMMA RepeatedIsContents ==
  ASSUME NEW d \in Data, NEW k \in Nat
  PROVE  LET w == [i \in 1 .. k |-> d] IN w \in Contents /\ Len(w) = k
<1> DEFINE w == [i \in 1 .. k |-> d]
<1>1. w \in [1 .. k -> Data \cup {NoData}]
  OBVIOUS
<1>2. w \in Contents
  BY <1>1 DEF Contents
<1>3. Len(w) = k
  BY <1>1
<1> QED
  BY <1>2, <1>3

LEMMA WrittenIsContents ==
  ASSUME NEW old \in Contents, NEW k \in Nat, NEW d \in Data
  PROVE  Written(old, k, d) \in Contents
<1> DEFINE n == IF k < Len(old) THEN Len(old) ELSE k + 1
<1>1. Len(old) \in Nat /\ n \in Nat
  BY DEF Contents
<1>2. \A i \in 1 .. Len(old) : old[i] \in Data \cup {NoData}
  BY DEF Contents
<1>3. Written(old, k, d) \in [1 .. n -> Data \cup {NoData}]
  BY <1>1, <1>2 DEF Written
<1> QED
  BY <1>1, <1>3 DEF Contents

\* A piece more behind the pieces there are.
LEMMA WrittenAtEnd ==
  ASSUME NEW k \in Nat, NEW d \in Data
  PROVE  Written([i \in 1 .. k |-> d], k, d) = [i \in 1 .. k + 1 |-> d]
<1> DEFINE w == [i \in 1 .. k |-> d]
<1>1. Len(w) = k
  BY RepeatedIsContents
<1>2. Written(w, k, d) = [i \in 1 .. k + 1 |-> IF i = k + 1 THEN d ELSE IF i <= k THEN w[i] ELSE NoData]
  BY <1>1 DEF Written
<1> QED
  BY <1>2

\* Two data are told apart by their whole.
LEMMA WholeTells ==
  ASSUME NEW d \in Data, NEW e \in Data, Whole(d) = Whole(e)
  PROVE  d = e
<1>1. Size[d] \in Nat /\ Size[e] \in Nat
  BY SaveAssumption
<1>2. Len(Whole(d)) = Size[d] /\ Len(Whole(e)) = Size[e]
  BY <1>1, RepeatedIsContents DEF Whole
<1>3. CASE Size[d] = 0
  BY <1>2, <1>3, SaveAssumption
<1>4. CASE Size[d] # 0
  <2>1. Whole(d)[1] = d /\ Whole(e)[1] = e
    BY <1>1, <1>2, <1>4 DEF Whole
  <2> QED
    BY <2>1
<1> QED
  BY <1>3, <1>4
-----------------------------------------------------------------------------
(* The types.                                                              *)

LEMMA CallTypes ==
  ASSUME SaveTypeOK, NEW s \in Savers, NEW pid \in Pids, NEW path \in Paths,
         NEW d \in Data, save_file_atomic(s, pid, path, d),
         UNCHANGED <<named, tmp, inodes>>
  PROVE  SaveTypeOK'
BY DEF SaveTypeOK, save_file_atomic, SaveStates, Stages, InStage, Inodes

\* Steps after which savers write no more.
LEMMA StopTypes ==
  ASSUME SaveTypeOK, UNCHANGED inodes, save' \in [Savers -> SaveStates],
         named' \in [Paths -> Inodes \cup {NoInode}],
         tmp' \in [Paths \X Pids -> Inodes \cup {NoInode}],
         \A s \in Savers : \/ save'[s] = save[s]
                           \/ save'[s] = NotSaving
                           \/ /\ Saving(s) /\ save'[s].stage \in {"unlink", "saved", "failed"}
                              /\ save'[s].path = save[s].path
                              /\ save'[s].pid = save[s].pid
                              /\ save'[s].data = save[s].data
  PROVE  SaveTypeOK'
<1>1. NotSaving.stage = "none"
  BY DEF NotSaving
<1>2. ASSUME NEW s \in Savers
      PROVE  /\ ~InStage(s, "none")' => /\ save'[s].path \in Paths /\ save'[s].pid \in Pids
                                       /\ save'[s].data \in Data
             /\ InStage(s, "none")' => save'[s] = NotSaving
             /\ InStage(s, "open")' => save'[s].done = 0
             /\ InStage(s, "write")' => /\ save'[s].inode \in Inodes
                                        /\ save'[s].done <= Size[save'[s].data]
  BY <1>1 DEF SaveTypeOK, InStage, Saving
<1> QED
  BY <1>2 DEF SaveTypeOK, Inodes

\* One saver's stage changes.
LEMMA StageTypes ==
  ASSUME SaveTypeOK, NEW s \in Savers, NEW stage \in Stages,
         save' = [save EXCEPT ![s].stage = stage]
  PROVE  save' \in [Savers -> SaveStates]
BY DEF SaveTypeOK, SaveStates

LEMMA OpenTypes ==
  ASSUME SaveTypeOK, NEW s \in Savers, open_tmp(s)
  PROVE  SaveTypeOK'
<1>0. /\ save[s].path \in Paths /\ save[s].pid \in Pids /\ save[s].data \in Data
      /\ TmpName(s) \in Paths \X Pids
  BY DEF open_tmp, InStage, SaveTypeOK, TmpName
<1>1. <<>> \in Contents
  BY DEF Contents
<1>2. /\ inodes' \in Seq(Contents)
      /\ Inodes \subseteq Inodes'
      /\ tmp' \in [Paths \X Pids -> Inodes' \cup {NoInode}]
      /\ tmp'[TmpName(s)] \in Inodes'
  <2>1. CASE tmp[TmpName(s)] = NoInode
    <3>1. inodes' = Append(inodes, <<>>) /\ tmp' = [tmp EXCEPT ![TmpName(s)] = Len(inodes')]
      BY <2>1 DEF open_tmp
    <3>2. inodes' \in Seq(Contents) /\ Len(inodes') = Len(inodes) + 1 /\ Len(inodes) \in Nat
      BY <1>1, <3>1 DEF SaveTypeOK
    <3>3. Inodes \subseteq Inodes' /\ Len(inodes') \in Inodes'
      BY <3>2 DEF Inodes
    <3> QED
      BY <1>0, <3>1, <3>2, <3>3 DEF SaveTypeOK
  <2>2. CASE tmp[TmpName(s)] # NoInode
    <3>1. inodes' = [inodes EXCEPT ![tmp[TmpName(s)]] = <<>>] /\ tmp' = tmp
      BY <2>2 DEF open_tmp
    <3>2. tmp[TmpName(s)] \in Inodes
      BY <1>0, <2>2 DEF SaveTypeOK
    <3>3. inodes' \in Seq(Contents) /\ Len(inodes') = Len(inodes)
      BY <1>1, <3>1, <3>2 DEF SaveTypeOK, Inodes
    <3> QED
      BY <3>1, <3>2, <3>3 DEF SaveTypeOK, Inodes
  <2> QED
    BY <2>1, <2>2
<1>3. save' \in [Savers -> SaveStates]
  <2> DEFINE i == tmp'[TmpName(s)]
  <2>1. i \in Nat
    BY <1>2 DEF Inodes
  <2>2. save' = [save EXCEPT ![s].stage = "write", ![s].inode = i]
    BY DEF open_tmp
  <2>3. save \in [Savers -> SaveStates]
    BY DEF SaveTypeOK
  <2> HIDE DEF i
  <2> QED
    BY <2>1, <2>2, <2>3 DEF SaveStates, Stages
<1>4. named' \in [Paths -> Inodes' \cup {NoInode}]
  BY <1>2 DEF open_tmp, SaveTypeOK
<1>5. ASSUME NEW r \in Savers
      PROVE  /\ ~InStage(r, "none")' => /\ save'[r].path \in Paths /\ save'[r].pid \in Pids
                                       /\ save'[r].data \in Data
             /\ InStage(r, "none")' => save'[r] = NotSaving
             /\ InStage(r, "open")' => save'[r].done = 0
             /\ InStage(r, "write")' => /\ save'[r].inode \in Inodes'
                                        /\ save'[r].done <= Size[save'[r].data]
  <2>1. CASE r = s
    <3> DEFINE i == tmp'[TmpName(s)]
    <3>1. save' = [save EXCEPT ![s].stage = "write", ![s].inode = i]
      BY DEF open_tmp
    <3>2. save[s].done = 0 /\ save \in [Savers -> SaveStates]
      BY DEF open_tmp, SaveTypeOK
    <3>3. i \in Inodes' /\ Size[save[s].data] >= 0
      BY <1>0, <1>2, SaveAssumption
    <3> HIDE DEF i
    <3> QED
      BY <1>0, <2>1, <3>1, <3>2, <3>3 DEF SaveStates, InStage
  <2>2. CASE r # s
    <3>1. save'[r] = save[r]
      BY <2>2 DEF open_tmp, SaveTypeOK
    <3> QED
      BY <1>2, <3>1 DEF SaveTypeOK, InStage
  <2> QED
    BY <2>1, <2>2
<1> QED
  BY <1>2, <1>3, <1>4, <1>5 DEF SaveTypeOK

LEMMA WriteTypes ==
  ASSUME SaveTypeOK, NEW s \in Savers, write_piece(s)
  PROVE  SaveTypeOK'
<1>0. /\ save[s].inode \in Inodes /\ save[s].data \in Data /\ save[s].done \in Nat
      /\ save[s].done < Size[save[s].data]
      /\ Size[save[s].data] \in Nat
  BY SaveAssumption DEF write_piece, InStage, SaveTypeOK, SaveStates
<1>1. inodes[save[s].inode] \in Contents
  BY <1>0 DEF SaveTypeOK, Inodes
<1>2. Written(inodes[save[s].inode], save[s].done, save[s].data) \in Contents
  BY <1>0, <1>1, WrittenIsContents
<1>3. inodes' \in Seq(Contents) /\ Len(inodes') = Len(inodes)
  BY <1>0, <1>2 DEF write_piece, SaveTypeOK, Inodes
<1>a. save' = [save EXCEPT ![s].done = @ + 1]
  BY DEF write_piece
<1>b. save \in [Savers -> SaveStates]
  BY DEF SaveTypeOK
<1>4. save' \in [Savers -> SaveStates]
  BY <1>a, <1>b DEF SaveStates
<1>5. ASSUME NEW r \in Savers
      PROVE  /\ ~InStage(r, "none")' => /\ save'[r].path \in Paths /\ save'[r].pid \in Pids
                                       /\ save'[r].data \in Data
             /\ InStage(r, "none")' => save'[r] = NotSaving
             /\ InStage(r, "open")' => save'[r].done = 0
             /\ InStage(r, "write")' => /\ save'[r].inode \in Inodes
                                        /\ save'[r].done <= Size[save'[r].data]
  BY <1>0, <1>a DEF write_piece, SaveTypeOK, SaveStates, InStage
<1> QED
  BY <1>3, <1>4, <1>5 DEF SaveTypeOK, Inodes, write_piece

LEMMA SaveStepTypes ==
  ASSUME SaveTypeOK, NEW s \in Savers, SaveStep(s) \/ SaveFault(s)
  PROVE  SaveTypeOK'
<1>1. CASE open_tmp(s)
  BY <1>1, OpenTypes
<1>2. CASE write_piece(s)
  BY <1>2, WriteTypes
<1>3. CASE rename_tmp(s)
  <2>1. save' \in [Savers -> SaveStates]
    BY <1>3, StageTypes DEF rename_tmp, Stages
  <2>2. /\ named' \in [Paths -> Inodes \cup {NoInode}]
        /\ tmp' \in [Paths \X Pids -> Inodes \cup {NoInode}]
    BY <1>3 DEF rename_tmp, TmpName, SaveTypeOK, InStage
  <2> QED
    BY <1>3, <2>1, <2>2, StopTypes DEF rename_tmp, InStage, Saving, SaveTypeOK, SaveStates
<1>4. CASE rename_finds_none(s)
  <2>1. save' \in [Savers -> SaveStates]
    BY <1>4, StageTypes DEF rename_finds_none, Stages
  <2> QED
    BY <1>4, <2>1, StopTypes DEF rename_finds_none, InStage, Saving, SaveTypeOK, SaveStates
<1>5. CASE unlink_tmp(s)
  <2>1. save' \in [Savers -> SaveStates]
    BY <1>5, StageTypes DEF unlink_tmp, Stages
  <2>2. tmp' \in [Paths \X Pids -> Inodes \cup {NoInode}]
    BY <1>5 DEF unlink_tmp, TmpName, SaveTypeOK, InStage
  <2> QED
    BY <1>5, <2>1, <2>2, StopTypes DEF unlink_tmp, InStage, Saving, SaveTypeOK, SaveStates
<1>6. CASE open_fails(s)
  <2>1. save' \in [Savers -> SaveStates]
    BY <1>6, StageTypes DEF open_fails, Stages
  <2> QED
    BY <1>6, <2>1, StopTypes DEF open_fails, InStage, Saving, SaveTypeOK, SaveStates
<1>7. CASE write_fails(s)
  <2>1. save' \in [Savers -> SaveStates]
    BY <1>7, StageTypes DEF write_fails, Stages
  <2> QED
    BY <1>7, <2>1, StopTypes DEF write_fails, InStage, Saving, SaveTypeOK, SaveStates
<1> QED
  BY <1>1, <1>2, <1>3, <1>4, <1>5, <1>6, <1>7 DEF SaveStep, SaveFault
-----------------------------------------------------------------------------
(* The temporaries.                                                        *)

\* What the types say of a saver in the function.
LEMMA SaverTypes ==
  ASSUME SaveTypeOK, NEW s \in Savers
  PROVE  /\ save[s].done \in Nat
         /\ ~InStage(s, "none") => /\ save[s].path \in Paths /\ save[s].pid \in Pids
                                  /\ save[s].data \in Data /\ TmpName(s) \in TmpNames
                                  /\ Size[save[s].data] \in Nat
         /\ InStage(s, "open") => save[s].done = 0
         /\ InStage(s, "write") => /\ save[s].inode \in Inodes /\ save[s].inode # NoInode
                                   /\ save[s].done <= Size[save[s].data]
<1>1. save[s] \in SaveStates
  BY DEF SaveTypeOK
<1>2. save[s].done \in Nat
  BY <1>1 DEF SaveStates
<1>3. InStage(s, "write") => save[s].inode \in Inodes
  BY DEF SaveTypeOK
<1>4. NoInode \notin Inodes
  BY SaveAssumption DEF SaveTypeOK, Inodes
<1> QED
  BY <1>2, <1>3, <1>4, SaveAssumption DEF SaveTypeOK, TmpName, TmpNames

\* Whoever writes on wrote before, and no file changes.
LEMMA NoFileChanges ==
  ASSUME NEW risky, NEW more, risky \subseteq more, SaveInv(risky),
         UNCHANGED <<named, tmp, inodes>>,
         \A s \in Savers : save'[s].stage = "write" => save'[s] = save[s]
  PROVE  SaveInv(more)'
<1>1. TmpInv'
  BY DEF SaveInv, TmpInv
<1>2. OpenInv'
  BY DEF SaveInv, OpenInv, InStage
<1>3. OwnInv(more)'
  BY DEF SaveInv, OwnInv, InStage, TmpName, Piece
<1> QED
  BY <1>1, <1>2, <1>3 DEF SaveInv

LEMMA OpenKeeps ==
  ASSUME NEW risky, SaveTypeOK, SaveInv(risky), Alone(risky), NEW s \in Savers, open_tmp(s)
  PROVE  /\ SaveInv(risky)'
         /\ named' = named
         /\ \A path \in Paths : named[path] # NoInode => inodes'[named[path]] = inodes[named[path]]
<1> DEFINE i == tmp'[TmpName(s)]
<1>1. /\ TmpName(s) \in TmpNames /\ save[s].path \in Paths /\ save[s].pid \in Pids
      /\ save[s].data \in Data /\ InStage(s, "open") /\ save[s].done = 0
  BY SaverTypes DEF open_tmp, InStage
<1>2. /\ named' = named
      /\ save' = [save EXCEPT ![s].stage = "write", ![s].inode = i]
  BY DEF open_tmp
<1>3. \A r \in Savers \ {s} : save'[r] = save[r]
  BY <1>2 DEF SaveTypeOK
<1>4. /\ save'[s].stage = "write" /\ save'[s].inode = i /\ save'[s].path = save[s].path
      /\ save'[s].pid = save[s].pid /\ save'[s].done = 0
  <2>1. save \in [Savers -> SaveStates]
    BY DEF SaveTypeOK
  <2> HIDE DEF i
  <2> QED
    BY <1>1, <1>2, <2>1 DEF SaveStates
\* what the open does to the names and the inodes
<1>5. /\ i # NoInode
      /\ inodes'[i] = <<>>
      /\ \A a \in TmpNames \ {TmpName(s)} : tmp'[a] = tmp[a] /\ tmp[a] # i
      /\ \A path \in Paths : named[path] # i
      /\ \A j \in Inodes \ {i} : inodes'[j] = inodes[j]
      /\ \A r \in Savers \ {s} : InStage(r, "write") /\ save[r].inode = i => tmp[TmpName(s)] = i
  <2>1. /\ \A path \in Paths : named[path] \in Inodes \cup {NoInode}
        /\ \A a \in TmpNames : tmp[a] \in Inodes \cup {NoInode}
        /\ \A r \in Savers : InStage(r, "write") => save[r].inode \in Inodes
        /\ Len(inodes) \in Nat
    BY DEF SaveTypeOK, TmpNames
  <2>2. CASE tmp[TmpName(s)] = NoInode
    <3>1. inodes' = Append(inodes, <<>>) /\ tmp' = [tmp EXCEPT ![TmpName(s)] = Len(inodes')]
      BY <2>2 DEF open_tmp
    <3>2. /\ Len(inodes') = Len(inodes) + 1 /\ inodes'[Len(inodes) + 1] = <<>>
          /\ \A j \in Inodes : inodes'[j] = inodes[j]
      BY <3>1 DEF SaveTypeOK, Inodes
    <3>3. i = Len(inodes) + 1 /\ \A a \in TmpNames \ {TmpName(s)} : tmp'[a] = tmp[a]
      BY <1>1, <3>1, <3>2 DEF SaveTypeOK, TmpNames
    <3>4. i \notin Inodes /\ i # NoInode
      BY <2>1, <3>3, SaveAssumption DEF Inodes
    <3> QED
      BY <2>1, <3>2, <3>3, <3>4
  <2>3. CASE tmp[TmpName(s)] # NoInode
    <3>1. inodes' = [inodes EXCEPT ![i] = <<>>] /\ tmp' = tmp
      BY <2>3 DEF open_tmp
    <3>2. i \in Inodes /\ i # NoInode /\ tmp[TmpName(s)] = i
      BY <1>1, <2>1, <2>3, <3>1
    <3> HIDE DEF i
    <3>3. inodes'[i] = <<>> /\ \A j \in Inodes \ {i} : inodes'[j] = inodes[j]
      BY <3>1, <3>2 DEF SaveTypeOK, Inodes
    <3>4. \A a \in TmpNames \ {TmpName(s)} : tmp[a] # i
      BY <1>1, <3>2 DEF SaveInv, TmpInv
    <3>5. \A path \in Paths : named[path] # i
      BY <1>1, <3>2 DEF SaveInv, TmpInv
    <3> QED
      BY <3>1, <3>2, <3>3, <3>4, <3>5
  <2> QED
    BY <2>2, <2>3
<1>a. tmp'[TmpName(s)] = i
  OBVIOUS
<1> HIDE DEF i
<1>6. TmpInv'
  BY <1>1, <1>2, <1>5, <1>a DEF SaveInv, TmpInv
<1>7. OpenInv'
  <2> SUFFICES ASSUME NEW r \in Savers, InStage(r, "write")',
                      NEW path \in Paths, path # save'[r].path
               PROVE  /\ named'[path] # save'[r].inode
                      /\ \A pid \in Pids : tmp'[<<path, pid>>] # save'[r].inode
    BY DEF OpenInv
  <2>0. \A pid \in Pids : <<path, pid>> \in TmpNames
    BY DEF TmpNames
  <2>1. CASE r = s
    <3>1. \A pid \in Pids : <<path, pid>> # TmpName(s)
      BY <1>4, <2>1 DEF TmpName
    <3> QED
      BY <1>2, <1>4, <1>5, <2>0, <2>1, <3>1
  <2>2. CASE r # s
    <3>1. save'[r] = save[r] /\ InStage(r, "write")
      BY <1>3, <2>2 DEF InStage
    <3>2. named[path] # save[r].inode /\ \A pid \in Pids : tmp[<<path, pid>>] # save[r].inode
      BY <3>1, <2>2 DEF SaveInv, OpenInv
    <3>3. ASSUME NEW pid \in Pids PROVE tmp'[<<path, pid>>] # save[r].inode
      <4>1. CASE <<path, pid>> = TmpName(s)
        BY <1>5, <1>a, <2>2, <3>1, <3>2, <4>1
      <4>2. CASE <<path, pid>> # TmpName(s)
        BY <1>5, <2>0, <3>2, <4>2
      <4> QED
        BY <4>1, <4>2
    <3> QED
      BY <1>2, <3>1, <3>2, <3>3
  <2> QED
    BY <2>1, <2>2
<1>8. OwnInv(risky)'
  <2> SUFFICES ASSUME NEW r \in Savers, InStage(r, "write")', save'[r].path \notin risky
               PROVE  tmp'[TmpName(r)'] = save'[r].inode /\ inodes'[save'[r].inode] = Piece(r)'
    BY DEF OwnInv
  <2>1. CASE r = s
    <3>1. TmpName(s)' = TmpName(s)
      BY <1>4 DEF TmpName
    <3>2. Piece(s)' = <<>>
      BY <1>4 DEF Piece
    <3> QED
      BY <1>4, <1>5, <1>a, <2>1, <3>1, <3>2
  <2>2. CASE r # s
    <3>1. save'[r] = save[r] /\ InStage(r, "write")
      BY <1>3, <2>2 DEF InStage
    <3>2. TmpName(r) # TmpName(s)
      BY <1>1, <2>2, <3>1 DEF Alone, Saving, InStage
    <3>3. TmpName(r) \in TmpNames /\ save[r].inode \in Inodes
      BY <3>1, SaverTypes DEF InStage
    <3>4. tmp[TmpName(r)] = save[r].inode /\ inodes[save[r].inode] = Piece(r)
      BY <3>1 DEF SaveInv, OwnInv
    <3>5. TmpName(r)' = TmpName(r) /\ Piece(r)' = Piece(r)
      BY <3>1 DEF TmpName, Piece
    <3> QED
      BY <1>5, <3>1, <3>2, <3>3, <3>4, <3>5
  <2> QED
    BY <2>1, <2>2
<1>9. \A path \in Paths : named[path] # NoInode => inodes'[named[path]] = inodes[named[path]]
  BY <1>5 DEF SaveTypeOK
<1> QED
  BY <1>2, <1>6, <1>7, <1>8, <1>9 DEF SaveInv

LEMMA WriteKeeps ==
  ASSUME NEW risky, SaveTypeOK, SaveInv(risky), Alone(risky), NEW s \in Savers, write_piece(s)
  PROVE  /\ SaveInv(risky)'
         /\ named' = named
         /\ \A path \in Paths : (path # save[s].path \/ path \notin risky) /\ named[path] # NoInode =>
              inodes'[named[path]] = inodes[named[path]]
<1> DEFINE i == save[s].inode
           d == save[s].data
<1>1. /\ TmpName(s) \in TmpNames /\ save[s].path \in Paths /\ d \in Data
      /\ i \in Inodes /\ i # NoInode /\ InStage(s, "write") /\ save[s].done \in Nat
  BY SaverTypes DEF write_piece, InStage
<1>2. /\ named' = named /\ tmp' = tmp
      /\ save' = [save EXCEPT ![s].done = @ + 1]
      /\ inodes' = [inodes EXCEPT ![i] = Written(@, save[s].done, d)]
  BY DEF write_piece
<1>3. /\ inodes'[i] = Written(inodes[i], save[s].done, d)
      /\ \A j \in Inodes \ {i} : inodes'[j] = inodes[j]
  <2> HIDE DEF i
  <2> QED
    BY <1>1, <1>2 DEF SaveTypeOK, Inodes
<1>4. \A r \in Savers : /\ save'[r].stage = save[r].stage /\ save'[r].inode = save[r].inode
                        /\ save'[r].path = save[r].path /\ save'[r].pid = save[r].pid
                        /\ save'[r].data = save[r].data
                        /\ save'[r].done = IF r = s THEN save[s].done + 1 ELSE save[r].done
  <2>1. save \in [Savers -> SaveStates]
    BY DEF SaveTypeOK
  <2> QED
    BY <1>2, <2>1 DEF SaveStates
<1>5. TmpInv'
  BY <1>2 DEF SaveInv, TmpInv
<1>6. OpenInv'
  BY <1>2, <1>4 DEF SaveInv, OpenInv, InStage
<1>7. OwnInv(risky)'
  <2> SUFFICES ASSUME NEW r \in Savers, InStage(r, "write")', save'[r].path \notin risky
               PROVE  tmp'[TmpName(r)'] = save'[r].inode /\ inodes'[save'[r].inode] = Piece(r)'
    BY DEF OwnInv
  <2>1. /\ InStage(r, "write") /\ TmpName(r)' = TmpName(r)
        /\ save[r].inode \in Inodes /\ save[r].inode # NoInode /\ TmpName(r) \in TmpNames
    BY <1>4, SaverTypes DEF InStage, TmpName
  <2>2. tmp[TmpName(r)] = save[r].inode /\ inodes[save[r].inode] = Piece(r)
    BY <1>4, <2>1 DEF SaveInv, OwnInv
  <2>3. CASE r = s
    <3>1. inodes'[i] = Written(Piece(s), save[s].done, d)
      BY <1>3, <2>2, <2>3
    <3>2. Piece(s)' = [k \in 1 .. save[s].done + 1 |-> d]
      BY <1>4 DEF Piece
    <3>3. Written(Piece(s), save[s].done, d) = [k \in 1 .. save[s].done + 1 |-> d]
      BY <1>1, WrittenAtEnd DEF Piece
    <3> QED
      BY <1>2, <1>4, <2>1, <2>2, <2>3, <3>1, <3>2, <3>3
  <2>4. CASE r # s
    <3>1. TmpName(r) # TmpName(s)
      BY <1>1, <1>4, <2>1, <2>4 DEF Alone, Saving, InStage
    <3>2. save[r].inode # i
      <4>1. CASE save[s].path = save[r].path
        <5>1. tmp[TmpName(s)] = i
          BY <1>1, <1>4, <4>1 DEF SaveInv, OwnInv
        <5> QED
          BY <1>1, <2>1, <2>2, <3>1, <5>1 DEF SaveInv, TmpInv
      <4>2. CASE save[s].path # save[r].path
        <5>1. save[r].path \in Paths /\ save[r].pid \in Pids
          BY <2>1, SaverTypes DEF InStage
        <5> QED
          BY <1>1, <2>2, <4>2, <5>1 DEF SaveInv, OpenInv, TmpName
      <4> QED
        BY <4>1, <4>2
    <3>3. Piece(r)' = Piece(r)
      BY <1>4, <2>4 DEF Piece
    <3> QED
      BY <1>2, <1>3, <1>4, <2>1, <2>2, <3>2, <3>3
  <2> QED
    BY <2>3, <2>4
<1>8. ASSUME NEW path \in Paths, path # save[s].path \/ path \notin risky, named[path] # NoInode
      PROVE  inodes'[named[path]] = inodes[named[path]]
  <2>1. named[path] \in Inodes
    BY <1>8 DEF SaveTypeOK
  <2>2. named[path] # i
    <3>1. CASE path # save[s].path
      BY <1>1, <3>1 DEF SaveInv, OpenInv
    <3>2. CASE path = save[s].path /\ path \notin risky
      <4>1. tmp[TmpName(s)] = i
        BY <1>1, <3>2 DEF SaveInv, OwnInv
      <4> QED
        BY <1>1, <4>1 DEF SaveInv, TmpInv
    <3> QED
      BY <1>8, <3>1, <3>2
  <2> QED
    BY <1>3, <2>1, <2>2
<1> QED
  BY <1>2, <1>5, <1>6, <1>7, <1>8 DEF SaveInv

\* The temporary's name is given up, and a path may get its inode.
LEMMA TmpGoesKeeps ==
  ASSUME NEW risky, SaveTypeOK, SaveInv(risky), Alone(risky), NEW s \in Savers,
         Saving(s), tmp' = [tmp EXCEPT ![TmpName(s)] = NoInode], UNCHANGED inodes,
         NEW stage \in {"saved", "failed"}, save' = [save EXCEPT ![s].stage = stage],
         \/ named' = named
         \/ named' = [named EXCEPT ![save[s].path] = tmp[TmpName(s)]] /\ tmp[TmpName(s)] # NoInode
  PROVE  SaveInv(risky)'
<1>1. TmpName(s) \in TmpNames /\ save[s].path \in Paths /\ save[s].pid \in Pids
  BY SaverTypes DEF Saving, InStage
<1>2. /\ tmp'[TmpName(s)] = NoInode
      /\ \A a \in TmpNames \ {TmpName(s)} : tmp'[a] = tmp[a]
      /\ \A path \in Paths \ {save[s].path} : named'[path] = named[path]
      /\ \/ named'[save[s].path] = named[save[s].path]
         \/ named'[save[s].path] = tmp[TmpName(s)] /\ tmp[TmpName(s)] # NoInode
  BY <1>1 DEF SaveTypeOK, TmpNames
<1>3. ASSUME NEW r \in Savers, InStage(r, "write")'
      PROVE  /\ r # s /\ save'[r] = save[r] /\ InStage(r, "write")
             /\ save[r].inode # NoInode /\ TmpName(r) \in TmpNames
  <2>1. r # s
    BY <1>3 DEF SaveTypeOK, SaveStates, InStage
  <2>2. save'[r] = save[r]
    BY <2>1 DEF SaveTypeOK
  <2> QED
    BY <1>3, <2>1, <2>2, SaverTypes DEF InStage
<1>4. TmpInv'
  <2>1. ASSUME NEW a \in TmpNames, NEW b \in TmpNames, a # b, tmp'[a] # NoInode
        PROVE  tmp'[a] # tmp'[b]
    BY <1>2, <2>1 DEF SaveInv, TmpInv
  <2>2. ASSUME NEW a \in TmpNames, NEW path \in Paths, tmp'[a] # NoInode
        PROVE  tmp'[a] # named'[path]
    <3>1. a # TmpName(s) /\ tmp'[a] = tmp[a] /\ tmp[a] # NoInode
      BY <1>2, <2>2
    <3>2. tmp[a] # named[path] /\ tmp[a] # tmp[TmpName(s)]
      BY <1>1, <3>1 DEF SaveInv, TmpInv
    <3> QED
      BY <1>2, <3>1, <3>2
  <2> QED
    BY <2>1, <2>2 DEF TmpInv
<1>5. OpenInv'
  <2> SUFFICES ASSUME NEW r \in Savers, InStage(r, "write")',
                      NEW path \in Paths, path # save'[r].path
               PROVE  /\ named'[path] # save'[r].inode
                      /\ \A pid \in Pids : tmp'[<<path, pid>>] # save'[r].inode
    BY DEF OpenInv
  <2>1. /\ named[path] # save[r].inode
        /\ \A pid \in Pids : tmp[<<path, pid>>] # save[r].inode
    BY <1>3 DEF SaveInv, OpenInv
  <2>2. \A pid \in Pids : <<path, pid>> \in TmpNames
    BY DEF TmpNames
  <2>3. named'[path] # save[r].inode
    <3>1. CASE path = save[s].path
      <4>1. tmp[TmpName(s)] # save[r].inode
        BY <1>1, <2>1, <3>1 DEF TmpName
      <4> QED
        BY <1>2, <2>1, <3>1, <4>1
    <3>2. CASE path # save[s].path
      BY <1>2, <2>1, <3>2
    <3> QED
      BY <3>1, <3>2
  <2>4. \A pid \in Pids : tmp'[<<path, pid>>] # save[r].inode
    BY <1>2, <1>3, <2>1, <2>2
  <2> QED
    BY <1>3, <2>3, <2>4
<1>6. OwnInv(risky)'
  <2> SUFFICES ASSUME NEW r \in Savers, InStage(r, "write")', save'[r].path \notin risky
               PROVE  tmp'[TmpName(r)'] = save'[r].inode /\ inodes'[save'[r].inode] = Piece(r)'
    BY DEF OwnInv
  <2>1. TmpName(r)' = TmpName(r) /\ Piece(r)' = Piece(r)
    BY <1>3 DEF TmpName, Piece
  <2>2. TmpName(r) # TmpName(s)
    BY <1>3 DEF Alone, Saving, InStage
  <2>3. tmp[TmpName(r)] = save[r].inode /\ inodes[save[r].inode] = Piece(r)
    BY <1>3 DEF SaveInv, OwnInv
  <2> QED
    BY <1>2, <1>3, <2>1, <2>2, <2>3
<1> QED
  BY <1>4, <1>5, <1>6 DEF SaveInv

\* A rename outside the risky paths gives the path all of the saver's datum.
LEMMA RenamesWhole ==
  ASSUME NEW risky, SaveTypeOK, SaveInv(risky), NEW s \in Savers, rename_tmp(s),
         save[s].path \notin risky
  PROVE  inodes[tmp[TmpName(s)]] = Whole(save[s].data)
<1>1. tmp[TmpName(s)] = save[s].inode /\ inodes[save[s].inode] = Piece(s)
  BY DEF rename_tmp, SaveInv, OwnInv
<1>2. save[s].done = Size[save[s].data]
  BY DEF rename_tmp
<1> QED
  BY <1>1, <1>2 DEF Piece, Whole

\* Every step keeps the invariant.
LEMMA SaveStepKeeps ==
  ASSUME NEW risky, SaveTypeOK, SaveInv(risky), Alone(risky), NEW s \in Savers,
         SaveStep(s) \/ SaveFault(s)
  PROVE  SaveInv(risky)'
<1>1. CASE open_tmp(s)
  BY <1>1, OpenKeeps
<1>2. CASE write_piece(s)
  BY <1>2, WriteKeeps
<1>3. CASE rename_tmp(s)
  BY <1>3, TmpGoesKeeps DEF rename_tmp, Saving, InStage
<1>4. CASE unlink_tmp(s)
  BY <1>4, TmpGoesKeeps DEF unlink_tmp, Saving, InStage
<1>5. CASE rename_finds_none(s) \/ open_fails(s) \/ write_fails(s)
  <2>1. /\ UNCHANGED <<named, tmp, inodes>>
        /\ \/ save' = [save EXCEPT ![s].stage = "unlink"]
           \/ save' = [save EXCEPT ![s].stage = "failed"]
    BY <1>5 DEF rename_finds_none, open_fails, write_fails
  <2>2. \A r \in Savers : save'[r].stage = "write" => save'[r] = save[r]
    BY <2>1 DEF SaveTypeOK, SaveStates
  <2> QED
    BY <2>1, <2>2, NoFileChanges
<1> QED
  BY <1>1, <1>2, <1>3, <1>4, <1>5 DEF SaveStep, SaveFault

\* A step changes one saver's place, and nobody's path, process or datum.
LEMMA SaveStepFields ==
  ASSUME SaveTypeOK, NEW s \in Savers, SaveStep(s) \/ SaveFault(s)
  PROVE  /\ Saving(s) /\ save'[s].stage \in {"write", "unlink", "saved", "failed"}
         /\ save'[s].path = save[s].path /\ save'[s].pid = save[s].pid
         /\ save'[s].data = save[s].data
         /\ \A r \in Savers \ {s} : save'[r] = save[r]
<1>1. Saving(s)
  BY DEF SaveStep, SaveFault, open_tmp, write_piece, rename_tmp, rename_finds_none, unlink_tmp,
         open_fails, write_fails, InStage, Saving
<1>2. \/ \E stage \in {"unlink", "saved", "failed"} : save' = [save EXCEPT ![s].stage = stage]
      \/ \E i : save' = [save EXCEPT ![s].stage = "write", ![s].inode = i]
      \/ InStage(s, "write") /\ save' = [save EXCEPT ![s].done = @ + 1]
  BY DEF SaveStep, SaveFault, open_tmp, write_piece, rename_tmp, rename_finds_none, unlink_tmp,
         open_fails, write_fails
<1>3. save \in [Savers -> SaveStates]
  BY DEF SaveTypeOK
<1>4. \A r \in Savers \ {s} : save'[r] = save[r]
  BY <1>2, <1>3
<1>5. /\ save'[s].stage \in {"write", "unlink", "saved", "failed"}
      /\ save'[s].path = save[s].path /\ save'[s].pid = save[s].pid
      /\ save'[s].data = save[s].data
  BY <1>2, <1>3 DEF SaveStates, InStage
<1> QED
  BY <1>1, <1>4, <1>5
=============================================================================
