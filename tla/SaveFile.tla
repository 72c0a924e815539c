------------------------------- MODULE SaveFile -------------------------------
(***************************************************************************)
(* save_file_atomic of a2_common.c, one action for each system call: a     *)
(* temporary file named after the path and the process is opened, written, *)
(* closed and renamed.  It is called by secure_server, a process for each  *)
(* call, and by the receiver threads of client_real, which share one.      *)
(*                                                                         *)
(* Files are inodes.  A name leads to one or to none; an open file keeps   *)
(* its inode and its offset whatever becomes of the name.                  *)
(***************************************************************************)
EXTENDS Integers, Sequences

CONSTANTS
  Savers,       \* threads of control that may be in the function
  Pids, Paths, Data,
  Size,         \* how long each datum is, in pieces
  NoData, NoInode

ASSUME SaveAssumption ==
  /\ Size \in [Data -> Nat]
  /\ NoData \notin Data /\ NoInode \notin Nat
  /\ NoData \notin Paths
  /\ \A d, e \in Data : Size[d] = 0 /\ Size[e] = 0 => d = e

VARIABLES
  named,   \* the inode of each path
  tmp,     \* the inode of each temporary name: a path and a process
  inodes,  \* what the inodes hold, piece by piece
  save     \* each saver: where it stands in save_file_atomic

savevars == <<named, tmp, inodes, save>>

NotSaving == [stage |-> "none", path |-> NoData, pid |-> NoData, data |-> NoData,
              inode |-> NoInode, done |-> 0]

SaveInit ==
  /\ named = [path \in Paths |-> NoInode]
  /\ tmp = [name \in Paths \X Pids |-> NoInode]
  /\ inodes = <<>>
  /\ save = [s \in Savers |-> NotSaving]

Whole(d) == [i \in 1 .. Size[d] |-> d]

\* The kernel's write at an offset: it may overwrite, or leave a gap behind the
\* end of a file that was truncated meanwhile.
Written(old, offset, d) ==
  [i \in 1 .. (IF offset < Len(old) THEN Len(old) ELSE offset + 1) |->
     IF i = offset + 1 THEN d ELSE IF i <= Len(old) THEN old[i] ELSE NoData]

TmpName(s) == <<save[s].path, save[s].pid>>

InStage(s, stage) == save[s].stage = stage

Saving(s) == save[s].stage \in {"open", "write", "unlink"}

\* the call, by process pid
save_file_atomic(s, pid, path, data) ==
  save' = [save EXCEPT ![s] = [stage |-> "open", path |-> path, pid |-> pid,
                               data |-> data, inode |-> NoInode, done |-> 0]]

\* open with O_CREAT and O_TRUNC: a temporary left by another is emptied
open_tmp(s) ==
  /\ InStage(s, "open")
  /\ \/ /\ tmp[TmpName(s)] = NoInode
        /\ inodes' = Append(inodes, <<>>)
        /\ tmp' = [tmp EXCEPT ![TmpName(s)] = Len(inodes')]
     \/ /\ tmp[TmpName(s)] # NoInode
        /\ inodes' = [inodes EXCEPT ![tmp[TmpName(s)]] = <<>>]
        /\ UNCHANGED tmp
  /\ save' = [save EXCEPT ![s].stage = "write", ![s].inode = tmp'[TmpName(s)]]
  /\ UNCHANGED named

open_fails(s) ==
  /\ InStage(s, "open")
  /\ save' = [save EXCEPT ![s].stage = "failed"]
  /\ UNCHANGED <<named, tmp, inodes>>

\* A faulty write_all_fd: one piece too many.
WritesOneMore(s) ==
  /\ InStage(s, "write") /\ save[s].done <= Size[save[s].data]
  /\ inodes' = [inodes EXCEPT ![save[s].inode] =
                  Written(@, save[s].done, save[s].data)]
  /\ save' = [save EXCEPT ![s].done = @ + 1]
  /\ UNCHANGED <<named, tmp>>

\* write_all_fd: a write may take less than it is given
write_piece(s) ==
  /\ InStage(s, "write") /\ save[s].done < Size[save[s].data]
  /\ inodes' = [inodes EXCEPT ![save[s].inode] =
                  Written(@, save[s].done, save[s].data)]
  /\ save' = [save EXCEPT ![s].done = @ + 1]
  /\ UNCHANGED <<named, tmp>>

\* A faulty caller of write_all_fd: it renames whatever was written.
RenamesHalf(s) ==
  /\ InStage(s, "write")
  /\ tmp[TmpName(s)] # NoInode
  /\ named' = [named EXCEPT ![save[s].path] = tmp[TmpName(s)]]
  /\ tmp' = [tmp EXCEPT ![TmpName(s)] = NoInode]
  /\ save' = [save EXCEPT ![s].stage = "saved"]
  /\ UNCHANGED inodes

\* close and rename, which finds whatever the temporary name leads to
rename_tmp(s) ==
  /\ InStage(s, "write") /\ save[s].done = Size[save[s].data]
  /\ tmp[TmpName(s)] # NoInode
  /\ named' = [named EXCEPT ![save[s].path] = tmp[TmpName(s)]]
  /\ tmp' = [tmp EXCEPT ![TmpName(s)] = NoInode]
  /\ save' = [save EXCEPT ![s].stage = "saved"]
  /\ UNCHANGED inodes

\* the temporary has been renamed or unlinked by another thread of the process
rename_finds_none(s) ==
  /\ InStage(s, "write") /\ save[s].done = Size[save[s].data]
  /\ tmp[TmpName(s)] = NoInode
  /\ save' = [save EXCEPT ![s].stage = "unlink"]
  /\ UNCHANGED <<named, tmp, inodes>>

\* write, close or rename fails
write_fails(s) ==
  /\ InStage(s, "write")
  /\ save' = [save EXCEPT ![s].stage = "unlink"]
  /\ UNCHANGED <<named, tmp, inodes>>

unlink_tmp(s) ==
  /\ InStage(s, "unlink")
  /\ tmp' = [tmp EXCEPT ![TmpName(s)] = NoInode]
  /\ save' = [save EXCEPT ![s].stage = "failed"]
  /\ UNCHANGED <<named, inodes>>

SaveStep(s) == \/ open_tmp(s) \/ write_piece(s) \/ rename_tmp(s)
               \/ rename_finds_none(s) \/ unlink_tmp(s)
SaveFault(s) == open_fails(s) \/ write_fails(s)
-----------------------------------------------------------------------------
Inodes == 1 .. Len(inodes)

Stages == {"none", "open", "write", "unlink", "saved", "failed"}
SaveStates == [stage : Stages, path : Paths \cup {NoData}, pid : Pids \cup {NoData},
               data : Data \cup {NoData}, inode : Nat \cup {NoInode}, done : Nat]

Contents == Seq(Data \cup {NoData})

SaveTypeOK ==
  /\ named \in [Paths -> Inodes \cup {NoInode}]
  /\ tmp \in [Paths \X Pids -> Inodes \cup {NoInode}]
  /\ inodes \in Seq(Contents)
  /\ save \in [Savers -> SaveStates]
  /\ \A s \in Savers :
       /\ ~InStage(s, "none") => /\ save[s].path \in Paths /\ save[s].pid \in Pids
                                 /\ save[s].data \in Data
       /\ InStage(s, "none") => save[s] = NotSaving
       /\ InStage(s, "open") => save[s].done = 0
       /\ InStage(s, "write") => /\ save[s].inode \in Inodes
                                 /\ save[s].done <= Size[save[s].data]
-----------------------------------------------------------------------------
(* Seen as AtomicFile: a path holds the datum of which its inode is the    *)
(* whole, and Torn when it is the whole of none.                           *)
Torn == <<NoData>>

Datum(contents) ==
  IF \E d \in Data : contents = Whole(d)
  THEN CHOOSE d \in Data : contents = Whole(d)
  ELSE Torn

Held(inode) == IF inode = NoInode THEN NoData ELSE Datum(inodes[inode])

CallOf(s) ==
  [stage |-> IF Saving(s) THEN "saving" ELSE save[s].stage,
   path |-> save[s].path, data |-> save[s].data]

Atomic == INSTANCE AtomicFile WITH file <- [path \in Paths |-> Held(named[path])],
                                   call <- [s \in Savers |-> CallOf(s)]
=============================================================================
