------------------------------ MODULE AtomicFile ------------------------------
(***************************************************************************)
(* What save_file_atomic (a2_common.c) promises its callers: a path holds  *)
(* nothing or all of what one caller wanted there, and changes in one      *)
(* step; a call that is answered 0 made that step once, any other call     *)
(* made none.                                                              *)
(***************************************************************************)
CONSTANTS Savers, Paths, Data, NoData

VARIABLES
  file,   \* what each path holds
  call    \* the call of each saver: where it stands, its path and its data

avars == <<file, call>>

NoCall == [stage |-> "none", path |-> NoData, data |-> NoData]

AInit == /\ file = [path \in Paths |-> NoData]
         /\ call = [s \in Savers |-> NoCall]

Begin(s) ==
  /\ call[s].stage # "saving"
  /\ \E path \in Paths, data \in Data :
       call' = [call EXCEPT ![s] = [stage |-> "saving", path |-> path, data |-> data]]
  /\ UNCHANGED file

Commit(s) ==
  /\ call[s].stage = "saving"
  /\ call' = [call EXCEPT ![s].stage = "saved"]
  /\ file' = [file EXCEPT ![call[s].path] = call[s].data]

\* an error, or the end of the caller
GiveUp(s) ==
  /\ call[s].stage = "saving"
  /\ call' = [call EXCEPT ![s].stage = "failed"]
  /\ UNCHANGED file

\* the caller has gone on, or another one takes its place
Forget(s) ==
  /\ call[s].stage \in {"saved", "failed"}
  /\ call' = [call EXCEPT ![s] = NoCall]
  /\ UNCHANGED file

ANext == \E s \in Savers : Begin(s) \/ Commit(s) \/ GiveUp(s) \/ Forget(s)

ASpec == AInit /\ [][ANext]_avars
=============================================================================
