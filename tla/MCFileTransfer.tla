---------------------------- MODULE MCFileTransfer ----------------------------
(* FileTransfer for TLC: one requester, two commands.                      *)
EXTENDS FileTransfer, TLC

CONSTANTS alice, bob, file, port, first, second

ClientFiles == Clients \X Files
Asks == [from : {alice}, owner : {bob}, file : Files, port : Ports]
Lengths == first :> 1 @@ second :> 2
Threads == 1 .. 2
=============================================================================
