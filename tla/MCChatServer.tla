---------------------------- MODULE MCChatServer ----------------------------
(***************************************************************************)
(* Bounds for ChatServer: descriptors are interchangeable.                 *)
(***************************************************************************)
EXTENDS ChatServer, TLC

Symmetry == Permutations(Fds)
=============================================================================
