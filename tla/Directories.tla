------------------------------ MODULE Directories ------------------------------
(***************************************************************************)
(* create_dir, cd and sudo of Assignment1 at work in one tree of           *)
(* directories, each with an ACL file in its parent or without one.        *)
(* Several run at a time; one action is one system call that others can    *)
(* see, or one checkPermFromAcl.                                           *)
(*                                                                         *)
(* A path is the sequence of its names from "." or "/", which is always    *)
(* there and is never asked.  The tree has one owner, as a new directory   *)
(* gets the owner of its parent (change_uid): seteuid is left out.         *)
(* Nothing in the repository removes a directory.                          *)
(***************************************************************************)
EXTENDS AclFile, FiniteSets

CONSTANTS
  Procs,        \* processes at a time
  Owner,        \* of the tree
  SudoUsers,    \* who has 'x' on the tools
  Paths,        \* all but the root, with every path above one of them
  Operands,     \* sequences of paths that create_dir may be given
  Trees,        \* the directories that may be there at first
  SetAcls,      \* what setacl may make of an ACL
  NoAcl, Nobody,
  MaxRuns,      \* bound on the commands typed
  MaxChanges,   \* bound on other tools' files and ACLs
  MaxFaults     \* bound on failures and kills

Above(path) == {SubSeq(path, 1, n) : n \in 1 .. Len(path) - 1}
Parent(path) == SubSeq(path, 1, Len(path) - 1)

ASSUME DirectoriesAssumption ==
  /\ Owner \in Names /\ SudoUsers \subseteq Names
  /\ {"r", "w", "x"} \subseteq Perms
  /\ \A path \in Paths : /\ path \in Seq({path[i] : i \in DOMAIN path}) \ {<<>>}
                          /\ Above(path) \subseteq Paths
  /\ \A ops \in Operands : ops \in Seq(Paths) /\ ops # <<>>
  /\ \A tree \in Trees : tree \subseteq Paths /\ \A path \in tree : Above(path) \subseteq tree
  /\ SetAcls \subseteq Acls /\ NoAcl \notin Acls /\ <<>> \notin SetAcls
  /\ Nobody \notin Procs
  /\ {MaxRuns, MaxChanges, MaxFaults} \subseteq Nat

VARIABLES
  proc,     \* the processes
  kind,     \* what is at each path: "none", "dir" or "file"
  acl,      \* the ACL of each
  filling,  \* who has its ACL file open to write a first one
  runs, changes, faults,
  made,     \* history: the directories that create_dir made
  granted   \* history: what the ACLs gave each process's user since it started

vars == <<proc, kind, acl, filling, runs, changes, faults, made, granted>>

\* at, need: the directory whose ACL is looked at, and for what; index: the
\* operand; step: how long a prefix of it is being made, 0 for the whole at once
Idle == [pc |-> "idle", user |-> Owner, tool |-> "none", sudo |-> FALSE,
         parents |-> FALSE, operands |-> <<>>, index |-> 1, at |-> <<>>,
         need |-> "x", step |-> 0, errno |-> "", denied |-> {}]

\* No ACL allows as well as one that grants (okIfNoAcl).
Allows(acls, path, user, perm) ==
  acls[path] # NoAcl => HasPerm(acls[path], user, perm)

Given(acls, user) ==
  {pair \in Paths \X {"w", "x"} : Allows(acls, pair[1], user, pair[2])}

Init ==
  /\ proc = [p \in Procs |-> Idle]
  /\ \E tree \in Trees :
       /\ kind = [path \in Paths |-> IF path \in tree THEN "dir" ELSE "none"]
       /\ \E with \in SUBSET tree :
            acl = [path \in Paths |-> IF path \in with THEN FreshAcl(Owner, {"r", "w", "x"})
                                                       ELSE NoAcl]
  /\ filling = [path \in Paths |-> Nobody]
  /\ runs = 0
  /\ changes = 0
  /\ faults = 0
  /\ made = {}
  /\ granted = [p \in Procs |-> {}]

At(p, pc) == proc[p].pc = pc
Moves(p, pc) == proc' = [proc EXCEPT ![p].pc = pc]
Operand(p) == proc[p].operands[proc[p].index]

Fault == faults < MaxFaults /\ faults' = faults + 1

\* what every change of an ACL does to the history
Witnessed == granted' = [p \in Procs |-> granted[p] \cup Given(acl', proc[p].user)]

Looks == UNCHANGED <<kind, acl, filling, runs, changes, faults, made, granted>>
-----------------------------------------------------------------------------
(* sudo, and the start of the tools.                                       *)

allowed_command == {"fput", "fget", "create_dir", "cd", "setacl", "getacl"}

\* what is typed: a tool, or sudo and a command
start(p) ==
  /\ proc[p].pc \in {"idle", "done", "denied", "failed"} /\ runs < MaxRuns
  /\ runs' = runs + 1
  /\ \E user \in Names, tool \in {"create_dir", "cd", "ls"}, sudo \in BOOLEAN,
        parents \in BOOLEAN, ops \in Operands :
       /\ tool = "ls" => sudo
       /\ tool # "create_dir" => Len(ops) = 1 /\ ~parents
       /\ proc' = [proc EXCEPT ![p] =
            [Idle EXCEPT !.pc = IF sudo THEN "sudo" ELSE "operand", !.user = user,
                         !.tool = tool, !.sudo = sudo, !.parents = parents,
                         !.operands = ops]]
       /\ granted' = [granted EXCEPT ![p] = Given(acl, user)]
  /\ UNCHANGED <<kind, acl, filling, changes, faults, made>>

\* execute_process: its child does the rest, and sudo ends as the child does
sudo(p) ==
  /\ At(p, "sudo")
  /\ \/ proc[p].tool \in allowed_command /\ Moves(p, "tool")
     \/ proc[p].tool \notin allowed_command /\ Moves(p, "failed")
  /\ Looks

\* under SUDO_MODE it is the tool's ACL that is asked, for 'x'
check_tool(p) ==
  /\ At(p, "tool")
  /\ \/ proc[p].user \in SudoUsers /\ Moves(p, "operand")
     \/ proc[p].user \notin SudoUsers /\ Moves(p, "denied")
  /\ Looks
-----------------------------------------------------------------------------
(* The ACLs on the way: every directory above the operand for create_dir,  *)
(* the operand too for cd, from the end of the path to its beginning.      *)

\* A faulty create_dir: it asks its parent for 'x' only.
NeverAsksToWrite(p) == "x"

\* create_dir asks the first one for 'w', and then, like all, for 'x'
FirstNeed(p) == IF proc[p].tool = "create_dir" THEN "w" ELSE "x"

FirstAsked(p) == IF proc[p].tool = "create_dir" THEN Parent(Operand(p)) ELSE Operand(p)

Unasked(p) == proc[p].sudo \/ FirstAsked(p) = <<>>

Acts(p) == IF proc[p].tool = "create_dir" THEN "mkdir" ELSE "chdir"

\* the loop over the operands, and main's end
NextOperand(p, r) ==
  IF r.index < Len(r.operands)
  THEN [r EXCEPT !.pc = "operand", !.index = @ + 1, !.step = 0, !.errno = ""]
  ELSE [r EXCEPT !.pc = "done", !.index = @ + 1, !.step = 0, !.errno = ""]

\* create_dir passes over an operand that is a directory
operand(p) ==
  /\ At(p, "operand")
  /\ \/ /\ proc[p].tool = "create_dir" /\ kind[Operand(p)] = "dir"
        /\ proc' = [proc EXCEPT ![p] = NextOperand(p, @)]
     \/ /\ ~(proc[p].tool = "create_dir" /\ kind[Operand(p)] = "dir")
        /\ Unasked(p) /\ Moves(p, Acts(p))
     \/ /\ ~(proc[p].tool = "create_dir" /\ kind[Operand(p)] = "dir")
        /\ ~Unasked(p)
        /\ proc' = [proc EXCEPT ![p] = [@ EXCEPT !.pc = "ask", !.at = FirstAsked(p),
                                                 !.need = FirstNeed(p)]]
  /\ Looks

\* A denied create_dir goes on to its next operand, a denied cd ends.
ask(p) ==
  LET dir == proc[p].at
      yes == Allows(acl, dir, proc[p].user, proc[p].need)
  IN  /\ At(p, "ask")
      /\ \/ /\ yes /\ proc[p].need = "w"
            /\ proc' = [proc EXCEPT ![p].need = "x"]
         \/ /\ yes /\ proc[p].need = "x" /\ Parent(dir) # <<>>
            /\ proc' = [proc EXCEPT ![p].at = Parent(dir)]
         \/ /\ yes /\ proc[p].need = "x" /\ Parent(dir) = <<>>
            /\ Moves(p, Acts(p))
         \/ /\ ~yes /\ proc[p].tool = "create_dir"
            /\ proc' = [proc EXCEPT ![p] =
                 NextOperand(p, [proc[p] EXCEPT !.denied = @ \cup {Operand(p)}])]
         \/ /\ ~yes /\ proc[p].tool = "cd" /\ Moves(p, "denied")
      /\ Looks

chdir(p) ==
  /\ At(p, "chdir")
  /\ \/ kind[Operand(p)] = "dir" /\ Moves(p, "done")
     \/ kind[Operand(p)] # "dir" /\ Moves(p, "failed")
  /\ Looks
-----------------------------------------------------------------------------
(* create_dir: mkdir of the operand and, with -p, of one prefix after the  *)
(* other.                                                                  *)

Blocked(path) == \E a \in Above(path) : kind[a] = "file"

\* "" when there is something, or when it was made
StatErrno(path) == IF Blocked(path) THEN "ENOTDIR"
                   ELSE IF kind[path] = "none" THEN "ENOENT" ELSE ""
MkdirErrno(path) == IF Blocked(path) THEN "ENOTDIR"
                    ELSE IF \E a \in Above(path) : kind[a] = "none" THEN "ENOENT"
                    ELSE IF kind[path] # "none" THEN "EEXIST" ELSE ""

Place(p) == IF proc[p].step = 0 THEN Operand(p) ELSE SubSeq(Operand(p), 1, proc[p].step)

\* Faulty create_dirs: the loop ends before the last name, or after it.
StopsShort(p, r) == IF r.step > 0 /\ r.step + 1 < Len(r.operands[r.index])
                    THEN [r EXCEPT !.pc = "prefix", !.step = @ + 1]
                    ELSE NextOperand(p, r)
GoesTooFar(p, r) == IF r.step > 0 /\ r.step <= Len(r.operands[r.index])
                    THEN [r EXCEPT !.pc = "prefix", !.step = @ + 1]
                    ELSE NextOperand(p, r)

\* the loop over the prefixes, and its end
NextPrefix(p, r) == IF r.step > 0 /\ r.step < Len(r.operands[r.index])
                    THEN [r EXCEPT !.pc = "prefix", !.step = @ + 1]
                    ELSE NextOperand(p, r)

\* A faulty create_dir: the loop makes no ACLs.
MakesOnly(p, path) ==
  /\ MkdirErrno(path) = ""
  /\ kind' = [kind EXCEPT ![path] = "dir"]
  /\ made' = made \cup {path}
  /\ proc' = [proc EXCEPT ![p] = IF @.step > 0 THEN NextPrefix(p, @)
                                 ELSE [@ EXCEPT !.pc = "open acl"]]
  /\ UNCHANGED <<acl, filling, runs, changes, faults, granted>>

Makes(p, path) ==
  /\ MkdirErrno(path) = ""
  /\ kind' = [kind EXCEPT ![path] = "dir"]
  /\ made' = made \cup {path}
  /\ Moves(p, "open acl")
  /\ UNCHANGED <<acl, filling, runs, changes, faults, granted>>

\* mkdir says why not, or for some other reason
Fails(path, errno) ==
  \/ errno = MkdirErrno(path) /\ errno # "" /\ Looks
  \/ /\ errno = "EIO" /\ Fault
     /\ UNCHANGED <<kind, acl, filling, runs, changes, made, granted>>

Errnos == {"ENOENT", "ENOTDIR", "EEXIST", "EIO"}

mkdir(p) ==
  /\ At(p, "mkdir")
  /\ \/ Makes(p, Operand(p))
     \/ \E errno \in Errnos :
          /\ Fails(Operand(p), errno)
          /\ proc' = [proc EXCEPT ![p] =
               [@ EXCEPT !.pc = IF proc[p].parents THEN "stat" ELSE "failed",
                         !.errno = errno]]

\* A stat that fails sets errno anew; one that does not leaves mkdir's.
stat_again(p) ==
  LET errno == IF StatErrno(Operand(p)) = "" THEN proc[p].errno ELSE StatErrno(Operand(p))
      isDir == kind[Operand(p)] = "dir"
      ends  == errno \notin {"EEXIST", "ENOENT"} \/ (errno = "EEXIST" /\ ~isDir)
  IN  /\ At(p, "stat")
      /\ \/ ends /\ Moves(p, "failed")
         \/ ~ends /\ proc' = [proc EXCEPT ![p] = [@ EXCEPT !.pc = "prefix", !.step = 1]]
      /\ Looks

\* A faulty create_dir: what is there already ends it.
MindsExisting(p) ==
  /\ At(p, "prefix")
  /\ \/ Makes(p, Place(p))
     \/ \E errno \in Errnos : Fails(Place(p), errno) /\ Moves(p, "failed")

\* what is there already does not matter here, a directory or not
mkdir_prefix(p) ==
  /\ At(p, "prefix")
  /\ \/ Makes(p, Place(p))
     \/ \E errno \in Errnos :
          /\ Fails(Place(p), errno)
          /\ proc' = [proc EXCEPT ![p] = IF errno = "EEXIST" THEN NextPrefix(p, @)
                                         ELSE [@ EXCEPT !.pc = "failed"]]

\* createAclFromStat: fopen for writing empties an ACL that is there ...
open_acl(p) ==
  /\ At(p, "open acl")
  /\ acl' = [acl EXCEPT ![Place(p)] = <<>>]
  /\ filling' = [filling EXCEPT ![Place(p)] = p]
  /\ Moves(p, "fill acl")
  /\ Witnessed
  /\ UNCHANGED <<kind, runs, changes, faults, made>>

\* ... or fails, which create_dir does not mind
open_fails(p) ==
  /\ At(p, "open acl") /\ Fault
  /\ proc' = [proc EXCEPT ![p] = NextPrefix(p, @)]
  /\ UNCHANGED <<kind, acl, filling, runs, changes, made, granted>>

\* ... and fclose writes the new one, into a file that may have been replaced
fill_acl(p) ==
  LET path == Place(p)
  IN  /\ At(p, "fill acl")
      /\ \/ /\ filling[path] = p
            /\ acl' = [acl EXCEPT ![path] = FreshAcl(Owner, {"r", "w", "x"})]
            /\ filling' = [filling EXCEPT ![path] = Nobody]
         \/ filling[path] # p /\ UNCHANGED <<acl, filling>>
      /\ proc' = [proc EXCEPT ![p] = NextPrefix(p, @)]
      /\ Witnessed
      /\ UNCHANGED <<kind, runs, changes, faults, made>>
-----------------------------------------------------------------------------
(* What else happens.                                                      *)

Change == changes < MaxChanges /\ changes' = changes + 1

\* fput of somebody creates a file
put_file(path) ==
  /\ StatErrno(path) = "ENOENT" /\ MkdirErrno(path) = "" /\ Change
  /\ kind' = [kind EXCEPT ![path] = "file"]
  /\ UNCHANGED <<proc, acl, filling, runs, faults, made, granted>>

\* setacl of somebody puts a new ACL in the old one's place
set_acl(path) ==
  /\ acl[path] # NoAcl /\ Change
  /\ \E new \in SetAcls : acl' = [acl EXCEPT ![path] = new]
  /\ filling' = [filling EXCEPT ![path] = Nobody]
  /\ Witnessed
  /\ UNCHANGED <<proc, kind, runs, faults, made>>

\* A signal ends a tool anywhere.
kill(p) ==
  /\ proc[p].pc \notin {"idle", "done", "denied", "failed", "killed"} /\ Fault
  /\ Moves(p, "killed")
  /\ UNCHANGED <<kind, acl, filling, runs, changes, made, granted>>

Next ==
  \/ \E p \in Procs : \/ start(p) \/ sudo(p) \/ check_tool(p) \/ operand(p) \/ ask(p)
                      \/ chdir(p) \/ mkdir(p) \/ stat_again(p) \/ mkdir_prefix(p)
                      \/ open_acl(p) \/ open_fails(p) \/ fill_acl(p) \/ kill(p)
  \/ \E path \in Paths : put_file(path) \/ set_acl(path)

Spec == Init /\ [][Next]_vars
-----------------------------------------------------------------------------
PCs == {"idle", "sudo", "tool", "operand", "ask", "chdir", "mkdir", "stat", "prefix",
        "open acl", "fill acl", "done", "denied", "failed", "killed"}

Processes == [pc : PCs, user : Names, tool : {"none", "create_dir", "cd", "ls"},
              sudo : BOOLEAN, parents : BOOLEAN, operands : Operands \cup {<<>>},
              index : Nat, at : Paths \cup {<<>>}, need : {"w", "x"}, step : Nat,
              errno : Errnos \cup {""}, denied : SUBSET Paths]

Working == {"ask", "chdir", "mkdir", "stat", "prefix", "open acl", "fill acl"}

TypeOK ==
  /\ proc \in [Procs -> Processes]
  /\ \A p \in Procs : proc[p].pc \in Working =>
       /\ proc[p].index \in DOMAIN proc[p].operands
       /\ proc[p].step \in 0 .. Len(Operand(p))
       /\ At(p, "ask") => proc[p].at \in Paths
  /\ kind \in [Paths -> {"none", "dir", "file"}]
  /\ acl \in [Paths -> Acls \cup {NoAcl}]
  /\ filling \in [Paths -> Procs \cup {Nobody}]
  /\ runs \in 0 .. MaxRuns
  /\ changes \in 0 .. MaxChanges
  /\ faults \in 0 .. MaxFaults
  /\ made \subseteq Paths
  /\ granted \in [Procs -> SUBSET (Paths \X {"w", "x"})]

\* Two create_dir -p on overlapping paths do not make each other fail, in
\* whichever order their mkdirs, stats and loops come, and though the second
\* stat may replace the errno that decides: one fails only when a file is in
\* the way, or something else went wrong.
OverlapHarmless ==
  \A p \in Procs : At(p, "failed") /\ proc[p].tool = "create_dir" /\ proc[p].parents =>
    faults > 0 \/ kind[Operand(p)] = "file" \/ Blocked(Operand(p))

\* What create_dir has gone past without a word is there, after all the detours
\* of -p: a directory, unless it was denied or a file took the place.
PassedIsThere ==
  \A p \in Procs : proc[p].tool = "create_dir" =>
    \A i \in DOMAIN proc[p].operands : i < proc[p].index =>
      \/ kind[proc[p].operands[i]] # "none"
      \/ proc[p].operands[i] \in proc[p].denied

\* A directory that create_dir made has an ACL with lines in it, whoever made
\* which part of its path, unless its maker is about to write one or failed.
AclFollows ==
  \A path \in made :
    \/ acl[path] \notin {NoAcl, <<>>}
    \/ \E p \in Procs : proc[p].pc \in {"open acl", "fill acl"} /\ Place(p) = path
    \/ faults > 0

\* Without sudo a directory is made only for a user whom, at some moments since
\* the tool started, every directory above the operand let through, and its
\* parent let write, by an ACL or by having none.  (With -p the parent may have
\* been missing: what was there above it was not asked for 'w'.)
MadeByRight ==
  \A p \in Procs :
    /\ proc[p].pc \in {"mkdir", "stat", "prefix", "open acl", "fill acl"}
    /\ ~proc[p].sudo /\ Above(Operand(p)) # {}
    => /\ <<Parent(Operand(p)), "w">> \in granted[p]
       /\ \A a \in Above(Operand(p)) : <<a, "x">> \in granted[p]
=============================================================================
