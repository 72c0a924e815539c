------------------------------- MODULE AclTools -------------------------------
(***************************************************************************)
(* fget, fput, getacl and setacl of Assignment1 at work on one file and    *)
(* its ACL file, several of them at a time.  One action is one system call *)
(* that others can see, with what the tool does up to the next.            *)
(*                                                                         *)
(* Files are inodes: setPermInAcl puts a new one in the old one's place    *)
(* (rename), createAclFromStat writes into the one that is there.  The     *)
(* file and its ACL belong to Owner, the owner of the directory.  The ACLs *)
(* of the directory and of the tool itself (under sudo) do not change: the *)
(* first lets anybody in or not, the second gives SudoUsers permission.    *)
(* The tools act as Owner where they act at all: seteuid is left out.      *)
(***************************************************************************)
EXTENDS AclFile, FiniteSets

CONSTANTS
  Procs,        \* processes at a time, each starts one tool after another
  Owner, Root,  \* two of Names
  SudoUsers,    \* who has 'x' on the tools
  Tools,        \* the tools of a run
  Targets,      \* the users setacl names in a run
  SetModes,     \* what it sets; -x sets {}
  InitialAcls,  \* the ACLs the file may have at first
  NoInode,
  MaxRuns,      \* bound on the tools started
  MaxFailures   \* bound on the renames that fail and the processes killed

ASSUME AclAssumption ==
  /\ {Owner, Root} \subseteq Names
  /\ SudoUsers \subseteq Names
  /\ {"r", "w"} \subseteq Perms
  /\ Targets \subseteq Names /\ SetModes \subseteq SUBSET Perms
  /\ \A a \in InitialAcls : a \in Acls /\ a # <<>> /\ OneEntry(a)
  /\ MaxRuns \in Nat /\ MaxFailures \in Nat
  /\ NoInode \notin Nat

VARIABLES
  proc,      \* the processes
  exists,    \* the file is there
  data,      \* its texts, by the number of the run that wrote each
  acl,       \* the inode of its ACL file
  content,   \* what the inodes hold
  runs,      \* how many tools were started
  failures,  \* how many renames failed and processes were killed
  granted    \* history: what the ACL gave the user since the tool started

vars == <<proc, exists, data, acl, content, runs, failures, granted>>

Inodes == 1 .. Len(content)

\* name and mode are setacl's arguments; inode is the ACL file it has open,
\* copy what it read there
Idle == [pc |-> "idle", user |-> Root, tool |-> "none", sudo |-> FALSE,
         name |-> Root, mode |-> {}, inode |-> NoInode,
         copy |-> <<>>, run |-> 0]

Init ==
  /\ proc = [p \in Procs |-> Idle]
  /\ data = <<>>
  /\ \/ exists = FALSE /\ acl = NoInode /\ content = <<>>
     \/ /\ exists = TRUE /\ acl = 1
        /\ \E initial \in InitialAcls : content = <<initial>>
  /\ runs = 0
  /\ failures = 0
  /\ granted = [p \in Procs |-> {}]

At(p, pc) == proc[p].pc = pc

\* the permissions the ACL gives a user now, by any line of it
Given(inode, contents, user) ==
  IF inode = NoInode THEN {}
  ELSE {perm \in Perms :
          \E i \in DOMAIN contents[inode] : Grants(contents[inode][i], user, perm)}

\* what every change of an ACL does to the history: who has one open finds
\* what is written to it, replaced or not
Witnessed ==
  granted' = [p \in Procs |->
                granted[p] \cup Given(acl', content', proc[p].user)
                           \cup IF At(p, "read")
                                THEN Given(proc[p].inode, content', proc[p].user)
                                ELSE {}]
-----------------------------------------------------------------------------
(* The start of each tool: its own identity, then stat of the file.        *)

starts(p, user, tool, sudo, name, mode) ==
  /\ tool # "setacl" => name = (CHOOSE n \in Targets : TRUE) /\ mode = {}
  /\ proc' = [proc EXCEPT ![p] =
       [pc |-> "stat", user |-> user, tool |-> tool, sudo |-> sudo,
        name |-> name, mode |-> mode, inode |-> NoInode, copy |-> <<>>,
        run |-> runs']]
  /\ granted' = [granted EXCEPT ![p] = Given(acl, content, user)]

start(p) ==
  /\ proc[p].pc \in {"idle", "done", "failed"} /\ runs < MaxRuns
  /\ runs' = runs + 1
  /\ \E user \in Names, tool \in Tools, sudo \in BOOLEAN,
        name \in Targets, mode \in SetModes \cup {{}} :
       starts(p, user, tool, sudo, name, mode)
  /\ UNCHANGED <<exists, data, acl, content, failures>>

Moves(p, pc) == proc' = [proc EXCEPT ![p].pc = pc]

\* root's setacl and getacl ask nobody
Unasked(p) == proc[p].user = Root /\ proc[p].tool \in {"setacl", "getacl"}

stat_file(p) ==
  /\ At(p, "stat")
  /\ \/ exists /\ Unasked(p) /\ Moves(p, "use")
     \/ exists /\ ~Unasked(p) /\ Moves(p, IF proc[p].sudo THEN "tool" ELSE "check")
     \/ ~exists /\ proc[p].tool = "fput" /\ Moves(p, "directory")
     \/ ~exists /\ proc[p].tool # "fput" /\ Moves(p, "failed")
  /\ UNCHANGED <<exists, data, acl, content, runs, failures, granted>>

\* under sudo it is the tool's ACL that is asked, for 'x'
check_tool(p) ==
  /\ At(p, "tool")
  /\ \/ proc[p].user \in SudoUsers /\ Moves(p, "use")
     \/ proc[p].user \notin SudoUsers /\ Moves(p, "failed")
  /\ UNCHANGED <<exists, data, acl, content, runs, failures, granted>>
-----------------------------------------------------------------------------
(* checkPermFromAcl.                                                       *)

\* A faulty check: it does not look whether there is an ACL.
OpensAnyway(p) ==
  /\ At(p, "check")
  /\ proc' = [proc EXCEPT ![p].pc = "read", ![p].inode = acl]
  /\ UNCHANGED <<exists, data, acl, content, runs, failures, granted>>

\* stat, seteuid to the ACL's owner, fopen
open_acl(p) ==
  /\ At(p, "check")
  /\ \/ acl = NoInode /\ Moves(p, "failed")
     \/ /\ acl # NoInode
        /\ proc' = [proc EXCEPT ![p].pc = "read", ![p].inode = acl]
  /\ UNCHANGED <<exists, data, acl, content, runs, failures, granted>>

\* A faulty tool: it asks for 'r' whatever it is about to do.
AsksToRead(tool) == "r"

Needs(tool) == IF tool \in {"fget", "getacl"} THEN "r" ELSE "w"

\* The file, small, comes in one read.
read_acl(p) ==
  LET yes == HasPerm(content[proc[p].inode], proc[p].user, Needs(proc[p].tool))
  IN  /\ At(p, "read")
      /\ \/ yes /\ Moves(p, "use")
         \/ ~yes /\ Moves(p, "failed")
      /\ UNCHANGED <<exists, data, acl, content, runs, failures, granted>>
-----------------------------------------------------------------------------
(* What the tools do with the permission.                                  *)

Ends(p) == Moves(p, "done")

\* fget reads the file, getacl its ACL (printAcl)
show(p) ==
  /\ At(p, "use") /\ proc[p].tool \in {"fget", "getacl"}
  /\ Ends(p)
  /\ UNCHANGED <<exists, data, acl, content, runs, failures, granted>>

\* fput to a file that was there: O_APPEND
append(p) ==
  /\ At(p, "use") /\ proc[p].tool = "fput"
  /\ data' = Append(data, proc[p].run)
  /\ Ends(p)
  /\ UNCHANGED <<exists, acl, content, runs, failures, granted>>

\* setPermInAcl: stat and fopen; its failure is not reported
set_open(p) ==
  /\ At(p, "use") /\ proc[p].tool = "setacl"
  /\ \/ acl = NoInode /\ Ends(p)
     \/ /\ acl # NoInode
        /\ proc' = [proc EXCEPT ![p].pc = "set read", ![p].inode = acl]
  /\ UNCHANGED <<exists, data, acl, content, runs, failures, granted>>

\* A faulty update: the ACL file itself is opened for writing.
WritesInPlace(p) ==
  /\ At(p, "set read")
  /\ proc' = [proc EXCEPT ![p].pc = "set rename",
                          ![p].copy = content[proc[p].inode]]
  /\ content' = [content EXCEPT ![proc[p].inode] = <<>>]
  /\ UNCHANGED <<exists, data, acl, runs, failures>>
  /\ Witnessed

set_read(p) ==
  /\ At(p, "set read")
  /\ proc' = [proc EXCEPT ![p].pc = "set rename",
                          ![p].copy = content[proc[p].inode]]
  /\ UNCHANGED <<exists, data, acl, content, runs, failures, granted>>

\* the whole new file takes the old one's name
set_rename(p) ==
  /\ At(p, "set rename")
  /\ content' = Append(content, SetPerm(proc[p].copy, proc[p].name, proc[p].mode))
  /\ acl' = Len(content')
  /\ Ends(p)
  /\ UNCHANGED <<exists, data, runs, failures>>
  /\ Witnessed

\* fclose or rename fails: setPermInAcl says so, setacl does not listen
set_fails(p) ==
  /\ At(p, "set rename")
  /\ failures < MaxFailures
  /\ failures' = failures + 1
  /\ Ends(p)
  /\ UNCHANGED <<exists, data, acl, content, runs, granted>>
-----------------------------------------------------------------------------
(* fput to a file that was not there.                                      *)

check_directory(p) ==
  /\ At(p, "directory")
  /\ \/ /\ proc[p].sudo => proc[p].user \in SudoUsers
        /\ Moves(p, "create")
     \/ /\ proc[p].sudo => proc[p].user \notin SudoUsers
        /\ Moves(p, "failed")
  /\ UNCHANGED <<exists, data, acl, content, runs, failures, granted>>

\* O_CREAT without O_EXCL: it may be there by now
create_file(p) ==
  /\ At(p, "create")
  /\ exists' = TRUE
  /\ Moves(p, "create acl")
  /\ UNCHANGED <<data, acl, content, runs, failures, granted>>

\* createAclFromStat: fopen for writing empties the ACL that is there ...
create_acl(p) ==
  /\ At(p, "create acl")
  /\ \/ /\ acl = NoInode
        /\ content' = Append(content, <<>>)
        /\ acl' = Len(content')
     \/ /\ acl # NoInode
        /\ content' = [content EXCEPT ![acl] = <<>>]
        /\ UNCHANGED acl
  /\ proc' = [proc EXCEPT ![p].pc = "fill acl", ![p].inode = acl']
  /\ UNCHANGED <<exists, data, runs, failures>>
  /\ Witnessed

\* ... and fclose writes the new one
fill_acl(p) ==
  /\ At(p, "fill acl")
  /\ content' = [content EXCEPT ![proc[p].inode] = FreshAcl(Owner, {"r", "w"})]
  /\ Moves(p, "write")
  /\ UNCHANGED <<exists, data, acl, runs, failures>>
  /\ Witnessed

\* at the place where the file ended when it was opened: its beginning
write_first(p) ==
  /\ At(p, "write")
  /\ data' = IF data = <<>> THEN <<proc[p].run>> ELSE [data EXCEPT ![1] = proc[p].run]
  /\ Ends(p)
  /\ UNCHANGED <<exists, acl, content, runs, failures, granted>>
-----------------------------------------------------------------------------
\* A signal ends a tool anywhere.
kill(p) ==
  /\ proc[p].pc \notin {"idle", "done", "failed", "killed"}
  /\ failures < MaxFailures
  /\ failures' = failures + 1
  /\ Moves(p, "killed")
  /\ UNCHANGED <<exists, data, acl, content, runs, granted>>

Next == \E p \in Procs :
  \/ start(p) \/ stat_file(p) \/ check_tool(p) \/ open_acl(p) \/ read_acl(p)
  \/ show(p) \/ append(p) \/ set_open(p) \/ set_read(p) \/ set_rename(p)
  \/ set_fails(p) \/ check_directory(p) \/ create_file(p) \/ create_acl(p)
  \/ fill_acl(p) \/ write_first(p) \/ kill(p)

Spec == Init /\ [][Next]_vars
-----------------------------------------------------------------------------
PCs == {"idle", "stat", "tool", "check", "read", "use", "set read", "set rename",
        "directory", "create", "create acl", "fill acl", "write", "done",
        "failed", "killed"}

Processes == [pc : PCs, user : Names, tool : Tools \cup {"none"},
              sudo : BOOLEAN, name : Names, mode : SUBSET Perms,
              inode : Nat \cup {NoInode}, copy : Acls, run : Nat]

TypeOK ==
  /\ proc \in [Procs -> Processes]
  /\ \A p \in Procs : proc[p].pc \in {"read", "set read", "set rename", "fill acl"}
                        => proc[p].inode \in Inodes
  /\ exists \in BOOLEAN
  /\ data \in Seq(Nat)
  /\ acl \in Inodes \cup {NoInode}
  /\ content \in Seq(Acls)
  /\ runs \in 0 .. MaxRuns
  /\ failures \in 0 .. MaxFailures
  /\ granted \in [Procs -> SUBSET Perms]

\* No ACL, and no copy of one, names a user twice, whatever setacls and fputs
\* overlap: the lookup goes on after a user's line that does not grant, so a
\* second line would undo a restriction.
OneEntryPerUser ==
  /\ \A i \in Inodes : OneEntry(content[i])
  /\ \A p \in Procs : OneEntry(proc[p].copy)

\* Nobody ever finds an empty ACL but while a new file gets its first one, or
\* for good when that was killed: an update replaces the whole file at once.
WholeAcl ==
  acl # NoInode /\ content[acl] = <<>> =>
    \E p \in Procs : /\ proc[p].pc \in {"fill acl", "killed"}
                     /\ proc[p].tool = "fput" /\ proc[p].inode = acl

\* A tool reads or writes only for a user whom the file's ACL gave permission
\* at some moment since the tool started, though it may have been replaced,
\* emptied or filled meanwhile: the ACL of the file then, or the one the tool
\* had opened as such and which another fput filled after it was replaced.
AllowedOnce ==
  \A p \in Procs :
    /\ proc[p].pc \in {"use", "set read", "set rename"}
    /\ ~proc[p].sudo /\ ~Unasked(p)
    => (IF proc[p].tool \in {"fget", "getacl"} THEN "r" ELSE "w") \in granted[p]

\* The new ACL gives the user what was asked for and everybody else what the
\* copy gave: over every ACL without a malformed line, or whose only one is
\* the user's own.
SetTakesEffect ==
  [][\A p \in Procs : set_rename(p) =>
       LET old == proc[p].copy
           new == content'[acl']
           u   == proc[p].name
       IN  /\ SoundBut(old, u) => \A perm \in Perms :
                HasPerm(new, u, perm) <=> perm \in proc[p].mode
           /\ Sound(old) => \A v \in Names \ {u}, perm \in Perms :
                HasPerm(new, v, perm) <=> HasPerm(old, v, perm)]_vars

\* setacl "adds, modifies, or clears a user ACL entry" (README.md:100): when
\* all are done the ACL has the entry of each, but where another of them was
\* for the same user.
UpdatesKept ==
  acl # NoInode /\ (\A p \in Procs : At(p, "done") /\ proc[p].tool = "setacl") =>
    \A p \in Procs :
      (\A q \in Procs \ {p} : proc[q].name # proc[p].name) =>
        \E i \in DOMAIN content[acl] :
          content[acl][i] = Entry(proc[p].name, proc[p].mode)

\* The two programs that read ACLs agree, whatever the tools made of one: the
\* chat server gives a file to whomever fget gives it, and to others only by
\* default:other or over a line that the tools take for malformed.
ReadersAgree ==
  \A i \in Inodes, u \in Names :
    /\ HasPerm(content[i], u, "r") => acl_allows_read(content[i], u)
    /\ acl_allows_read(content[i], u) /\ Sound(content[i]) =>
         \/ HasPerm(content[i], u, "r")
         \/ \E j \in DOMAIN content[i] : content[i][j].kind = "other"
=============================================================================
