------------------------------ MODULE AclProofs ------------------------------
(***************************************************************************)
(* What an update of an ACL does to what the lookup then finds, and that   *)
(* no ACL names a user twice, for any users, permissions and processes.    *)
(***************************************************************************)
EXTENDS AclTools, TLAPS

LEMMA EntryIsLine ==
  ASSUME NEW u \in Names, NEW m \in SUBSET Perms
  PROVE  /\ Entry(u, m) \in Lines
         /\ Entry(u, m).kind = "user" /\ Entry(u, m).name = u
BY DEF Entry, Lines

\* What the lookup makes of an entry, and of another user's line.
LEMMA EntryDecides ==
  ASSUME NEW u \in Names, NEW m \in SUBSET Perms
  PROVE  /\ ~Malformed(Entry(u, m))
         /\ \A v, perm : Grants(Entry(u, m), v, perm) <=> v = u /\ perm \in m
BY Zenon DEF Malformed, Grants, Entry

LEMMA GrantsOwn ==
  ASSUME NEW line, NEW v, NEW perm, Grants(line, v, perm)
  PROVE  \A w : IsEntryOf(line, w) <=> w = v
BY DEF Grants, IsEntryOf

\* The lines of an updated ACL: the user's replaced, the others in place, and
\* one more only where the user had none.
LEMMA SetShape ==
  ASSUME NEW old \in Acls, NEW u \in Names, NEW m \in SUBSET Perms
  PROVE  LET new == SetPerm(old, u, m)
         IN  /\ new \in Acls
             /\ \A i \in DOMAIN old : /\ i \in DOMAIN new
                                      /\ new[i] = IF IsEntryOf(old[i], u)
                                                    THEN Entry(u, m) ELSE old[i]
             /\ \A i \in DOMAIN new \ DOMAIN old :
                  /\ new[i] = Entry(u, m) /\ i = Len(old) + 1
                  /\ \A j \in DOMAIN old : ~IsEntryOf(old[j], u)
             /\ \E i \in DOMAIN new : new[i] = Entry(u, m)
<1> DEFINE copy == [i \in DOMAIN old |-> IF IsEntryOf(old[i], u) THEN Entry(u, m)
                                                                ELSE old[i]]
<1>1. Entry(u, m) \in Lines
  BY EntryIsLine
<1>2. copy \in Acls /\ Len(copy) = Len(old) /\ DOMAIN copy = 1 .. Len(old)
  <2>1. Len(old) \in Nat /\ DOMAIN old = 1 .. Len(old)
        /\ \A i \in 1 .. Len(old) : old[i] \in Lines
    BY DEF Acls
  <2>2. copy \in [1 .. Len(old) -> Lines]
    BY <1>1, <2>1
  <2> QED
    BY <2>1, <2>2 DEF Acls
<1>3. CASE \E i \in DOMAIN old : IsEntryOf(old[i], u)
  <2>1. SetPerm(old, u, m) = copy
    BY <1>3 DEF SetPerm
  <2> HIDE DEF copy
  <2> QED
    BY <1>2, <1>3, <2>1 DEF copy
<1>4. CASE ~ \E i \in DOMAIN old : IsEntryOf(old[i], u)
  <2>1. SetPerm(old, u, m) = Append(copy, Entry(u, m))
    BY <1>4 DEF SetPerm
  <2>2. \A i \in DOMAIN old : copy[i] = old[i]
    BY <1>4
  <2> HIDE DEF copy
  <2>3. /\ Append(copy, Entry(u, m)) \in Acls
        /\ Len(Append(copy, Entry(u, m))) = Len(old) + 1
        /\ \A i \in 1 .. Len(old) : Append(copy, Entry(u, m))[i] = copy[i]
        /\ Append(copy, Entry(u, m))[Len(old) + 1] = Entry(u, m)
    BY <1>1, <1>2 DEF Acls
  <2> QED
    BY <1>2, <1>4, <2>1, <2>2, <2>3
<1> QED
  BY <1>3, <1>4

\* An update gives the user what was asked for and nothing else, if no line
\* but the user's own can stop the lookup.
LEMMA SetDecides ==
  ASSUME NEW old \in Acls, NEW u \in Names, NEW m \in SUBSET Perms,
         NEW perm \in Perms, SoundBut(old, u)
  PROVE  HasPerm(SetPerm(old, u, m), u, perm) <=> perm \in m
<1> DEFINE new == SetPerm(old, u, m)
<1>1. \A i \in DOMAIN new : new[i] = Entry(u, m) \/ (i \in DOMAIN old /\ new[i] = old[i] /\ ~IsEntryOf(old[i], u))
  BY SetShape
<1>2. \E i \in DOMAIN new : new[i] = Entry(u, m)
  BY SetShape
<1> HIDE DEF new
<1>3. \A j \in DOMAIN new : ~Malformed(new[j])
  BY <1>1, EntryDecides DEF SoundBut
<1>4. ASSUME NEW i \in DOMAIN new, Grants(new[i], u, perm) PROVE perm \in m
  BY <1>1, <1>4, EntryDecides, GrantsOwn
<1>5. perm \in m => \E i \in DOMAIN new : Grants(new[i], u, perm)
  BY <1>2, EntryDecides
<1>6. HasPerm(new, u, perm) <=> perm \in m
  BY <1>3, <1>4, <1>5 DEF HasPerm
<1> QED
  BY <1>6 DEF new

\* An update of a sound ACL changes nobody else's permissions.
LEMMA OthersKeep ==
  ASSUME NEW old \in Acls, NEW u \in Names, NEW m \in SUBSET Perms,
         NEW v \in Names \ {u}, NEW perm \in Perms, Sound(old)
  PROVE  HasPerm(SetPerm(old, u, m), v, perm) <=> HasPerm(old, v, perm)
<1> DEFINE new == SetPerm(old, u, m)
<1>1. /\ \A i \in DOMAIN new : \/ new[i] = Entry(u, m)
                               \/ i \in DOMAIN old /\ new[i] = old[i]
      /\ \A i \in DOMAIN old : i \in DOMAIN new /\ (new[i] = old[i] \/ IsEntryOf(old[i], u))
  BY SetShape
<1> HIDE DEF new
<1>2. \A j \in DOMAIN new : ~Malformed(new[j])
  BY <1>1, EntryDecides DEF Sound
<1>3. ASSUME NEW i \in DOMAIN new, Grants(new[i], v, perm)
      PROVE  i \in DOMAIN old /\ Grants(old[i], v, perm)
  BY <1>1, <1>3, EntryDecides
<1>4. ASSUME NEW i \in DOMAIN old, Grants(old[i], v, perm)
      PROVE  i \in DOMAIN new /\ Grants(new[i], v, perm)
  BY <1>1, <1>4, GrantsOwn
<1>5. HasPerm(new, v, perm) <=> HasPerm(old, v, perm)
  BY <1>2, <1>3, <1>4 DEF HasPerm, Sound
<1> QED
  BY <1>5 DEF new

\* An update keeps an ACL from naming a user twice.
LEMMA SetKeepsOne ==
  ASSUME NEW old \in Acls, NEW u \in Names, NEW m \in SUBSET Perms,
         OneEntry(old)
  PROVE  OneEntry(SetPerm(old, u, m))
<1> DEFINE new == SetPerm(old, u, m)
<1>1. \A i \in DOMAIN new :
        \/ /\ i \in DOMAIN old
           /\ new[i].kind = old[i].kind /\ (new[i].kind = "user" => new[i].name = old[i].name)
        \/ /\ i \notin DOMAIN old /\ i = Len(old) + 1 /\ new[i].name = u
           /\ \A j \in DOMAIN old : ~IsEntryOf(old[j], u)
  <2> SUFFICES ASSUME NEW i \in DOMAIN new
               PROVE  \/ /\ i \in DOMAIN old
                         /\ new[i].kind = old[i].kind
                         /\ new[i].kind = "user" => new[i].name = old[i].name
                      \/ /\ i \notin DOMAIN old /\ i = Len(old) + 1
                         /\ new[i].name = u
                         /\ \A j \in DOMAIN old : ~IsEntryOf(old[j], u)
    OBVIOUS
  <2>1. CASE i \in DOMAIN old
    <3>1. new[i] = IF IsEntryOf(old[i], u) THEN Entry(u, m) ELSE old[i]
      BY <2>1, SetShape
    <3> QED
      BY <2>1, <3>1, EntryIsLine DEF IsEntryOf
  <2>2. CASE i \notin DOMAIN old
    <3>1. new[i] = Entry(u, m) /\ i = Len(old) + 1 /\ \A j \in DOMAIN old : ~IsEntryOf(old[j], u)
      BY <2>2, SetShape
    <3> QED
      BY <2>2, <3>1, EntryIsLine
  <2> QED
    BY <2>1, <2>2
<1> HIDE DEF new
<1>2. OneEntry(new)
  BY <1>1 DEF OneEntry, IsEntryOf
<1> QED
  BY <1>2 DEF new

LEMMA FreshIsLines ==
  ASSUME NEW u \in Names, NEW m \in SUBSET Perms
  PROVE  FreshAcl(u, m) \in Acls /\ OneEntry(FreshAcl(u, m))
<1>1. FreshAcl(u, m) \in Acls
  <2> DEFINE d == [kind |-> "default", name |-> u, mode |-> m, valid |-> TRUE]
             o == [kind |-> "other", name |-> u, mode |-> m, valid |-> TRUE]
  <2>1. d \in Lines /\ o \in Lines
    BY DEF Lines
  <2>2. FreshAcl(u, m) = <<d, d, o, Entry(u, m)>>
    BY DEF FreshAcl
  <2> HIDE DEF d, o
  <2> QED
    BY <2>1, <2>2, EntryIsLine DEF Acls
<1>2. \A i \in DOMAIN FreshAcl(u, m) : FreshAcl(u, m)[i].kind = "user" => i = 4
  BY DEF FreshAcl, Entry
<1> QED
  BY <1>1, <1>2 DEF OneEntry
-----------------------------------------------------------------------------
(* The invariant of the tools.                                             *)

\* Who is about to read an ACL was granted what it gives; who is about to act
\* was granted what that takes.
GrantedInv ==
  \A p \in Procs :
    /\ ~At(p, "idle") => Given(acl, content, proc[p].user) \subseteq granted[p]
    /\ At(p, "read") =>
         Given(proc[p].inode, content, proc[p].user) \subseteq granted[p]

\* an empty ACL file, the file's own or a replaced one, is somebody's to fill
EmptyInv ==
  \A i \in Inodes : content[i] = <<>> =>
    \E p \in Procs : /\ proc[p].pc \in {"fill acl", "killed"}
                     /\ proc[p].tool = "fput" /\ proc[p].inode = i

\* only fput creates; the tool's ACL is asked under sudo only
ToolInv ==
  \A p \in Procs :
    /\ proc[p].pc \in {"directory", "create", "create acl", "fill acl"}
         => proc[p].tool = "fput"
    /\ At(p, "tool") => proc[p].sudo

AclInv == TypeOK /\ OneEntryPerUser /\ EmptyInv /\ ToolInv /\ GrantedInv /\ AllowedOnce

LEMMA GivenIsPerms ==
  ASSUME NEW inode, NEW contents, NEW user
  PROVE  Given(inode, contents, user) \subseteq Perms
BY DEF Given

\* What a lookup finds, some line gives.
LEMMA FoundIsGiven ==
  ASSUME NEW i \in Nat, NEW contents, NEW user, NEW perm \in Perms,
         HasPerm(contents[i], user, perm)
  PROVE  perm \in Given(i, contents, user)
BY AclAssumption DEF HasPerm, Given

LEMMA AclInitially == Init => AclInv
<1> SUFFICES ASSUME Init PROVE AclInv
  OBVIOUS
<1>1. Idle \in Processes
  BY AclAssumption DEF Idle, Processes, PCs, Acls
<1>2. /\ content \in Seq(Acls)
      /\ acl \in Inodes \cup {NoInode}
      /\ \A i \in Inodes : OneEntry(content[i]) /\ content[i] # <<>>
  <2>1. CASE acl = NoInode /\ content = <<>>
    BY <2>1 DEF Inodes
  <2>2. CASE acl = 1 /\ \E initial \in InitialAcls : content = <<initial>>
    <3>1. PICK initial \in InitialAcls : content = <<initial>>
      BY <2>2
    <3>2. initial \in Acls /\ initial # <<>> /\ OneEntry(initial)
      BY AclAssumption DEF Init
    <3> QED
      BY <2>2, <3>1, <3>2 DEF Inodes
  <2> QED
    BY <2>1, <2>2 DEF Init
<1>3. \A p \in Procs : /\ proc[p] = Idle
                       /\ proc[p].pc = "idle" /\ proc[p].copy = <<>>
  BY DEF Idle, Init
<1>4. TypeOK
  <2>1. proc \in [Procs -> Processes] /\ granted \in [Procs -> SUBSET Perms]
    BY <1>1 DEF Init
  <2>2. data \in Seq(Nat) /\ exists \in BOOLEAN
    <3>1. <<>> \in Seq(Nat)
      OBVIOUS
    <3> QED
      BY <3>1, Zenon DEF Init
  <2>3. runs \in 0 .. MaxRuns /\ failures \in 0 .. MaxFailures
    BY AclAssumption DEF Init
  <2> QED
    BY <1>2, <1>3, <2>1, <2>2, <2>3 DEF TypeOK
<1>5. OneEntryPerUser
  <2>1. OneEntry(<<>>)
    BY DEF OneEntry
  <2> QED
    BY <1>2, <1>3, <2>1 DEF OneEntryPerUser
<1>6. EmptyInv /\ ToolInv /\ GrantedInv /\ AllowedOnce
  BY <1>2, <1>3 DEF EmptyInv, ToolInv, GrantedInv, AllowedOnce, At
<1> QED
  BY <1>4, <1>5, <1>6 DEF AclInv
-----------------------------------------------------------------------------
(* The steps.                                                              *)

\* One process goes on, with an ACL file it may have opened and a copy it may
\* have made; the others stay where they are.
Goes(p, pc, inode, copy) ==
  /\ proc'[p].pc = pc
  /\ proc'[p].inode = inode
  /\ proc'[p].copy = copy
  /\ proc'[p].user = proc[p].user /\ proc'[p].tool = proc[p].tool
  /\ proc'[p].sudo = proc[p].sudo /\ proc'[p].name = proc[p].name
  /\ proc'[p].mode = proc[p].mode /\ proc'[p].run = proc[p].run
  /\ \A q \in Procs \ {p} : proc'[q] = proc[q]

LEMMA MovesGoes ==
  ASSUME TypeOK, NEW p \in Procs, NEW pc \in PCs, Moves(p, pc)
  PROVE  /\ proc' \in [Procs -> Processes]
         /\ Goes(p, pc, proc[p].inode, proc[p].copy)
BY DEF TypeOK, Processes, Moves, Goes

LEMMA OpensGoes ==
  ASSUME TypeOK, NEW p \in Procs, NEW pc \in PCs, NEW inode \in Nat \cup {NoInode},
         proc' = [proc EXCEPT ![p].pc = pc, ![p].inode = inode]
  PROVE  /\ proc' \in [Procs -> Processes]
         /\ Goes(p, pc, inode, proc[p].copy)
BY DEF TypeOK, Processes, Goes

LEMMA CopiesGoes ==
  ASSUME TypeOK, NEW p \in Procs, NEW pc \in PCs, NEW copy \in Acls,
         proc' = [proc EXCEPT ![p].pc = pc, ![p].copy = copy]
  PROVE  /\ proc' \in [Procs -> Processes]
         /\ Goes(p, pc, proc[p].inode, copy)
BY DEF TypeOK, Processes, Goes

\* The actions by what they change of the ACLs: nothing, one put in the place
\* of the last, one written to.
Quiet == UNCHANGED <<acl, content, runs, granted>>
Replaced(new) == content' = Append(content, new) /\ acl' = Len(content')
Written(i, new) == content' = [content EXCEPT ![i] = new] /\ UNCHANGED acl

Rest == UNCHANGED runs /\ exists' \in BOOLEAN /\ data' \in Seq(Nat)
        /\ failures' \in 0 .. MaxFailures

LEMMA InodesGrow ==
  ASSUME TypeOK, NEW new \in Acls, Replaced(new)
  PROVE  /\ content' \in Seq(Acls)
         /\ Len(content') = Len(content) + 1
         /\ acl' = Len(content) + 1
         /\ content'[acl'] = new
         /\ \A i \in Inodes : content'[i] = content[i]
         /\ Inodes' = Inodes \cup {acl'}
         /\ acl' \in Inodes' /\ acl' \notin Inodes
<1>1. content \in Seq(Acls)
  BY Zenon DEF TypeOK
<1>2. content' = Append(content, new) /\ acl' = Len(content')
  BY DEF Replaced
<1>3. /\ content' \in Seq(Acls)
      /\ Len(content') = Len(content) + 1
      /\ \A i \in 1 .. Len(content) : content'[i] = content[i]
      /\ content'[Len(content) + 1] = new
  BY <1>1, <1>2
<1> QED
  BY <1>1, <1>2, <1>3 DEF Inodes

LEMMA InodesStay ==
  ASSUME TypeOK, NEW i \in Inodes, NEW new \in Acls,
         content' = [content EXCEPT ![i] = new]
  PROVE  /\ content' \in Seq(Acls)
         /\ Len(content') = Len(content)
         /\ Inodes' = Inodes
         /\ content'[i] = new
         /\ \A j \in Inodes \ {i} : content'[j] = content[j]
<1>1. content \in Seq(Acls) /\ i \in 1 .. Len(content)
  BY DEF TypeOK, Inodes
<1>2. content' \in Seq(Acls) /\ Len(content') = Len(content)
  BY <1>1
<1> QED
  BY <1>1, <1>2 DEF Inodes

Permitted(p) ==
  (IF proc[p].tool \in {"fget", "getacl"} THEN "r" ELSE "w") \in granted[p]

\* A step that leaves the ACLs alone, by where it may lead.
LEMMA QuietStep ==
  ASSUME AclInv, NEW p \in Procs, NEW pc \in PCs \ {"idle"}, NEW inode, NEW copy,
         Goes(p, pc, inode, copy), proc' \in [Procs -> Processes], Quiet, Rest,
         ~At(p, "idle"), ~At(p, "killed"),
         pc \in {"read", "set read", "set rename", "fill acl"} => inode \in Inodes,
         OneEntry(copy),
         At(p, "fill acl") => pc = "killed" /\ inode = proc[p].inode,
         pc \in {"directory", "create", "create acl", "fill acl"}
           => proc[p].tool = "fput",
         pc = "tool" => proc[p].sudo,
         pc = "read" => inode = acl,
         pc \in {"use", "set read", "set rename"} /\ ~proc[p].sudo /\ ~Unasked(p)
           => Permitted(p)
  PROVE  AclInv'
<1> USE DEF AclInv, Quiet
<1>1. TypeOK'
  BY DEF TypeOK, Goes, Inodes, Rest
<1>2. OneEntryPerUser'
  BY DEF OneEntryPerUser, Goes, Inodes
<1>3. EmptyInv'
  <2> SUFFICES ASSUME NEW i \in Inodes, content[i] = <<>>
               PROVE  \E q \in Procs : /\ proc'[q].pc \in {"fill acl", "killed"}
                                       /\ proc'[q].tool = "fput" /\ proc'[q].inode = i
    BY DEF EmptyInv, Inodes
  <2>1. PICK q \in Procs : /\ proc[q].pc \in {"fill acl", "killed"}
                           /\ proc[q].tool = "fput" /\ proc[q].inode = i
    BY DEF EmptyInv
  <2> QED
    BY <2>1 DEF Goes, At
<1>4. ToolInv'
  BY DEF ToolInv, Goes, At
<1>5. GrantedInv'
  BY DEF GrantedInv, Goes, At
<1>6. AllowedOnce'
  BY DEF AllowedOnce, Goes, Permitted, Unasked
<1> QED
  BY <1>1, <1>2, <1>3, <1>4, <1>5, <1>6

\* What a change of an ACL, seen by all, keeps of who was granted what.
LEMMA WitnessedStep ==
  ASSUME AclInv, NEW p \in Procs, NEW pc \in PCs \ {"idle", "read"}, NEW inode,
         NEW copy, Goes(p, pc, inode, copy), Witnessed,
         ~At(p, "idle"), ~At(p, "read"),
         pc \in {"use", "set read", "set rename"} => proc[p].pc = pc
  PROVE  /\ granted' \in [Procs -> SUBSET Perms]
         /\ GrantedInv' /\ AllowedOnce'
<1> USE DEF AclInv
<1>1. /\ granted' \in [Procs -> SUBSET Perms]
      /\ \A q \in Procs :
           /\ granted[q] \subseteq granted'[q]
           /\ Given(acl', content', proc[q].user) \subseteq granted'[q]
           /\ At(q, "read") =>
                Given(proc[q].inode, content', proc[q].user) \subseteq granted'[q]
  BY GivenIsPerms DEF Witnessed, TypeOK
<1>2. GrantedInv'
  BY <1>1 DEF GrantedInv, Goes, At
<1>3. AllowedOnce'
  BY <1>1 DEF AllowedOnce, Goes, Unasked
<1> QED
  BY <1>1, <1>2, <1>3

LEMMA StartStep ==
  ASSUME AclInv, NEW p \in Procs, start(p)
  PROVE  AclInv'
<1> USE DEF AclInv
<1>1. PICK user \in Names, tool \in Tools, sudo \in BOOLEAN,
           name \in Targets, mode \in SetModes \cup {{}} :
        starts(p, user, tool, sudo, name, mode)
  BY DEF start
<1>2. /\ proc[p].pc \in {"idle", "done", "failed"}
      /\ runs < MaxRuns /\ runs' = runs + 1
      /\ UNCHANGED <<exists, data, acl, content, failures>>
  BY DEF start
<1>3. MaxRuns \in Nat /\ runs' \in 0 .. MaxRuns
  <2>1. MaxRuns \in Nat /\ runs \in 0 .. MaxRuns
    BY Zenon, AclAssumption DEF TypeOK
  <2> QED
    BY <1>2, <2>1
<1>4. /\ proc'[p] \in Processes
      /\ proc'[p].pc = "stat" /\ proc'[p].user = user /\ proc'[p].copy = <<>>
      /\ \A q \in Procs \ {p} : proc'[q] = proc[q]
  <2>1. <<>> \in Acls
    BY DEF Acls
  <2>2. name \in Names /\ mode \in SUBSET Perms
    BY AclAssumption
  <2>3. runs' \in Nat
    BY <1>3
  <2> QED
    BY <1>1, <2>1, <2>2, <2>3 DEF starts, TypeOK, Processes, PCs
<1>5. /\ granted'[p] = Given(acl, content, user)
      /\ \A q \in Procs \ {p} : granted'[q] = granted[q]
      /\ granted' \in [Procs -> SUBSET Perms]
  BY <1>1, GivenIsPerms DEF starts, TypeOK
<1>6. TypeOK'
  <2>1. proc' \in [Procs -> Processes]
    BY <1>1, <1>4 DEF starts, TypeOK
  <2>2. runs' \in 0 .. MaxRuns
    BY <1>2, <1>3
  <2> QED
    BY <1>2, <1>4, <1>5, <2>1, <2>2 DEF TypeOK, Inodes
<1>7. OneEntryPerUser'
  <2>1. OneEntry(<<>>)
    BY DEF OneEntry
  <2> QED
    BY <1>2, <1>4, <2>1 DEF OneEntryPerUser, Inodes
<1>8. EmptyInv'
  <2> SUFFICES ASSUME NEW i \in Inodes, content[i] = <<>>
               PROVE  \E q \in Procs : /\ proc'[q].pc \in {"fill acl", "killed"}
                                       /\ proc'[q].tool = "fput" /\ proc'[q].inode = i
    BY <1>2 DEF EmptyInv, Inodes
  <2>1. PICK q \in Procs : /\ proc[q].pc \in {"fill acl", "killed"}
                           /\ proc[q].tool = "fput" /\ proc[q].inode = i
    BY DEF EmptyInv
  <2> QED
    BY <1>2, <1>4, <2>1
<1>9. ToolInv'
  BY <1>4 DEF ToolInv, At
<1>10. GrantedInv'
  BY <1>2, <1>4, <1>5 DEF GrantedInv, At
<1>11. AllowedOnce'
  BY <1>4, <1>5 DEF AllowedOnce, Unasked
<1> QED
  BY <1>6, <1>7, <1>8, <1>9, <1>10, <1>11

\* setPermInAcl's rename, and the first ACL of a new file.
LEMMA ReplacedStep ==
  ASSUME AclInv, NEW p \in Procs, NEW pc \in {"done", "fill acl"}, NEW inode,
         NEW new \in Acls, Replaced(new), OneEntry(new), Rest,
         Goes(p, pc, inode, proc[p].copy), proc' \in [Procs -> Processes], Witnessed,
         ~At(p, "idle"), ~At(p, "read"), ~At(p, "fill acl"), ~At(p, "killed"),
         pc = "fill acl" => inode = acl' /\ proc[p].tool = "fput",
         new = <<>> => pc = "fill acl"
  PROVE  AclInv'
<1> USE DEF AclInv
<1>1. /\ content' \in Seq(Acls)
      /\ content'[acl'] = new
      /\ \A i \in Inodes : content'[i] = content[i]
      /\ Inodes' = Inodes \cup {acl'}
      /\ acl' \notin Inodes
  BY InodesGrow
<1>2. granted' \in [Procs -> SUBSET Perms] /\ GrantedInv' /\ AllowedOnce'
  BY WitnessedStep DEF PCs
<1>3. TypeOK'
  BY <1>1, <1>2 DEF TypeOK, Goes, Rest
<1>4. OneEntryPerUser'
  BY <1>1 DEF OneEntryPerUser, Goes
<1>5. EmptyInv'
  <2> SUFFICES ASSUME NEW i \in Inodes', content'[i] = <<>>
               PROVE  \E q \in Procs : /\ proc'[q].pc \in {"fill acl", "killed"}
                                       /\ proc'[q].tool = "fput" /\ proc'[q].inode = i
    BY DEF EmptyInv
  <2>1. CASE i = acl'
    BY <1>1, <2>1 DEF Goes
  <2>2. CASE i \in Inodes
    <3>1. PICK q \in Procs : /\ proc[q].pc \in {"fill acl", "killed"}
                             /\ proc[q].tool = "fput" /\ proc[q].inode = i
      BY <1>1, <2>2 DEF EmptyInv
    <3> QED
      BY <3>1 DEF Goes, At
  <2> QED
    BY <1>1, <2>1, <2>2
<1>6. ToolInv'
  BY DEF ToolInv, Goes, At
<1> QED
  BY <1>2, <1>3, <1>4, <1>5, <1>6

\* createAclFromStat on the ACL that is there: emptied, then filled.
LEMMA WrittenStep ==
  ASSUME AclInv, NEW p \in Procs, NEW pc \in {"fill acl", "write"}, NEW i \in Inodes,
         NEW new \in Acls, Written(i, new), OneEntry(new), Rest,
         Goes(p, pc, i, proc[p].copy), proc' \in [Procs -> Processes], Witnessed,
         pc = "fill acl" => At(p, "create acl"),
         pc = "write" => At(p, "fill acl") /\ proc[p].inode = i /\ new # <<>>
  PROVE  AclInv'
<1> USE DEF AclInv
<1>1. /\ content' \in Seq(Acls)
      /\ content'[i] = new
      /\ \A j \in Inodes \ {i} : content'[j] = content[j]
      /\ Inodes' = Inodes /\ acl' = acl
  BY InodesStay DEF Written
<1>2. granted' \in [Procs -> SUBSET Perms] /\ GrantedInv' /\ AllowedOnce'
  BY WitnessedStep DEF PCs, At
<1>3. TypeOK'
  BY <1>1, <1>2 DEF TypeOK, Goes, Rest
<1>4. OneEntryPerUser'
  BY <1>1 DEF OneEntryPerUser, Goes
<1>5. ToolInv'
  BY DEF ToolInv, Goes, At
<1>6. EmptyInv'
  <2> SUFFICES ASSUME NEW j \in Inodes, content'[j] = <<>>
               PROVE  \E q \in Procs : /\ proc'[q].pc \in {"fill acl", "killed"}
                                       /\ proc'[q].tool = "fput" /\ proc'[q].inode = j
    BY <1>1 DEF EmptyInv
  <2>1. CASE j = i
    BY <1>1, <2>1 DEF ToolInv, Goes, At
  <2>2. CASE j # i
    <3>1. PICK q \in Procs : /\ proc[q].pc \in {"fill acl", "killed"}
                             /\ proc[q].tool = "fput" /\ proc[q].inode = j
      BY <1>1, <2>2 DEF EmptyInv
    <3> QED
      BY <2>2, <3>1 DEF Goes, At
  <2> QED
    BY <2>1, <2>2
<1> QED
  BY <1>2, <1>3, <1>4, <1>5, <1>6

LEMMA InodesAreAcls ==
  ASSUME TypeOK, NEW i \in Inodes
  PROVE  i \in Nat /\ content[i] \in Acls
<1>1. content \in Seq(Acls)
  BY Zenon DEF TypeOK
<1> QED
  BY <1>1 DEF Inodes

\* Some open the file's ACL.
LEMMA QuietOpen ==
  ASSUME AclInv, NEW p \in Procs, NEW pc \in {"read", "set read"}, acl \in Inodes,
         proc' = [proc EXCEPT ![p].pc = pc, ![p].inode = acl], Quiet, Rest,
         ~At(p, "idle"), ~At(p, "killed"), ~At(p, "fill acl"),
         pc = "set read" /\ ~proc[p].sudo /\ ~Unasked(p) => Permitted(p)
  PROVE  AclInv'
<1>1. TypeOK /\ OneEntry(proc[p].copy)
  BY DEF AclInv, OneEntryPerUser
<1>2. pc \in PCs \ {"idle"} /\ acl \in Nat \cup {NoInode}
  BY <1>1, InodesAreAcls DEF PCs
<1>3. /\ proc' \in [Procs -> Processes]
      /\ Goes(p, pc, acl, proc[p].copy)
  BY <1>1, <1>2, OpensGoes
<1> QED
  BY <1>1, <1>2, <1>3, QuietStep

\* Most of them keep the file they have open and their copy.
LEMMA QuietMove ==
  ASSUME AclInv, NEW p \in Procs,
         NEW pc \in {"use", "tool", "check", "directory", "create", "create acl",
                    "done", "failed", "killed"},
         Moves(p, pc), Quiet, Rest,
         ~At(p, "idle"), ~At(p, "killed"),
         At(p, "fill acl") => pc = "killed",
         pc \in {"directory", "create", "create acl"} => proc[p].tool = "fput",
         pc = "tool" => proc[p].sudo,
         pc = "use" /\ ~proc[p].sudo /\ ~Unasked(p) => Permitted(p)
  PROVE  AclInv'
<1>1. TypeOK /\ OneEntry(proc[p].copy)
  BY DEF AclInv, OneEntryPerUser
<1>2. /\ proc' \in [Procs -> Processes]
      /\ Goes(p, pc, proc[p].inode, proc[p].copy)
  BY <1>1, MovesGoes DEF PCs
<1>3. pc \in PCs \ {"idle"} /\ pc \notin {"read", "set read", "set rename", "fill acl"}
  BY DEF PCs
<1> QED
  BY <1>1, <1>2, <1>3, QuietStep

\* Every action is one of these.
LEMMA AclStep ==
  ASSUME AclInv, [Next]_vars
  PROVE  AclInv'
<1> USE DEF AclInv
<1>1. /\ exists \in BOOLEAN /\ data \in Seq(Nat)
      /\ failures \in 0 .. MaxFailures /\ MaxFailures \in Nat
      /\ proc \in [Procs -> Processes]
  BY Zenon, AclAssumption DEF TypeOK
<1>2. CASE UNCHANGED vars
  BY <1>2 DEF vars, TypeOK, Inodes, OneEntryPerUser, EmptyInv, ToolInv, GrantedInv,
              AllowedOnce, At, Unasked
<1>3. ASSUME NEW p \in Procs, stat_file(p) PROVE AclInv'
  <2>1. PICK pc \in {"use", "tool", "check", "directory", "failed"} :
          /\ Moves(p, pc)
          /\ pc = "use" => Unasked(p)
          /\ pc = "tool" => proc[p].sudo
          /\ pc = "directory" => proc[p].tool = "fput"
    BY <1>3 DEF stat_file
  <2>2. At(p, "stat") /\ Quiet /\ Rest
    BY <1>1, <1>3 DEF stat_file, Quiet, Rest
  <2> QED
    BY <2>1, <2>2, QuietMove DEF At
<1>4. ASSUME NEW p \in Procs, check_tool(p) PROVE AclInv'
  <2>1. PICK pc \in {"use", "failed"} :
          /\ Moves(p, pc)
          /\ proc[p].sudo
    BY <1>4 DEF check_tool, ToolInv, At
  <2>2. At(p, "tool") /\ Quiet /\ Rest
    BY <1>1, <1>4 DEF check_tool, Quiet, Rest, Ends
  <2> QED
    BY <2>1, <2>2, QuietMove DEF At
<1>5. ASSUME NEW p \in Procs, open_acl(p) PROVE AclInv'
  <2>1. At(p, "check") /\ Quiet /\ Rest
    BY <1>1, <1>5 DEF open_acl, Quiet, Rest
  <2>2. CASE Moves(p, "failed")
    BY <2>1, <2>2, QuietMove DEF At
  <2>3. CASE /\ acl \in Inodes
             /\ proc' = [proc EXCEPT ![p].pc = "read", ![p].inode = acl]
    BY <2>1, <2>3, QuietOpen DEF At
  <2> QED
    BY <1>5, <2>2, <2>3 DEF open_acl, TypeOK
<1>6. ASSUME NEW p \in Procs, read_acl(p) PROVE AclInv'
  <2>1. At(p, "read") /\ Quiet /\ Rest
    BY <1>1, <1>6 DEF read_acl, Quiet, Rest
  <2>2. CASE Moves(p, "failed")
    BY <2>1, <2>2, QuietMove DEF At
  <2>3. CASE /\ HasPerm(content[proc[p].inode], proc[p].user, Needs(proc[p].tool))
             /\ Moves(p, "use")
    <3>1. proc[p].inode \in Nat /\ Needs(proc[p].tool) \in Perms
      <4>1. proc[p].inode \in Inodes
        BY <2>1 DEF TypeOK, At
      <4>2. {"r", "w"} \subseteq Perms
        BY Zenon, AclAssumption
      <4> QED
        BY <4>1, <4>2, InodesAreAcls DEF Needs
    <3>2. Needs(proc[p].tool) \in granted[p]
      BY <2>1, <2>3, <3>1, FoundIsGiven DEF GrantedInv
    <3>3. Permitted(p)
      BY <3>2 DEF Permitted, Needs
    <3> QED
      BY <2>1, <2>3, <3>3, QuietMove DEF At
  <2> QED
    BY <1>6, <2>2, <2>3 DEF read_acl
<1>7. ASSUME NEW p \in Procs, show(p) PROVE AclInv'
  <2>1. PICK pc \in {"done"} :
          /\ Moves(p, pc)
    BY <1>7 DEF show, Ends
  <2>2. At(p, "use") /\ Quiet /\ Rest
    BY <1>1, <1>7 DEF show, Quiet, Rest, Ends
  <2> QED
    BY <2>1, <2>2, QuietMove DEF At
<1>8. ASSUME NEW p \in Procs, append(p) PROVE AclInv'
  <2>1. PICK pc \in {"done"} :
          /\ Moves(p, pc)
    BY <1>8 DEF append, Ends
  <2>2. At(p, "use") /\ Quiet /\ Rest
    <3>1. proc[p].run \in Nat
      BY <1>1 DEF Processes
    <3> QED
      BY <1>1, <1>8, <3>1 DEF append, Quiet, Rest
  <2> QED
    BY <2>1, <2>2, QuietMove DEF At
<1>9. ASSUME NEW p \in Procs, set_open(p) PROVE AclInv'
  <2>1. At(p, "use") /\ Quiet /\ Rest
    BY <1>1, <1>9 DEF set_open, Quiet, Rest
  <2>2. CASE Moves(p, "done")
    BY <2>1, <2>2, QuietMove DEF At
  <2>3. CASE /\ acl \in Inodes
             /\ proc' = [proc EXCEPT ![p].pc = "set read", ![p].inode = acl]
    <3>1. ~proc[p].sudo /\ ~Unasked(p) => Permitted(p)
      BY <2>1 DEF AllowedOnce, Permitted, At
    <3> QED
      BY <2>1, <2>3, <3>1, QuietOpen DEF At
  <2> QED
    BY <1>9, <2>2, <2>3 DEF set_open, Ends, TypeOK
<1>10. ASSUME NEW p \in Procs, set_read(p) PROVE AclInv'
  <2>1. At(p, "set read") /\ Quiet /\ Rest
    BY <1>1, <1>10 DEF set_read, Quiet, Rest
  <2>2. /\ proc[p].inode \in Inodes
        /\ content[proc[p].inode] \in Acls /\ OneEntry(content[proc[p].inode])
    <3>1. proc[p].inode \in Inodes
      BY <2>1 DEF TypeOK, At
    <3> QED
      BY <3>1, InodesAreAcls DEF OneEntryPerUser
  <2>3. ~proc[p].sudo /\ ~Unasked(p) => Permitted(p)
    BY <2>1 DEF AllowedOnce, Permitted, At
  <2>4. proc' = [proc EXCEPT ![p].pc = "set rename",
                             ![p].copy = content[proc[p].inode]]
    BY <1>10 DEF set_read
  <2>5. /\ proc' \in [Procs -> Processes]
        /\ Goes(p, "set rename", proc[p].inode, content[proc[p].inode])
    BY <2>2, <2>4, CopiesGoes DEF PCs
  <2>6. "set rename" \in PCs \ {"idle"}
    BY DEF PCs
  <2> DEFINE copy == content[proc[p].inode]
  <2>7. OneEntry(copy) /\ Goes(p, "set rename", proc[p].inode, copy)
    BY <2>2, <2>5
  <2> HIDE DEF copy
  <2> QED
    BY <2>1, <2>2, <2>3, <2>5, <2>6, <2>7, QuietStep DEF At
<1>11. ASSUME NEW p \in Procs, set_rename(p) PROVE AclInv'
  <2> DEFINE new == SetPerm(proc[p].copy, proc[p].name, proc[p].mode)
  <2>1. /\ proc[p].copy \in Acls /\ OneEntry(proc[p].copy)
        /\ proc[p].name \in Names /\ proc[p].mode \in SUBSET Perms
    BY <1>1 DEF Processes, OneEntryPerUser
  <2>2. new \in Acls /\ OneEntry(new) /\ new # <<>>
    <3>1. new \in Acls /\ \E i \in DOMAIN new : new[i] = Entry(proc[p].name, proc[p].mode)
      BY <2>1, SetShape
    <3> QED
      BY <2>1, <3>1, SetKeepsOne
  <2>3. At(p, "set rename") /\ Replaced(new) /\ Witnessed /\ Rest /\ Moves(p, "done")
    BY <1>1, <1>11 DEF set_rename, Replaced, Rest, Ends
  <2> HIDE DEF new
  <2> QED
    BY <2>2, <2>3, MovesGoes, ReplacedStep DEF PCs, At
<1>12. ASSUME NEW p \in Procs, set_fails(p) PROVE AclInv'
  <2>1. PICK pc \in {"done"} :
          /\ Moves(p, pc)
    BY <1>12 DEF set_fails, Ends
  <2>2. At(p, "set rename") /\ Quiet /\ Rest
    <3>1. At(p, "set rename") /\ failures < MaxFailures /\ failures' = failures + 1
          /\ UNCHANGED <<exists, data, acl, content, runs, granted>>
      BY <1>12 DEF set_fails
    <3> QED
      <4>1. failures' \in 0 .. MaxFailures
        <5>1. failures \in 0 .. MaxFailures /\ MaxFailures \in Nat
          BY Zenon, <1>1
        <5>2. failures < MaxFailures /\ failures' = failures + 1
          BY <3>1
        <5> QED
          BY <5>1, <5>2
      <4> QED
        BY <1>1, <3>1, <4>1 DEF Quiet, Rest
  <2> QED
    BY <2>1, <2>2, QuietMove DEF At
<1>13. ASSUME NEW p \in Procs, check_directory(p) PROVE AclInv'
  <2>1. PICK pc \in {"create", "failed"} :
          /\ Moves(p, pc)
          /\ proc[p].tool = "fput"
    BY <1>13 DEF check_directory, ToolInv, At
  <2>2. At(p, "directory") /\ Quiet /\ Rest
    BY <1>1, <1>13 DEF check_directory, Quiet, Rest, Ends
  <2> QED
    BY <2>1, <2>2, QuietMove DEF At
<1>14. ASSUME NEW p \in Procs, create_file(p) PROVE AclInv'
  <2>1. PICK pc \in {"create acl"} :
          /\ Moves(p, pc)
          /\ proc[p].tool = "fput"
    BY <1>14 DEF create_file, ToolInv, At
  <2>2. At(p, "create") /\ Quiet /\ Rest
    BY <1>1, <1>14 DEF create_file, Quiet, Rest, Ends
  <2> QED
    BY <2>1, <2>2, QuietMove DEF At
<1>15. ASSUME NEW p \in Procs, create_acl(p) PROVE AclInv'
  <2>1. /\ At(p, "create acl") /\ Rest /\ Witnessed
        /\ proc' = [proc EXCEPT ![p].pc = "fill acl", ![p].inode = acl']
    BY <1>1, <1>15 DEF create_acl, Rest
  <2>2. <<>> \in Acls /\ OneEntry(<<>>)
    BY DEF Acls, OneEntry
  <2>3. proc[p].tool = "fput"
    BY <2>1 DEF ToolInv, At
  <2>4. CASE Replaced(<<>>)
    <3>1. acl' \in Nat
      BY <2>2, <2>4, InodesGrow DEF Inodes
    <3> QED
      BY <2>1, <2>2, <2>3, <2>4, <3>1, OpensGoes, ReplacedStep DEF PCs, At
  <2>5. CASE acl \in Inodes /\ Written(acl, <<>>)
    <3>1. acl' \in Nat /\ acl' = acl
      BY <2>5 DEF Written, Inodes
    <3> QED
      BY <2>1, <2>2, <2>3, <2>5, <3>1, OpensGoes, WrittenStep DEF PCs, At
  <2> QED
    BY <1>15, <2>4, <2>5 DEF create_acl, Replaced, Written, TypeOK
<1>16. ASSUME NEW p \in Procs, fill_acl(p) PROVE AclInv'
  <2> DEFINE new == FreshAcl(Owner, {"r", "w"})
  <2>1. new \in Acls /\ OneEntry(new)
    BY FreshIsLines, AclAssumption
  <2>2. new # <<>>
    BY DEF FreshAcl
  <2>3. /\ At(p, "fill acl") /\ Written(proc[p].inode, new) /\ Witnessed /\ Rest
        /\ Moves(p, "write")
    BY <1>1, <1>16 DEF fill_acl, Written, Rest
  <2>4. proc[p].inode \in Inodes
    BY <2>3 DEF TypeOK, At
  <2> HIDE DEF new
  <2> QED
    BY <2>1, <2>2, <2>3, <2>4, MovesGoes, WrittenStep DEF PCs, At
<1>17. ASSUME NEW p \in Procs, write_first(p) PROVE AclInv'
  <2>1. PICK pc \in {"done"} :
          /\ Moves(p, pc)
    BY <1>17 DEF write_first, Ends
  <2>2. At(p, "write") /\ Quiet /\ Rest
    <3>1. proc[p].run \in Nat
      BY <1>1 DEF Processes
    <3> QED
      BY <1>1, <1>17, <3>1 DEF write_first, Quiet, Rest
  <2> QED
    BY <2>1, <2>2, QuietMove DEF At
<1>18. ASSUME NEW p \in Procs, kill(p) PROVE AclInv'
  <2>1. /\ proc[p].pc \notin {"idle", "killed"}
        /\ Moves(p, "killed") /\ Quiet /\ Rest
    BY <1>1, <1>18 DEF kill, Quiet, Rest
  <2> QED
    BY <2>1, QuietMove DEF At
<1> QED
  BY <1>2, <1>3, <1>4, <1>5, <1>6, <1>7, <1>8, <1>9, <1>10, <1>11, <1>12, <1>13,
     <1>14, <1>15, <1>16, <1>17, <1>18, StartStep DEF Next
-----------------------------------------------------------------------------
(* The theorems.                                                           *)

LEMMA AclInvHolds == Spec => []AclInv
<1>1. Init => AclInv
  BY AclInitially
<1>2. AclInv /\ [Next]_vars => AclInv'
  BY AclStep
<1> QED
  BY <1>1, <1>2, PTL DEF Spec

\* Every variable keeps to its type, and who reads, changes or fills an ACL
\* file has one that is there.
THEOREM AclTypes == Spec => []TypeOK
<1>1. AclInv => TypeOK
  BY DEF AclInv
<1> QED
  BY <1>1, AclInvHolds, PTL

\* However many setacls and fputs overlap, no ACL file and no copy of one names
\* a user twice (setPermInAcl, createAclFromStat).
THEOREM EntriesUnique == Spec => []OneEntryPerUser
<1>1. AclInv => OneEntryPerUser
  BY DEF AclInv
<1> QED
  BY <1>1, AclInvHolds, PTL

\* The file's ACL is empty only while an fput is about to fill it, or was killed
\* then: no setacl leaves it so (createAclFromStat, setPermInAcl's rename).
THEOREM AclStaysWhole == Spec => []WholeAcl
<1>1. AclInv => WholeAcl
  <2> SUFFICES ASSUME AclInv, acl # NoInode, content[acl] = <<>>
               PROVE  \E p \in Procs : /\ proc[p].pc \in {"fill acl", "killed"}
                                       /\ proc[p].tool = "fput" /\ proc[p].inode = acl
    BY DEF WholeAcl
  <2>1. acl \in Inodes
    BY DEF AclInv, TypeOK
  <2> QED
    BY <2>1 DEF AclInv, EmptyInv
<1> QED
  BY <1>1, AclInvHolds, PTL

\* Whoever is about to read or write was given the permission by the ACL since
\* the tool started (checkPermFromAcl and what its callers do next).
THEOREM NoneUnpermitted == Spec => []AllowedOnce
<1>1. AclInv => AllowedOnce
  BY DEF AclInv
<1> QED
  BY <1>1, AclInvHolds, PTL

\* Every update that takes the ACL's place gives the user what was asked for
\* and the others what they had in the copy (setPermInAcl, checkPermFromAcl).
THEOREM UpdatesTakeEffect == Spec => SetTakesEffect
<1> DEFINE Effect == \A p \in Procs : set_rename(p) =>
                       LET old == proc[p].copy
                           new == content'[acl']
                           u   == proc[p].name
                       IN  /\ SoundBut(old, u) => \A perm \in Perms :
                                HasPerm(new, u, perm) <=> perm \in proc[p].mode
                           /\ Sound(old) => \A v \in Names \ {u}, perm \in Perms :
                                HasPerm(new, v, perm) <=> HasPerm(old, v, perm)
<1>1. AclInv /\ [Next]_vars => [Effect]_vars
  <2> SUFFICES ASSUME AclInv, NEW p \in Procs, set_rename(p)
               PROVE  LET old == proc[p].copy
                          new == content'[acl']
                          u   == proc[p].name
                      IN  /\ SoundBut(old, u) => \A perm \in Perms :
                               HasPerm(new, u, perm) <=> perm \in proc[p].mode
                          /\ Sound(old) => \A v \in Names \ {u}, perm \in Perms :
                               HasPerm(new, v, perm) <=> HasPerm(old, v, perm)
    OBVIOUS
  <2> DEFINE new == SetPerm(proc[p].copy, proc[p].name, proc[p].mode)
  <2>1. /\ proc[p].copy \in Acls /\ proc[p].name \in Names
        /\ proc[p].mode \in SUBSET Perms
    BY DEF AclInv, TypeOK, Processes
  <2>2. new \in Acls
    BY <2>1, SetShape
  <2>3. Replaced(new)
    BY DEF set_rename, Replaced
  <2> HIDE DEF new
  <2>4. content'[acl'] = new
    BY <2>2, <2>3, InodesGrow DEF AclInv
  <2> QED
    BY <2>1, <2>4, SetDecides, OthersKeep DEF new
<1> QED
  BY <1>1, AclInvHolds, PTL DEF Spec, SetTakesEffect

\* The server's reading of ACLs and the tools' agree, on every ACL there can be.
THEOREM ServerReadsAlike == Spec => []ReadersAgree
<1>1. ReadersAgree
  <2> SUFFICES ASSUME NEW i \in Inodes, NEW u \in Names
               PROVE  /\ HasPerm(content[i], u, "r") => acl_allows_read(content[i], u)
                      /\ acl_allows_read(content[i], u) /\ Sound(content[i]) =>
                           \/ HasPerm(content[i], u, "r")
                           \/ \E j \in DOMAIN content[i] : content[i][j].kind = "other"
    BY DEF ReadersAgree
  <2>1. HasPerm(content[i], u, "r") => acl_allows_read(content[i], u)
    BY DEF HasPerm, Grants, acl_allows_read
  <2>2. ASSUME acl_allows_read(content[i], u), Sound(content[i]),
               \A j \in DOMAIN content[i] : content[i][j].kind # "other"
        PROVE  HasPerm(content[i], u, "r")
    BY <2>2 DEF HasPerm, Grants, Sound, Malformed, acl_allows_read
  <2> QED
    BY <2>1, <2>2
<1> QED
  BY <1>1, PTL
=============================================================================
