--------------------------- MODULE DirectoriesProofs ---------------------------
(***************************************************************************)
(* The five properties of Directories for any tree, any processes and any  *)
(* ACLs.  One invariant carries them all: for each process what its place  *)
(* in the program says of the paths it has gone through (Shape,            *)
(* ErrnoTells, PrefixesThere, AskedSoFar), of what the ACLs have let it do *)
(* (Counted), and of the ACL it is writing (Filling); and that no two      *)
(* processes write the ACL of one directory (OneMaker), since mkdir gives  *)
(* a directory to one of them only.  Nothing takes a path away again and   *)
(* nothing granted is forgotten (Grows): that is why a step of one process *)
(* leaves true what is said of another.                                    *)
(***************************************************************************)
EXTENDS Directories, SequenceTheorems, TLAPS

Up(path, n) == SubSeq(path, 1, n)

Making == {"open acl", "fill acl"}

Shape(p) ==
  /\ proc[p].pc # "idle" => proc[p].operands \in Operands
  /\ proc[p].index > 0
  /\ proc[p].pc \in Working \cup {"sudo", "tool", "operand", "failed"} =>
       proc[p].index \in DOMAIN proc[p].operands
  /\ proc[p].pc \in {"sudo", "tool", "operand", "ask", "chdir", "mkdir", "stat"} =>
       proc[p].step = 0
  /\ At(p, "prefix") => proc[p].step \in 1 .. Len(Operand(p))
  /\ proc[p].pc \in Making => proc[p].step \in 0 .. Len(Operand(p))
  /\ proc[p].pc \in Making \cup {"mkdir", "stat", "prefix"} => proc[p].tool = "create_dir"
  /\ At(p, "chdir") => proc[p].tool # "create_dir"

\* the errno that the first mkdir left, when the second stat is to come
ErrnoTells(p) ==
  At(p, "stat") =>
    /\ proc[p].errno \in Errnos
    /\ proc[p].errno = "EIO" => faults > 0
    /\ proc[p].errno = "ENOTDIR" => Blocked(Operand(p))
    /\ proc[p].errno = "EEXIST" => kind[Operand(p)] # "none"

\* the loop of -p has something at every prefix behind it
PrefixesThere(p) ==
  /\ At(p, "prefix") => \A n \in 1 .. proc[p].step - 1 : kind[Up(Operand(p), n)] # "none"
  /\ proc[p].pc \in Making =>
       /\ kind[Place(p)] # "none"
       /\ \A n \in 1 .. proc[p].step : kind[Up(Operand(p), n)] # "none"

\* the walk up the path is past the ones below n
AskedSoFar(p) ==
  At(p, "ask") =>
    \E n \in 1 .. Len(Operand(p)) :
      /\ proc[p].at = Up(Operand(p), n)
      /\ proc[p].tool = "create_dir" =>
           /\ n < Len(Operand(p))
           /\ proc[p].need = "w" => n = Len(Operand(p)) - 1
           /\ proc[p].need = "x" =>
                /\ <<Parent(Operand(p)), "w">> \in granted[p]
                /\ \A k \in n + 1 .. Len(Operand(p)) - 1 :
                     <<Up(Operand(p), k), "x">> \in granted[p]

\* OverlapHarmless, PassedIsThere and MadeByRight of one process
Harmless(p) ==
  At(p, "failed") /\ proc[p].tool = "create_dir" /\ proc[p].parents =>
    faults > 0 \/ kind[Operand(p)] = "file" \/ Blocked(Operand(p))

Passed(p) ==
  proc[p].tool = "create_dir" =>
    \A i \in DOMAIN proc[p].operands : i < proc[p].index =>
      \/ kind[proc[p].operands[i]] # "none"
      \/ proc[p].operands[i] \in proc[p].denied

ByRight(p) ==
  /\ proc[p].pc \in {"mkdir", "stat", "prefix", "open acl", "fill acl"}
  /\ ~proc[p].sudo /\ Above(Operand(p)) # {}
  => /\ <<Parent(Operand(p)), "w">> \in granted[p]
     /\ \A a \in Above(Operand(p)) : <<a, "x">> \in granted[p]

\* what stays true of a process while the others work
Own(p) ==
  /\ Shape(p) /\ ErrnoTells(p) /\ PrefixesThere(p) /\ AskedSoFar(p)
  /\ Harmless(p) /\ Passed(p) /\ ByRight(p)

\* the history misses nothing
Counted(p) == ~At(p, "idle") => Given(acl, proc[p].user) \subseteq granted[p]

\* the ACL that is open is p's own, or another tool's whole one replaced it
Filling(p) == At(p, "fill acl") =>
                filling[Place(p)] = p \/ acl[Place(p)] \notin {NoAcl, <<>>}

OneMaker == \A p, q \in Procs :
              proc[p].pc \in Making /\ proc[q].pc \in Making /\ Place(p) = Place(q) => p = q

Types ==
  /\ proc \in [Procs -> Processes]
  /\ kind \in [Paths -> {"none", "dir", "file"}]
  /\ acl \in [Paths -> Acls \cup {NoAcl}]
  /\ filling \in [Paths -> Procs \cup {Nobody}]
  /\ runs \in 0 .. MaxRuns
  /\ changes \in 0 .. MaxChanges
  /\ faults \in 0 .. MaxFaults
  /\ made \subseteq Paths
  /\ granted \in [Procs -> SUBSET (Paths \X {"w", "x"})]

DInv == /\ Types
        /\ \A p \in Procs : Own(p) /\ Counted(p) /\ Filling(p)
        /\ OneMaker
        /\ AclFollows

-----------------------------------------------------------------------------
(* Paths.                                                                  *)

\* A path and the paths above it, by the number of their names.
LEMMA PathUp ==
  ASSUME NEW path \in Paths
  PROVE  /\ Len(path) \in Nat \ {0}
         /\ \A n \in 1 .. Len(path) : /\ Up(path, n) \in Paths
                                      /\ Len(Up(path, n)) = n
                                      /\ \A m \in 1 .. n : Up(Up(path, n), m) = Up(path, m)
         /\ Up(path, Len(path)) = path
         /\ Above(path) = {Up(path, n) : n \in 1 .. Len(path) - 1}
         /\ Parent(path) = Up(path, Len(path) - 1)
<1> DEFINE S == {path[i] : i \in DOMAIN path}
<1>1. path \in Seq(S) /\ path # <<>>
  BY DirectoriesAssumption
<1>0. Above(path) \subseteq Paths
  BY DirectoriesAssumption
<1> HIDE DEF S
<1>2. Len(path) \in Nat \ {0} /\ DOMAIN path = 1 .. Len(path)
      /\ \A i \in 1 .. Len(path) : path[i] \in S
  BY <1>1
<1>3. Up(path, Len(path)) = path
  BY <1>1, SubSeqFull DEF Up
<1>4. ASSUME NEW n \in 1 .. Len(path)
      PROVE  /\ Up(path, n) \in Paths
             /\ Len(Up(path, n)) = n
             /\ \A m \in 1 .. n : Up(Up(path, n), m) = Up(path, m)
  <2>1. Up(path, n) \in Seq(S) /\ Len(Up(path, n)) = n
        /\ \A i \in 1 .. n : Up(path, n)[i] = path[i]
    BY <1>1, <1>2, SubSeqProperties DEF Up
  <2>2. n < Len(path) => Up(path, n) \in Above(path)
    BY <1>2 DEF Above, Up
  <2>3. Up(path, n) \in Paths
    BY <1>0, <1>2, <1>3, <2>2
  <2>4. ASSUME NEW m \in 1 .. n PROVE Up(Up(path, n), m) = Up(path, m)
    <3>1. /\ Up(path, m) \in Seq(S) /\ Len(Up(path, m)) = m
          /\ \A i \in 1 .. m : Up(path, m)[i] = path[i]
      BY <1>1, <1>2, SubSeqProperties DEF Up
    <3>2. /\ Up(Up(path, n), m) \in Seq(S) /\ Len(Up(Up(path, n), m)) = m
          /\ \A i \in 1 .. m : Up(Up(path, n), m)[i] = Up(path, n)[i]
      <4> DEFINE t == Up(path, n)
      <4> HIDE DEF t
      <4>1. t \in Seq(S) /\ Len(t) = n
        BY <2>1 DEF t
      <4>2. /\ SubSeq(t, 1, m) \in Seq(S) /\ Len(SubSeq(t, 1, m)) = m
            /\ \A i \in 1 .. m : SubSeq(t, 1, m)[i] = t[i]
        BY <4>1, SubSeqProperties
      <4> QED
        BY <4>2 DEF t, Up
    <3> QED
      BY <2>1, <3>1, <3>2, SeqEqual
  <2> QED
    BY <2>1, <2>3, <2>4
<1>5. Above(path) = {Up(path, n) : n \in 1 .. Len(path) - 1}
  BY DEF Above, Up
<1>6. Parent(path) = Up(path, Len(path) - 1)
  BY DEF Parent, Up
<1> QED
  BY <1>2, <1>3, <1>4, <1>5, <1>6

\* The parent of a path is one, and one is above another as its number of
\* names says.
LEMMA ParentUp ==
  ASSUME NEW path \in Paths
  PROVE  /\ Parent(path) = <<>> <=> Len(path) = 1
         /\ Len(path) > 1 => Parent(path) \in Above(path)
         /\ \A n \in 2 .. Len(path) : Parent(Up(path, n)) = Up(path, n - 1)
         /\ \A n \in 1 .. Len(path) : Above(Up(path, n)) \subseteq Above(path)
         /\ \A n \in 1 .. Len(path) : Above(Up(path, n)) = {Up(path, k) : k \in 1 .. n - 1}
         /\ Above(path) \subseteq Paths
         /\ Parent(Up(path, 1)) = <<>>
<1>1. Len(path) = 1 => Parent(path) = <<>>
  BY PathUp, SubSeqEmpty DEF Parent
<1>2. Len(path) > 1 => Parent(path) \in Above(path) /\ Parent(path) # <<>>
  <2> HAVE Len(path) > 1
  <2>1. Parent(path) = Up(path, Len(path) - 1) /\ Len(path) - 1 \in 1 .. Len(path) - 1
    BY PathUp
  <2>2. Len(Up(path, Len(path) - 1)) = Len(path) - 1
    BY <2>1, PathUp
  <2> QED
    BY <2>1, <2>2, PathUp, EmptySeq
<1>3. ASSUME NEW n \in 1 .. Len(path)
      PROVE  /\ Above(Up(path, n)) = {Up(path, k) : k \in 1 .. n - 1}
             /\ Above(Up(path, n)) \subseteq Above(path)
             /\ n > 1 => Parent(Up(path, n)) = Up(path, n - 1)
             /\ Parent(Up(path, 1)) = <<>>
  <2>0. Len(path) \in Nat \ {0} /\ Above(path) = {Up(path, k) : k \in 1 .. Len(path) - 1}
    BY PathUp
  <2>1. Up(path, n) \in Paths /\ Len(Up(path, n)) = n
        /\ \A m \in 1 .. n : Up(Up(path, n), m) = Up(path, m)
    BY PathUp
  <2> DEFINE up == Up(path, n)
  <2>2. Above(up) = {Up(up, k) : k \in 1 .. n - 1} /\ Parent(up) = Up(up, n - 1)
    BY <2>1, PathUp
  <2>3. Above(up) = {Up(path, k) : k \in 1 .. n - 1}
    BY <2>0, <2>1, <2>2
  <2>4. n > 1 => Parent(up) = Up(path, n - 1)
    BY <2>0, <2>1, <2>2
  <2>5. Above(up) \subseteq Above(path)
    BY <2>0, <2>3
  <2>6. Parent(Up(path, 1)) = <<>>
    <3>1. Len(Up(path, 1)) = 1 /\ 1 - 1 = 0 /\ 0 < 1
      <4>1. 1 \in 1 .. Len(path)
        BY <2>0
      <4>2. Len(Up(path, 1)) = 1
        BY <4>1, PathUp
      <4> QED
        BY <4>2
    <3>2. Parent(Up(path, 1)) = SubSeq(Up(path, 1), 1, 0)
      BY <3>1 DEF Parent
    <3> QED
      BY <3>2, SubSeqEmpty
  <2> QED
    BY <2>3, <2>4, <2>5, <2>6
<1>4. Len(path) \in Nat \ {0} /\ 1 \in 1 .. Len(path)
  BY PathUp
<1>5. \A n \in 2 .. Len(path) : n \in 1 .. Len(path) /\ n > 1
  BY <1>4
<1>6. Above(path) \subseteq Paths
  BY DirectoriesAssumption
<1>7. \A n \in 2 .. Len(path) : Parent(Up(path, n)) = Up(path, n - 1)
  BY <1>3, <1>5
<1>8. Parent(path) = <<>> <=> Len(path) = 1
  <2>1. Len(path) = 1 \/ Len(path) > 1
    BY <1>4
  <2>2. Len(path) > 1 => Parent(path) # <<>>
    BY <1>2
  <2>3. Len(path) > 1 => Len(path) # 1
    <3>1. \A n \in Nat : n > 1 => n # 1
      OBVIOUS
    <3>2. Len(path) \in Nat
      BY <1>4
    <3> QED
      BY <3>1, <3>2, Zenon
  <2> QED
    BY <1>1, <2>1, <2>2, <2>3
<1>9. Len(path) > 1 => Parent(path) \in Above(path)
  BY <1>2
<1>10. \A n \in 1 .. Len(path) : /\ Above(Up(path, n)) \subseteq Above(path)
                                 /\ Above(Up(path, n)) = {Up(path, k) : k \in 1 .. n - 1}
  BY <1>3
<1>11. Parent(Up(path, 1)) = <<>>
  BY <1>3, <1>4
<1> QED
  BY <1>6, <1>7, <1>8, <1>9, <1>10, <1>11

\* The ACL of a new directory has four lines.
LEMMA FourLines ==
  ASSUME NEW S, NEW a \in S, NEW b \in S, NEW c \in S, NEW d \in S
  PROVE  <<a, b, c, d>> \in Seq(S) /\ Len(<<a, b, c, d>>) = 4
OBVIOUS

\* An ACL written is a whole one; that of a file just opened is the empty one.
LEMMA AclTypes ==
  /\ FreshAcl(Owner, {"r", "w", "x"}) \in Acls \ {NoAcl, <<>>}
  /\ <<>> \in Acls
  /\ SetAcls \subseteq Acls \ {NoAcl, <<>>}
<1>1. /\ Owner \in Names /\ {"r", "w", "x"} \subseteq Perms
      /\ SetAcls \subseteq Acls \ {<<>>} /\ NoAcl \notin Acls
  BY DirectoriesAssumption
<1> DEFINE line(k) == [kind |-> k, name |-> Owner, mode |-> {"r", "w", "x"}, valid |-> TRUE]
<1>2. line("default") \in Lines /\ line("other") \in Lines /\ line("user") \in Lines
  BY <1>1 DEF Lines
<1>3. FreshAcl(Owner, {"r", "w", "x"}) = <<line("default"), line("default"), line("other"), line("user")>>
  BY DEF FreshAcl, Entry
<1> HIDE DEF line
<1>4. FreshAcl(Owner, {"r", "w", "x"}) \in Acls /\ Len(FreshAcl(Owner, {"r", "w", "x"})) = 4
  BY <1>2, <1>3, FourLines DEF Acls
<1>5. <<>> \in Acls /\ Len(<<>>) = 0
  BY EmptySeq DEF Acls
<1> QED
  BY <1>1, <1>4, <1>5

\* The operands of a tool are paths, and there is one at least.
LEMMA OperandTypes ==
  ASSUME NEW ops \in Operands
  PROVE  /\ ops \in Seq(Paths) /\ Len(ops) \in Nat \ {0} /\ DOMAIN ops = 1 .. Len(ops)
         /\ \A i \in DOMAIN ops : ops[i] \in Paths
<1>1. ops \in Seq(Paths) /\ ops # <<>>
  BY DirectoriesAssumption
<1> QED
  BY <1>1
-----------------------------------------------------------------------------
(* What a process's record says.                                           *)

Started == Working \cup {"sudo", "tool", "operand", "failed"}

\* A tool that works is at one of its operands.
LEMMA OperandIs ==
  ASSUME Types, NEW p \in Procs, Shape(p), proc[p].pc \in Started
  PROVE  /\ Operand(p) \in Paths /\ proc[p].operands \in Operands
         /\ proc[p].index \in DOMAIN proc[p].operands
<1>1. proc[p].operands \in Operands /\ proc[p].index \in DOMAIN proc[p].operands
  BY DEF Shape, Started, Working
<1> QED
  BY <1>1, OperandTypes DEF Operand

\* Where a tool is stands on the way to its operand, and so do the prefixes above.
LEMMA PlaceIs ==
  ASSUME Types, NEW p \in Procs, Shape(p), proc[p].pc \in Started,
         proc[p].step \in 0 .. Len(Operand(p))
  PROVE  /\ Place(p) \in Paths
         /\ Above(Place(p)) \subseteq Above(Operand(p))
         /\ \A a \in Above(Place(p)) : \E n \in 1 .. Len(Operand(p)) :
              a = Up(Operand(p), n) /\ (proc[p].step > 0 => n < proc[p].step)
<1> DEFINE path == Operand(p)
           step == proc[p].step
<1>1. path \in Paths /\ Len(path) \in Nat \ {0} /\ step \in 0 .. Len(path)
  BY OperandIs, PathUp
<1>2. Place(p) = IF step = 0 THEN path ELSE Up(path, step)
  BY DEF Place, Up
<1> HIDE DEF path, step
<1>3. CASE step = 0
  <2>1. Above(path) = {Up(path, n) : n \in 1 .. Len(path) - 1}
    BY <1>1, PathUp
  <2> QED
    BY <1>1, <1>2, <1>3, <2>1 DEF path, step
<1>4. CASE step # 0
  <2>1. step \in 1 .. Len(path)
    BY <1>1, <1>4
  <2>2. /\ Up(path, step) \in Paths
        /\ Above(Up(path, step)) \subseteq Above(path)
        /\ Above(Up(path, step)) = {Up(path, k) : k \in 1 .. step - 1}
    BY <1>1, <2>1, PathUp, ParentUp
  <2> QED
    BY <1>1, <1>2, <1>4, <2>1, <2>2 DEF path, step
<1> QED
  BY <1>3, <1>4

\* A path is blocked by a file on its way, which is no directory.
LEMMA BlockedIs ==
  ASSUME NEW path \in Paths, Blocked(path)
  PROVE  \E a \in Paths : a \in Above(path) /\ kind[a] = "file"
BY ParentUp DEF Blocked

\* Of what was there, granted or went wrong nothing is lost in a step.
Grows ==
  /\ \A path \in Paths : kind[path] # "none" => kind'[path] = kind[path]
  /\ faults > 0 => faults' > 0

\* Nothing is removed or changes its kind: what blocks a path stays.
LEMMA BlockedStays ==
  ASSUME Grows, NEW path \in Paths, Blocked(path)
  PROVE  Blocked(path)'
<1>1. PICK a \in Paths : a \in Above(path) /\ kind[a] = "file"
  BY BlockedIs
<1>2. kind'[a] = "file"
  BY <1>1 DEF Grows
<1> QED
  BY <1>1, <1>2 DEF Blocked

\* What is said of a process stays true when others work.
LEMMA OthersKeepOwn ==
  ASSUME Types, Types', Grows, NEW p \in Procs, Own(p),
         proc'[p] = proc[p], granted[p] \subseteq granted'[p]
  PROVE  Own(p)'
<1> DEFINE r == proc[p]
<1>1. Operand(p)' = Operand(p) /\ Place(p)' = Place(p)
  BY DEF Operand, Place
<1>2. Shape(p)'
  BY <1>1 DEF Own, Shape, At
<1>3. proc[p].pc \in Started => Operand(p) \in Paths /\ Len(Operand(p)) \in Nat
                          /\ \A n \in 1 .. Len(Operand(p)) : Up(Operand(p), n) \in Paths
  BY OperandIs, PathUp DEF Own
<1>4. ErrnoTells(p)'
  <2> SUFFICES ASSUME proc[p].pc = "stat" PROVE ErrnoTells(p)'
    BY DEF ErrnoTells, At
  <2>1. Operand(p) \in Paths /\ ErrnoTells(p)
    BY <1>3 DEF Started, Working, Own
  <2>2. Blocked(Operand(p)) => Blocked(Operand(p))'
    <3>1. PICK path \in Paths : path = Operand(p)
      BY <2>1
    <3>2. Blocked(path) => Blocked(path)'
      BY BlockedStays
    <3> QED
      BY <1>1, <3>1, <3>2 DEF Blocked
  <2>3. kind[Operand(p)] # "none" => kind'[Operand(p)] # "none"
    BY <2>1 DEF Grows
  <2> QED
    BY <1>1, <2>1, <2>2, <2>3 DEF ErrnoTells, At, Grows
<1>5. PrefixesThere(p)'
  <2>1. ASSUME proc[p].pc = "prefix"
        PROVE  \A n \in 1 .. proc[p].step - 1 : kind'[Up(Operand(p), n)] # "none"
    BY <1>3, <2>1 DEF Own, Shape, PrefixesThere, At, Started, Working, Grows
  <2>2. ASSUME proc[p].pc \in Making
        PROVE  /\ kind'[Place(p)] # "none"
               /\ \A n \in 1 .. proc[p].step : kind'[Up(Operand(p), n)] # "none"
    <3>1. proc[p].pc \in Started
      BY <2>2 DEF Making, Started, Working
    <3>2. proc[p].step \in 0 .. Len(Operand(p)) /\ PrefixesThere(p)
      BY <2>2 DEF Own, Shape
    <3>3. Place(p) \in Paths
      BY <3>1, <3>2, PlaceIs DEF Own
    <3> QED
      BY <1>3, <2>2, <3>1, <3>2, <3>3 DEF PrefixesThere, Grows
  <2> QED
    BY <1>1, <2>1, <2>2 DEF PrefixesThere, At
<1>6. AskedSoFar(p)'
  BY <1>1 DEF Own, AskedSoFar, At
<1>7. Harmless(p)'
  <2> SUFFICES ASSUME proc[p].pc = "failed", proc[p].tool = "create_dir", proc[p].parents
               PROVE  faults' > 0 \/ kind'[Operand(p)] = "file" \/ Blocked(Operand(p))'
    BY <1>1 DEF Harmless, At
  <2>1. Operand(p) \in Paths
        /\ (faults > 0 \/ kind[Operand(p)] = "file" \/ Blocked(Operand(p)))
    BY <1>3 DEF Started, Working, Own, Harmless, At
  <2>2. Blocked(Operand(p)) => Blocked(Operand(p))'
    <3>1. PICK path \in Paths : path = Operand(p)
      BY <2>1
    <3>2. Blocked(path) => Blocked(path)'
      BY BlockedStays
    <3> QED
      BY <1>1, <3>1, <3>2 DEF Blocked
  <2>3. kind[Operand(p)] = "file" => kind'[Operand(p)] = "file"
    BY <2>1 DEF Grows
  <2> QED
    BY <2>1, <2>2, <2>3 DEF Grows
<1>8. Passed(p)'
  <2>1. \A i \in DOMAIN proc[p].operands : proc[p].operands[i] \in Paths
    <3>1. proc[p].operands \in Operands \/ proc[p].operands = <<>>
      BY DEF Types, Processes
    <3> QED
      BY <3>1, OperandTypes
  <2> QED
    BY <2>1 DEF Own, Passed, Grows
<1>9. ByRight(p)'
  BY <1>1 DEF Own, ByRight
<1> QED
  BY <1>2, <1>4, <1>5, <1>6, <1>7, <1>8, <1>9 DEF Own
-----------------------------------------------------------------------------
(* Each step keeps the types.                                              *)

\* What the tools change in their records.
LEMMA RecordTypes ==
  ASSUME NEW r \in Processes
  PROVE  /\ r.index \in Nat /\ r.step \in Nat
         /\ \A pc \in PCs : [r EXCEPT !.pc = pc] \in Processes
         /\ \A pc \in PCs, at \in Paths, need \in {"w", "x"} :
              [r EXCEPT !.pc = pc, !.at = at, !.need = need] \in Processes
         /\ \A need \in {"w", "x"} : [r EXCEPT !.need = need] \in Processes
         /\ \A at \in Paths : [r EXCEPT !.at = at] \in Processes
         /\ \A path \in Paths : [r EXCEPT !.denied = @ \cup {path}] \in Processes
         /\ \A pc \in PCs, errno \in Errnos :
              [r EXCEPT !.pc = pc, !.errno = errno] \in Processes
         /\ \A pc \in PCs, step \in Nat : [r EXCEPT !.pc = pc, !.step = step] \in Processes
         /\ \A pc \in PCs, index, step \in Nat :
              [r EXCEPT !.pc = pc, !.index = index, !.step = step, !.errno = ""] \in Processes
<1> DEFINE T == {"none", "create_dir", "cd", "ls"}
           O == Operands \cup {<<>>}
           A == Paths \cup {<<>>}
           N == {"w", "x"}
           E == Errnos \cup {""}
           D == SUBSET Paths
<1>1. Processes = [pc : PCs, user : Names, tool : T, sudo : BOOLEAN, parents : BOOLEAN,
                   operands : O, index : Nat, at : A, need : N, step : Nat, errno : E,
                   denied : D]
  BY DEF Processes
<1>2. /\ \A path \in Paths : path \in A /\ (\A d \in D : d \cup {path} \in D)
      /\ \A errno \in Errnos : errno \in E
      /\ "" \in E
  OBVIOUS
<1> HIDE DEF T, O, A, N, E, D
<1>3. r.denied \in D /\ r.index \in Nat /\ r.step \in Nat
  BY <1>1
<1>4. \A path \in Paths : r.denied \cup {path} \in D
  BY <1>2, <1>3
<1>5. \A pc \in PCs, index, step \in Nat, errno \in E :
        [r EXCEPT !.pc = pc, !.index = index, !.step = step, !.errno = errno] \in Processes
  BY <1>1
<1>6. \A pc \in PCs, at \in A, need \in N :
        [r EXCEPT !.pc = pc, !.at = at, !.need = need] \in Processes
  BY <1>1
<1>7. /\ \A pc \in PCs : [r EXCEPT !.pc = pc] \in Processes
      /\ \A pc \in PCs, step \in Nat : [r EXCEPT !.pc = pc, !.step = step] \in Processes
  BY <1>1
<1>8. /\ \A need \in N : [r EXCEPT !.need = need] \in Processes
      /\ \A at \in A : [r EXCEPT !.at = at] \in Processes
      /\ \A path \in Paths : [r EXCEPT !.denied = @ \cup {path}] \in Processes
  BY <1>1, <1>4
<1>9. \A pc \in PCs, errno \in E : [r EXCEPT !.pc = pc, !.errno = errno] \in Processes
  BY <1>1
<1> QED
  BY <1>2, <1>3, <1>5, <1>6, <1>7, <1>8, <1>9 DEF N

\* The next operand of a process, or its end.
LEMMA TurnTypes ==
  ASSUME NEW p, NEW r \in Processes
  PROVE  /\ NextOperand(p, r) \in Processes
         /\ NextPrefix(p, r) \in Processes
<1>1. r.index \in Nat /\ r.step \in Nat
  BY RecordTypes
<1>2. r.index + 1 \in Nat /\ r.step + 1 \in Nat /\ 0 \in Nat
      /\ {"operand", "done", "prefix"} \subseteq PCs
  BY <1>1 DEF PCs
<1>3. NextOperand(p, r) \in Processes
  BY <1>2, RecordTypes DEF NextOperand
<1>4. [r EXCEPT !.pc = "prefix", !.step = @ + 1] \in Processes
  BY <1>2, RecordTypes
<1> QED
  BY <1>3, <1>4 DEF NextPrefix

\* One process goes on, the others stay.
LEMMA OneMoves ==
  ASSUME Types, NEW p \in Procs, NEW r \in Processes, proc' = [proc EXCEPT ![p] = r]
  PROVE  /\ proc' \in [Procs -> Processes]
         /\ proc'[p] = r
         /\ \A q \in Procs \ {p} : proc'[q] = proc[q]
BY DEF Types

\* A fault is counted, within the bound.
LEMMA FaultTypes ==
  ASSUME Types, Fault
  PROVE  faults' \in 0 .. MaxFaults /\ faults' > 0 /\ faults' >= faults
BY DirectoriesAssumption DEF Types, Fault

\* What the helpers of the actions leave has its types.
LEMMA MoveTypes ==
  ASSUME Types, NEW p \in Procs, NEW pc \in PCs, Moves(p, pc)
  PROVE  proc' \in [Procs -> Processes]
<1>1. proc[p] \in Processes
  BY DEF Types
<1>2. [proc[p] EXCEPT !.pc = pc] \in Processes
  BY <1>1, RecordTypes
<1> QED
  BY <1>2, OneMoves DEF Moves

\* What ACLs give a user is paths, to be written or passed.
LEMMA GivenTypes ==
  ASSUME NEW acls, NEW user
  PROVE  Given(acls, user) \in SUBSET (Paths \X {"w", "x"})
BY DEF Given

\* A process that is not there, and one that starts.
LEMMA IdleTypes == Idle \in Processes
<1> DEFINE O == Operands \cup {<<>>}
           A == Paths \cup {<<>>}
           E == Errnos \cup {""}
           T == {"none", "create_dir", "cd", "ls"}
           empty == <<>>
<1>1. /\ empty \in O /\ empty \in A /\ "" \in E /\ "none" \in T /\ Owner \in Names
      /\ "idle" \in PCs /\ {} \in SUBSET Paths
  BY DirectoriesAssumption DEF PCs
<1>2. Processes = [pc : PCs, user : Names, tool : T, sudo : BOOLEAN, parents : BOOLEAN,
                   operands : O, index : Nat, at : A, need : {"w", "x"}, step : Nat,
                   errno : E, denied : SUBSET Paths]
  BY DEF Processes
<1>3. Idle = [pc |-> "idle", user |-> Owner, tool |-> "none", sudo |-> FALSE,
              parents |-> FALSE, operands |-> empty, index |-> 1, at |-> empty,
              need |-> "x", step |-> 0, errno |-> "", denied |-> {}]
  BY DEF Idle
<1> HIDE DEF O, A, E, T, empty
<1> QED
  BY <1>1, <1>2, <1>3

\* the record of a process that starts
Begun(user, tool, su, parents, ops) ==
  [Idle EXCEPT !.pc = IF su THEN "sudo" ELSE "operand", !.user = user, !.tool = tool,
               !.sudo = su, !.parents = parents, !.operands = ops]

LEMMA BegunTypes ==
  ASSUME NEW user \in Names, NEW tool \in {"create_dir", "cd", "ls"}, NEW su \in BOOLEAN,
         NEW parents \in BOOLEAN, NEW ops \in Operands
  PROVE  Begun(user, tool, su, parents, ops) \in Processes
<1> DEFINE O == Operands \cup {<<>>}
           A == Paths \cup {<<>>}
           E == Errnos \cup {""}
           T == {"none", "create_dir", "cd", "ls"}
           pc == IF su THEN "sudo" ELSE "operand"
<1>1. pc \in PCs /\ tool \in T /\ ops \in O
  BY DEF PCs
<1>2. Processes = [pc : PCs, user : Names, tool : T, sudo : BOOLEAN, parents : BOOLEAN,
                   operands : O, index : Nat, at : A, need : {"w", "x"}, step : Nat,
                   errno : E, denied : SUBSET Paths]
  BY DEF Processes
<1>3. Begun(user, tool, su, parents, ops) =
        [Idle EXCEPT !.pc = pc, !.user = user, !.tool = tool, !.sudo = su,
                     !.parents = parents, !.operands = ops]
  BY DEF Begun
<1> HIDE DEF O, A, E, T, pc
<1> QED
  BY <1>1, <1>2, <1>3, IdleTypes

\* A start is of some user, tool and operands, and is given what the ACLs give.
LEMMA StartIs ==
  ASSUME NEW p, start(p)
  PROVE  \E user \in Names, tool \in {"create_dir", "cd", "ls"}, su \in BOOLEAN,
            parents \in BOOLEAN, ops \in Operands :
           /\ proc' = [proc EXCEPT ![p] = Begun(user, tool, su, parents, ops)]
           /\ granted' = [granted EXCEPT ![p] = Given(acl, user)]
<1>1. PICK user \in Names, tool \in {"create_dir", "cd", "ls"}, su \in BOOLEAN,
           parents \in BOOLEAN, ops \in Operands :
        /\ tool = "ls" => su
        /\ tool # "create_dir" => Len(ops) = 1 /\ ~parents
        /\ proc' = [proc EXCEPT ![p] =
             [Idle EXCEPT !.pc = IF su THEN "sudo" ELSE "operand", !.user = user,
                          !.tool = tool, !.sudo = su, !.parents = parents,
                          !.operands = ops]]
        /\ granted' = [granted EXCEPT ![p] = Given(acl, user)]
  BY DEF start
<1>2. proc' = [proc EXCEPT ![p] = Begun(user, tool, su, parents, ops)]
  BY <1>1 DEF Begun
<1> QED
  BY <1>1, <1>2

\* The types after each action: the start, ...
LEMMA StartTypes ==
  ASSUME Types, NEW p \in Procs, start(p)
  PROVE  Types'
<1>1. proc' \in [Procs -> Processes]
  <2>1. PICK user \in Names, tool \in {"create_dir", "cd", "ls"}, su \in BOOLEAN,
             parents \in BOOLEAN, ops \in Operands :
               proc' = [proc EXCEPT ![p] = Begun(user, tool, su, parents, ops)]
    BY StartIs
  <2> QED
    BY <2>1, BegunTypes, OneMoves
<1>2. granted' \in [Procs -> SUBSET (Paths \X {"w", "x"})]
  BY GivenTypes DEF start, Types
<1>3. runs' \in 0 .. MaxRuns
  BY DirectoriesAssumption DEF start, Types
<1> QED
  BY <1>1, <1>2, <1>3 DEF start, Types

\* ... the steps that only look, ...
LEMMA ToolTypes ==
  ASSUME Types, NEW p \in Procs, Own(p),
         sudo(p) \/ check_tool(p) \/ operand(p) \/ ask(p) \/ chdir(p) \/ stat_again(p)
  PROVE  Types'
<1>1. Looks
  BY DEF sudo, check_tool, operand, ask, chdir, stat_again
<1>2. proc' \in [Procs -> Processes]
  <2>0. proc[p] \in Processes
    BY DEF Types
  <2>1. CASE sudo(p)
    BY <2>1, MoveTypes DEF sudo, PCs
  <2>2. CASE check_tool(p)
    BY <2>2, MoveTypes DEF check_tool, PCs
  <2>3. CASE operand(p)
    <3>1. CASE Moves(p, Acts(p))
      BY <3>1, MoveTypes DEF Acts, PCs
    <3>2. CASE proc' = [proc EXCEPT ![p] = NextOperand(p, @)]
      BY <2>0, <3>2, TurnTypes, OneMoves
    <3>3. CASE proc' = [proc EXCEPT ![p] = [@ EXCEPT !.pc = "ask", !.at = FirstAsked(p),
                                                     !.need = FirstNeed(p)]] /\ ~Unasked(p)
      <4>1. Operand(p) \in Paths
        BY <2>3, OperandIs DEF operand, At, Own, Started
      <4>2. FirstAsked(p) \in Paths
        BY <3>3, <4>1, ParentUp, PathUp DEF FirstAsked, Unasked
      <4>3. FirstNeed(p) \in {"w", "x"}
        BY DEF FirstNeed
      <4> QED
        <5>1. "ask" \in PCs
          BY DEF PCs
        <5>2. [proc[p] EXCEPT !.pc = "ask", !.at = FirstAsked(p), !.need = FirstNeed(p)]
                \in Processes
          BY <2>0, <4>2, <4>3, <5>1, RecordTypes
        <5> QED
          BY <3>3, <5>2, OneMoves
    <3> QED
      BY <2>3, <3>1, <3>2, <3>3 DEF operand
  <2>4. CASE ask(p)
    <3>1. Operand(p) \in Paths /\ proc[p].at \in Paths
      <4>1. proc[p].pc = "ask"
        BY <2>4 DEF ask, At
      <4>2. Operand(p) \in Paths
        BY <4>1, OperandIs DEF Own, Started, Working
      <4>3. \E n \in 1 .. Len(Operand(p)) : proc[p].at = Up(Operand(p), n)
        BY <4>1 DEF Own, AskedSoFar, At
      <4> QED
        BY <4>2, <4>3, PathUp
    <3>2. CASE proc' = [proc EXCEPT ![p].need = "x"]
      <4>1. [proc[p] EXCEPT !.need = "x"] \in Processes
        BY <2>0, RecordTypes
      <4> QED
        BY <3>2, <4>1, OneMoves
    <3>3. CASE proc' = [proc EXCEPT ![p].at = Parent(proc[p].at)] /\ Parent(proc[p].at) # <<>>
      <4>1. Parent(proc[p].at) \in Paths
        BY <3>1, <3>3, ParentUp, PathUp
      <4>2. [proc[p] EXCEPT !.at = Parent(proc[p].at)] \in Processes
        BY <2>0, <4>1, RecordTypes
      <4> QED
        BY <3>3, <4>2, OneMoves
    <3>4. CASE Moves(p, Acts(p)) \/ Moves(p, "denied")
      BY <3>4, MoveTypes DEF Acts, PCs
    <3>5. CASE proc' = [proc EXCEPT ![p] =
                 NextOperand(p, [proc[p] EXCEPT !.denied = @ \cup {Operand(p)}])]
      <4>1. [proc[p] EXCEPT !.denied = @ \cup {Operand(p)}] \in Processes
        BY <2>0, <3>1, RecordTypes
      <4>2. NextOperand(p, [proc[p] EXCEPT !.denied = @ \cup {Operand(p)}]) \in Processes
        BY <4>1, TurnTypes
      <4> QED
        BY <3>5, <4>2, OneMoves
    <3> QED
      BY <2>4, <3>2, <3>3, <3>4, <3>5 DEF ask
  <2>5. CASE chdir(p)
    BY <2>5, MoveTypes DEF chdir, PCs
  <2>6. CASE stat_again(p)
    <3>1. CASE Moves(p, "failed")
      BY <3>1, MoveTypes DEF PCs
    <3>2. CASE proc' = [proc EXCEPT ![p] = [@ EXCEPT !.pc = "prefix", !.step = 1]]
      <4>1. "prefix" \in PCs /\ 1 \in Nat
        BY DEF PCs
      <4>2. [proc[p] EXCEPT !.pc = "prefix", !.step = 1] \in Processes
        BY <2>0, <4>1, RecordTypes
      <4> QED
        BY <3>2, <4>2, OneMoves
    <3> QED
      BY <2>6, <3>1, <3>2 DEF stat_again
  <2> QED
    BY <2>1, <2>2, <2>3, <2>4, <2>5, <2>6
<1> QED
  BY <1>1, <1>2 DEF Looks, Types

\* ... a directory made, ...
LEMMA MakesTypes ==
  ASSUME Types, NEW p \in Procs, NEW path \in Paths, Makes(p, path)
  PROVE  Types'
<1>1. proc' \in [Procs -> Processes]
  BY MoveTypes DEF Makes, PCs
<1> QED
  BY <1>1 DEF Makes, Types

\* ... or not made, ...
LEMMA FailsTypes ==
  ASSUME Types, NEW path, NEW errno, Fails(path, errno)
  PROVE  /\ faults' \in 0 .. MaxFaults
         /\ UNCHANGED <<kind, acl, filling, runs, changes, made, granted>>
BY FaultTypes DEF Fails, Looks, Types

\* ... the two calls of mkdir, ...
LEMMA MkdirTypes ==
  ASSUME Types, NEW p \in Procs, Own(p), mkdir(p) \/ mkdir_prefix(p)
  PROVE  Types'
<1>1. CASE mkdir(p)
  <2>1. Operand(p) \in Paths
    BY <1>1, OperandIs DEF mkdir, At, Own, Started, Working
  <2>2. CASE Makes(p, Operand(p))
    BY <2>1, <2>2, MakesTypes
  <2>3. ASSUME NEW errno \in Errnos, Fails(Operand(p), errno),
               proc' = [proc EXCEPT ![p] =
                          [@ EXCEPT !.pc = IF proc[p].parents THEN "stat" ELSE "failed",
                                    !.errno = errno]]
        PROVE  Types'
    <3>1. proc' \in [Procs -> Processes]
      <4>1. proc[p] \in Processes /\ (IF proc[p].parents THEN "stat" ELSE "failed") \in PCs
        BY DEF Types, PCs
      <4>2. [proc[p] EXCEPT !.pc = IF proc[p].parents THEN "stat" ELSE "failed",
                            !.errno = errno] \in Processes
        BY <4>1, RecordTypes
      <4> QED
        BY <2>3, <4>2, OneMoves
    <3> QED
      BY <2>3, <3>1, FailsTypes DEF Types
  <2> QED
    BY <1>1, <2>2, <2>3, Zenon DEF mkdir
<1>2. CASE mkdir_prefix(p)
  <2>1. Place(p) \in Paths
    <3>1. proc[p].pc = "prefix"
      BY <1>2 DEF mkdir_prefix, At
    <3>2. proc[p].step \in 1 .. Len(Operand(p)) /\ Len(Operand(p)) \in Nat
      BY <3>1, OperandIs, PathUp DEF At, Own, Shape, Started, Working
    <3>3. proc[p].step \in 0 .. Len(Operand(p))
      BY <3>2
    <3> QED
      BY <3>1, <3>3, PlaceIs DEF Own, Started, Working
  <2>2. CASE Makes(p, Place(p))
    BY <2>1, <2>2, MakesTypes
  <2>3. ASSUME NEW errno \in Errnos, Fails(Place(p), errno),
               proc' = [proc EXCEPT ![p] = IF errno = "EEXIST" THEN NextPrefix(p, @)
                                           ELSE [@ EXCEPT !.pc = "failed"]]
        PROVE  Types'
    <3>1. proc[p] \in Processes
      BY DEF Types
    <3>2. NextPrefix(p, proc[p]) \in Processes
          /\ [proc[p] EXCEPT !.pc = "failed"] \in Processes
      BY <3>1, TurnTypes, RecordTypes DEF PCs
    <3>3. proc' \in [Procs -> Processes]
      BY <2>3, <3>2, OneMoves
    <3> QED
      BY <2>3, <3>3, FailsTypes DEF Types
  <2> QED
    BY <1>2, <2>2, <2>3 DEF mkdir_prefix
<1> QED
  BY <1>1, <1>2

\* ... what the processes have been given since they started, ...
LEMMA WitnessTypes ==
  ASSUME Types, Witnessed
  PROVE  granted' \in [Procs -> SUBSET (Paths \X {"w", "x"})]
BY GivenTypes DEF Types, Witnessed

\* ... the steps that write the ACL, ...
LEMMA AclStepTypes ==
  ASSUME Types, NEW p \in Procs, Own(p), open_acl(p) \/ open_fails(p) \/ fill_acl(p)
  PROVE  Types'
<1>0. Place(p) \in Paths /\ proc[p] \in Processes /\ NextPrefix(p, proc[p]) \in Processes
  BY PlaceIs, TurnTypes DEF open_acl, open_fails, fill_acl, At, Own, Started, Working, Shape,
                            Making, Types
<1>1. CASE open_acl(p)
  <2>1. proc' \in [Procs -> Processes]
    BY <1>1, MoveTypes DEF open_acl, PCs
  <2> QED
    BY <1>0, <1>1, <2>1, WitnessTypes, AclTypes DEF open_acl, Types
<1>2. CASE open_fails(p)
  BY <1>0, <1>2, FaultTypes DEF open_fails, Types
<1>3. CASE fill_acl(p)
  <2>1. proc' \in [Procs -> Processes]
    BY <1>0, <1>3 DEF fill_acl, Types
  <2>2. acl' \in [Paths -> Acls \cup {NoAcl}] /\ filling' \in [Paths -> Procs \cup {Nobody}]
    BY <1>0, <1>3, AclTypes DEF fill_acl, Types
  <2> QED
    BY <1>3, <2>1, <2>2, WitnessTypes DEF fill_acl, Types
<1> QED
  BY <1>1, <1>2, <1>3

\* ... and what others do.
LEMMA OutsideTypes ==
  ASSUME Types,
         \/ \E p \in Procs : kill(p)
         \/ \E path \in Paths : put_file(path) \/ set_acl(path)
  PROVE  Types'
<1>1. ASSUME NEW p \in Procs, kill(p) PROVE Types'
  <2>1. proc' \in [Procs -> Processes]
    BY <1>1, MoveTypes DEF kill, PCs
  <2> QED
    BY <1>1, <2>1, FaultTypes DEF kill, Types
<1>2. Change => changes' \in 0 .. MaxChanges
  BY DirectoriesAssumption DEF Change, Types
<1>3. ASSUME NEW path \in Paths, put_file(path) PROVE Types'
  BY <1>2, <1>3 DEF put_file, Types
<1>4. ASSUME NEW path \in Paths, set_acl(path) PROVE Types'
  BY <1>2, <1>4, WitnessTypes, AclTypes DEF set_acl, Types
<1> QED
  BY <1>1, <1>3, <1>4
-----------------------------------------------------------------------------
(* The turns of a tool's loops.                                            *)

\* A process that only changes its place in the program.
LEMMA MoveIs ==
  ASSUME Types, NEW p \in Procs, NEW pc, Moves(p, pc)
  PROVE  /\ proc'[p] = [proc[p] EXCEPT !.pc = pc]
         /\ proc'[p].pc = pc /\ proc'[p].user = proc[p].user /\ proc'[p].tool = proc[p].tool
         /\ proc'[p].sudo = proc[p].sudo /\ proc'[p].parents = proc[p].parents
         /\ proc'[p].operands = proc[p].operands /\ proc'[p].index = proc[p].index
         /\ proc'[p].at = proc[p].at /\ proc'[p].need = proc[p].need
         /\ proc'[p].step = proc[p].step /\ proc'[p].errno = proc[p].errno
         /\ proc'[p].denied = proc[p].denied
         /\ Operand(p)' = Operand(p) /\ Place(p)' = Place(p)
         /\ \A q \in Procs \ {p} : proc'[q] = proc[q]
<1>1. proc[p] \in Processes
  BY DEF Types
<1>2. proc'[p] = [proc[p] EXCEPT !.pc = pc] /\ \A q \in Procs \ {p} : proc'[q] = proc[q]
  BY DEF Types, Moves
<1>3. /\ proc'[p].pc = pc /\ proc'[p].user = proc[p].user /\ proc'[p].tool = proc[p].tool
      /\ proc'[p].sudo = proc[p].sudo /\ proc'[p].parents = proc[p].parents
      /\ proc'[p].operands = proc[p].operands /\ proc'[p].index = proc[p].index
      /\ proc'[p].at = proc[p].at /\ proc'[p].need = proc[p].need
      /\ proc'[p].step = proc[p].step /\ proc'[p].errno = proc[p].errno
      /\ proc'[p].denied = proc[p].denied
  BY <1>1, <1>2 DEF Processes
<1>4. Operand(p)' = Operand(p) /\ Place(p)' = Place(p)
  BY <1>3 DEF Operand, Place
<1> QED
  BY <1>2, <1>3, <1>4

\* What a turn of the loops changes in the record.
LEMMA TurnIs ==
  ASSUME NEW p, NEW r \in Processes
  PROVE  /\ NextOperand(p, r).operands = r.operands
         /\ NextOperand(p, r).index = r.index + 1
         /\ NextOperand(p, r).step = 0
         /\ NextOperand(p, r).tool = r.tool /\ NextOperand(p, r).denied = r.denied
         /\ NextOperand(p, r).user = r.user
         /\ NextOperand(p, r).pc = IF r.index < Len(r.operands) THEN "operand" ELSE "done"
         /\ r.step > 0 /\ r.step < Len(r.operands[r.index]) =>
              /\ NextPrefix(p, r).operands = r.operands
              /\ NextPrefix(p, r).index = r.index
              /\ NextPrefix(p, r).step = r.step + 1
              /\ NextPrefix(p, r).tool = r.tool /\ NextPrefix(p, r).denied = r.denied
              /\ NextPrefix(p, r).user = r.user /\ NextPrefix(p, r).sudo = r.sudo
              /\ NextPrefix(p, r).pc = "prefix"
         /\ ~(r.step > 0 /\ r.step < Len(r.operands[r.index])) =>
              NextPrefix(p, r) = NextOperand(p, r)
<1> DEFINE O == Operands \cup {<<>>}
           A == Paths \cup {<<>>}
           N == {"w", "x"}
           E == Errnos \cup {""}
           T == {"none", "create_dir", "cd", "ls"}
           D == SUBSET Paths
<1>1. r \in [pc : PCs, user : Names, tool : T, sudo : BOOLEAN, parents : BOOLEAN,
              operands : O, index : Nat, at : A, need : N, step : Nat, errno : E,
              denied : D]
  BY DEF Processes
<1> HIDE DEF O, A, N, E, T, D
<1>2. /\ r.index < Len(r.operands) =>
           NextOperand(p, r) = [r EXCEPT !.pc = "operand", !.index = r.index + 1, !.step = 0,
                                         !.errno = ""]
      /\ ~(r.index < Len(r.operands)) =>
           NextOperand(p, r) = [r EXCEPT !.pc = "done", !.index = r.index + 1, !.step = 0,
                                         !.errno = ""]
  BY DEF NextOperand
<1>3. r.step > 0 /\ r.step < Len(r.operands[r.index]) =>
        NextPrefix(p, r) = [r EXCEPT !.pc = "prefix", !.step = r.step + 1]
  BY DEF NextPrefix
<1>4. ~(r.step > 0 /\ r.step < Len(r.operands[r.index])) =>
        NextPrefix(p, r) = NextOperand(p, r)
  BY DEF NextPrefix
<1> QED
  BY <1>1, <1>2, <1>3, <1>4

\* A process that goes on to its next operand has not passed over one that is
\* not there, if it knows of the last one.
LEMMA TurnKeeps ==
  ASSUME Types, Grows, NEW p \in Procs, Shape(p), Passed(p), proc[p].pc \in Started,
         NEW r \in Processes, r.operands = proc[p].operands, r.index = proc[p].index,
         r.tool = proc[p].tool, proc[p].denied \subseteq r.denied,
         proc'[p] = NextOperand(p, r),
         proc[p].tool = "create_dir" =>
           kind'[Operand(p)] # "none" \/ Operand(p) \in r.denied
  PROVE  Own(p)'
<1>1. /\ proc[p].operands \in Operands /\ proc[p].index \in DOMAIN proc[p].operands
      /\ Operand(p) \in Paths
  BY OperandIs
<1>2. /\ Len(proc[p].operands) \in Nat /\ DOMAIN proc[p].operands = 1 .. Len(proc[p].operands)
      /\ \A i \in DOMAIN proc[p].operands : proc[p].operands[i] \in Paths
  BY <1>1, OperandTypes
<1>3. /\ proc'[p].operands = proc[p].operands /\ proc'[p].index = proc[p].index + 1
      /\ proc'[p].step = 0 /\ proc'[p].tool = proc[p].tool /\ proc'[p].denied = r.denied
      /\ proc'[p].pc \in {"operand", "done"}
      /\ proc'[p].pc = "operand" => proc[p].index < Len(proc[p].operands)
  BY TurnIs
<1>4. Shape(p)'
  <2>1. PICK i \in Nat : i = proc[p].index /\ i \in DOMAIN proc[p].operands
    BY <1>1, <1>2
  <2>2. i + 1 > 0 /\ (proc'[p].pc = "operand" => i + 1 \in DOMAIN proc[p].operands)
    BY <1>2, <1>3, <2>1
  <2> QED
    BY <1>1, <1>3, <2>1, <2>2 DEF Shape, At, Working, Making
<1>5. Passed(p)'
  <2> SUFFICES ASSUME proc[p].tool = "create_dir",
                      NEW i \in DOMAIN proc[p].operands, i < proc[p].index + 1
               PROVE  \/ kind'[proc[p].operands[i]] # "none"
                      \/ proc[p].operands[i] \in r.denied
    BY <1>3 DEF Passed
  <2>1. CASE i = proc[p].index
    BY <2>1 DEF Operand
  <2>2. CASE i < proc[p].index
    <3>1. \/ kind[proc[p].operands[i]] # "none"
          \/ proc[p].operands[i] \in proc[p].denied
      BY <2>2 DEF Passed
    <3> QED
      BY <1>2, <3>1 DEF Grows
  <2> QED
    BY <1>1, <1>2, <2>1, <2>2
<1> QED
  BY <1>3, <1>4, <1>5 DEF Own, ErrnoTells, PrefixesThere, AskedSoFar, Harmless, ByRight, At, Making

\* So has one at the next prefix of its operand, when the last one is there.
LEMMA PrefixKeeps ==
  ASSUME Types, Grows, NEW p \in Procs, Own(p), proc[p].pc \in Making \cup {"prefix"},
         granted[p] \subseteq granted'[p], kind[Place(p)] # "none",
         proc'[p] = NextPrefix(p, proc[p])
  PROVE  Own(p)'
<1> DEFINE path == Operand(p)
           step == proc[p].step
<1>1. proc[p].pc \in Started /\ proc[p].tool = "create_dir"
  BY DEF Own, Shape, Making, Started, Working
<1>2. /\ path \in Paths /\ Len(path) \in Nat /\ step \in 0 .. Len(path)
      /\ \A n \in 1 .. Len(path) : Up(path, n) \in Paths
      /\ Up(path, Len(path)) = path
  BY <1>1, OperandIs, PathUp DEF Own, Shape, At
<1>3. Place(p) = IF step = 0 THEN path ELSE Up(path, step)
  BY DEF Place, Up
<1>4. Place(p) \in Paths /\ kind'[Place(p)] # "none"
  BY <1>2, <1>3 DEF Grows
<1>5. CASE step > 0 /\ step < Len(path)
  <2>1. proc[p] \in Processes /\ path = proc[p].operands[proc[p].index]
    BY DEF Types, Operand
  <2>2. /\ proc'[p].pc = "prefix" /\ proc'[p].step = step + 1
        /\ proc'[p].operands = proc[p].operands /\ proc'[p].index = proc[p].index
        /\ proc'[p].tool = proc[p].tool /\ proc'[p].sudo = proc[p].sudo
        /\ proc'[p].denied = proc[p].denied
    BY <1>5, <2>1, TurnIs
  <2>3. Operand(p)' = path
    BY <2>2 DEF Operand
  <2>4. Shape(p)'
    <3>1. step + 1 \in 1 .. Len(path)
      BY <1>2, <1>5
    <3>2. /\ proc[p].operands \in Operands /\ proc[p].index \in DOMAIN proc[p].operands
          /\ proc[p].index > 0
      BY <1>1, OperandIs DEF Own, Shape
    <3> HIDE DEF path, step
    <3> QED
      BY <1>1, <2>2, <2>3, <3>1, <3>2 DEF Shape, At, Working, Making
  <2>5. \A n \in 1 .. step : kind'[Up(path, n)] # "none"
    <3> SUFFICES ASSUME NEW n \in 1 .. step PROVE kind'[Up(path, n)] # "none"
      OBVIOUS
    <3>1. CASE n = step
      BY <1>3, <1>4, <1>5, <3>1
    <3>2. CASE n < step
      <4>1. kind[Up(path, n)] # "none"
        <5>1. CASE proc[p].pc = "prefix"
          BY <1>2, <3>2, <5>1 DEF Own, PrefixesThere, At
        <5>2. CASE proc[p].pc \in Making
          BY <5>2 DEF Own, PrefixesThere
        <5> QED
          BY <5>1, <5>2
      <4> QED
        BY <1>2, <4>1 DEF Grows
    <3> QED
      BY <1>2, <3>1, <3>2
  <2>6. PrefixesThere(p)'
    <3>1. proc'[p].step - 1 = step
      BY <1>2, <2>2
    <3>2. \A n \in 1 .. proc'[p].step - 1 : kind'[Up(path, n)] # "none"
      BY <2>5, <3>1
    <3> HIDE DEF path, step
    <3> QED
      BY <2>2, <2>3, <3>2 DEF PrefixesThere, At, Making
  <2>7. ByRight(p)'
    BY <2>2, <2>3 DEF Own, ByRight, Making
  <2>8. Passed(p)'
    <3>1. \A i \in DOMAIN proc[p].operands : proc[p].operands[i] \in Paths
      BY <1>1, OperandIs, OperandTypes DEF Own
    <3> QED
      BY <2>2, <3>1 DEF Own, Passed, Grows
  <2> QED
    BY <2>2, <2>4, <2>6, <2>7, <2>8 DEF Own, ErrnoTells, AskedSoFar, Harmless, At
<1>6. CASE ~(step > 0 /\ step < Len(path))
  <2>1. proc'[p] = NextOperand(p, proc[p])
    BY <1>6 DEF NextPrefix, Operand
  <2>2. Place(p) = path
    BY <1>2, <1>3, <1>6
  <2>3. proc[p] \in Processes
    BY DEF Types
  <2> QED
    BY <1>1, <1>4, <2>1, <2>2, <2>3, TurnKeeps DEF Own
<1> QED
  BY <1>5, <1>6
-----------------------------------------------------------------------------
(* What each step leaves true of the process that takes it.                *)

\* A step that only looks loses nothing.
LEMMA LooksGrows ==
  ASSUME Looks
  PROVE  Grows /\ \A p \in Procs : granted[p] \subseteq granted'[p]
BY DEF Looks, Grows

\* A move to where less is said of a process.
LEMMA QuietMove ==
  ASSUME Types, Grows, NEW p \in Procs, Own(p), proc[p].pc \in Started,
         NEW pc, Moves(p, pc),
         \/ pc \in {"denied", "killed", "done"}
         \/ pc \in {"tool", "operand"} /\ proc[p].step = 0
         \/ pc = "failed" /\ Harmless(p)'
  PROVE  Own(p)'
<1>1. /\ proc'[p].pc = pc /\ proc'[p].operands = proc[p].operands
      /\ proc'[p].index = proc[p].index /\ proc'[p].step = proc[p].step
      /\ proc'[p].tool = proc[p].tool /\ proc'[p].denied = proc[p].denied
  BY MoveIs
<1>2. proc[p].operands \in Operands /\ proc[p].index \in DOMAIN proc[p].operands
      /\ proc[p].index > 0
  BY OperandIs DEF Own, Shape
<1>3. Shape(p)'
  <2>1. CASE pc \in {"denied", "killed", "done", "failed"}
    BY <1>1, <1>2, <2>1 DEF Shape, At, Working, Making
  <2>2. CASE pc \in {"tool", "operand"} /\ proc[p].step = 0
    BY <1>1, <1>2, <2>2 DEF Shape, At, Working, Making
  <2>3. \/ pc \in {"denied", "killed", "done", "failed"}
        \/ pc \in {"tool", "operand"} /\ proc[p].step = 0
    OBVIOUS
  <2> QED
    BY <2>1, <2>2, <2>3
<1>4. Passed(p)'
  <2>1. \A i \in DOMAIN proc[p].operands : proc[p].operands[i] \in Paths
    BY <1>2, OperandTypes
  <2> QED
    BY <1>1, <2>1 DEF Own, Passed, Grows
<1>5. pc \in {"denied", "killed", "done", "tool", "operand", "failed"}
  OBVIOUS
<1>6. Harmless(p)'
  BY <1>1 DEF Harmless, At
<1> QED
  BY <1>1, <1>3, <1>4, <1>5, <1>6
     DEF Own, ErrnoTells, PrefixesThere, AskedSoFar, ByRight, At, Making

\* What is known of a tool that starts.
LEMMA StartOwn ==
  ASSUME Types, NEW p \in Procs, start(p)
  PROVE  Own(p)'
<1>1. PICK user \in Names, tool \in {"create_dir", "cd", "ls"}, su \in BOOLEAN,
           parents \in BOOLEAN, ops \in Operands :
        proc' = [proc EXCEPT ![p] = Begun(user, tool, su, parents, ops)]
  BY StartIs
<1>2. proc'[p] = Begun(user, tool, su, parents, ops)
  BY <1>1, BegunTypes, OneMoves
<1>3. /\ proc'[p].pc \in {"sudo", "operand"} /\ proc'[p].operands = ops
      /\ proc'[p].index = 1 /\ proc'[p].step = 0 /\ proc'[p].tool = tool
  BY <1>2 DEF Begun, Idle
<1>4. 1 \in DOMAIN ops /\ \A i \in DOMAIN ops : ~(i < 1)
  BY OperandTypes
<1>5. Shape(p)'
  <2>1. proc'[p].index > 0 /\ proc'[p].index \in DOMAIN proc'[p].operands
        /\ proc'[p].operands \in Operands
    BY <1>3, <1>4
  <2> QED
    BY <1>3, <2>1 DEF Shape, At, Working, Making
<1>6. Passed(p)'
  BY <1>3, <1>4 DEF Passed
<1> QED
  BY <1>3, <1>5, <1>6
     DEF Own, ErrnoTells, PrefixesThere, AskedSoFar, Harmless, ByRight, At, Making

\* The steps before the first operand and after the last keep what is known.
LEMMA ToolOwn ==
  ASSUME Types, NEW p \in Procs, Own(p), sudo(p) \/ check_tool(p) \/ chdir(p)
  PROVE  Own(p)'
<1>1. Grows /\ proc[p].pc \in Started
  BY LooksGrows DEF sudo, check_tool, chdir, At, Started, Working
<1>2. CASE sudo(p)
  <2>1. CASE Moves(p, "tool")
    BY <1>1, <1>2, <2>1, QuietMove DEF sudo, Own, Shape, At
  <2>2. CASE proc[p].tool \notin allowed_command /\ Moves(p, "failed")
    <3>1. proc'[p].tool # "create_dir"
      BY <2>2, MoveIs DEF allowed_command
    <3> QED
      BY <1>1, <2>2, <3>1, QuietMove DEF Harmless
  <2> QED
    BY <1>2, <2>1, <2>2 DEF sudo
<1>3. CASE check_tool(p)
  BY <1>1, <1>3, QuietMove DEF check_tool, Own, Shape, At
<1>4. CASE chdir(p)
  <2>1. CASE Moves(p, "done")
    BY <1>1, <2>1, QuietMove
  <2>2. CASE Moves(p, "failed")
    <3>1. proc'[p].tool # "create_dir"
      BY <1>4, <2>2, MoveIs DEF chdir, Own, Shape, At
    <3> QED
      BY <1>1, <2>2, <3>1, QuietMove DEF Harmless
  <2> QED
    BY <1>4, <2>1, <2>2 DEF chdir
<1> QED
  BY <1>2, <1>3, <1>4

\* The ACLs are passed, or nothing was to be asked: what comes next.
LEMMA ActsOwn ==
  ASSUME Types, Looks, NEW p \in Procs, Own(p), proc[p].pc \in {"operand", "ask"},
         Moves(p, Acts(p)),
         /\ proc[p].tool = "create_dir" /\ ~proc[p].sudo /\ Above(Operand(p)) # {}
         => /\ <<Parent(Operand(p)), "w">> \in granted[p]
            /\ \A a \in Above(Operand(p)) : <<a, "x">> \in granted[p]
  PROVE  Own(p)'
<1>1. Grows /\ granted' = granted /\ proc[p].pc \in Started
  BY LooksGrows DEF Looks, Started, Working
<1>2. /\ proc'[p].pc = Acts(p) /\ proc'[p].operands = proc[p].operands
      /\ proc'[p].index = proc[p].index /\ proc'[p].step = 0
      /\ proc'[p].tool = proc[p].tool /\ proc'[p].denied = proc[p].denied
      /\ proc'[p].sudo = proc[p].sudo /\ Operand(p)' = Operand(p)
  BY MoveIs DEF Own, Shape
<1>3. proc[p].operands \in Operands /\ proc[p].index \in DOMAIN proc[p].operands
      /\ proc[p].index > 0
  BY <1>1, OperandIs DEF Own, Shape
<1>4. Acts(p) \in {"mkdir", "chdir"} /\ (Acts(p) = "mkdir" <=> proc[p].tool = "create_dir")
  BY DEF Acts
<1>5. Shape(p)'
  BY <1>2, <1>3, <1>4 DEF Shape, At, Working, Making
<1>6. Passed(p)'
  <2>1. \A i \in DOMAIN proc[p].operands : proc[p].operands[i] \in Paths
    BY <1>3, OperandTypes
  <2> QED
    BY <1>1, <1>2, <2>1 DEF Own, Passed, Grows
<1>7. ByRight(p)'
  BY <1>1, <1>2, <1>4 DEF ByRight
<1> QED
  BY <1>2, <1>4, <1>5, <1>6, <1>7
     DEF Own, ErrnoTells, PrefixesThere, AskedSoFar, Harmless, At, Making

\* An operand is begun: nothing is asked yet, nothing made.
LEMMA OperandOwn ==
  ASSUME Types, NEW p \in Procs, Own(p), operand(p)
  PROVE  Own(p)'
<1>1. Grows /\ Looks /\ proc[p].pc = "operand" /\ proc[p].pc \in Started
  BY LooksGrows DEF operand, At, Started
<1>2. proc[p] \in Processes /\ Operand(p) \in Paths /\ proc[p].step = 0
  BY <1>1, OperandIs DEF Types, Own, Shape
<1>3. CASE kind[Operand(p)] = "dir" /\ proc' = [proc EXCEPT ![p] = NextOperand(p, @)]
  <2>1. proc'[p] = NextOperand(p, proc[p])
    BY <1>2, <1>3, TurnTypes, OneMoves
  <2>2. kind'[Operand(p)] # "none"
    BY <1>2, <1>1, <1>3 DEF Looks
  <2> QED
    BY <1>1, <1>2, <2>1, <2>2, TurnKeeps DEF Own
<1>4. CASE Unasked(p) /\ Moves(p, Acts(p))
  <2>1. proc[p].tool = "create_dir" /\ ~proc[p].sudo => Above(Operand(p)) = {}
    <3> SUFFICES ASSUME proc[p].tool = "create_dir", ~proc[p].sudo
                 PROVE  Above(Operand(p)) = {}
      OBVIOUS
    <3>1. Parent(Operand(p)) = <<>>
      BY <1>4 DEF Unasked, FirstAsked
    <3> QED
      BY <1>2, <3>1, ParentUp, PathUp
  <2> QED
    BY <1>1, <1>4, <2>1, ActsOwn
<1>5. CASE /\ ~Unasked(p)
           /\ proc' = [proc EXCEPT ![p] = [@ EXCEPT !.pc = "ask", !.at = FirstAsked(p),
                                                    !.need = FirstNeed(p)]]
  <2>1. /\ proc'[p].pc = "ask" /\ proc'[p].at = FirstAsked(p) /\ proc'[p].need = FirstNeed(p)
        /\ proc'[p].operands = proc[p].operands /\ proc'[p].index = proc[p].index
        /\ proc'[p].step = 0 /\ proc'[p].tool = proc[p].tool
        /\ proc'[p].denied = proc[p].denied
    BY <1>2, <1>5 DEF Types, Processes
  <2>2. Operand(p)' = Operand(p)
    BY <2>1 DEF Operand
  <2>3. proc[p].operands \in Operands /\ proc[p].index \in DOMAIN proc[p].operands
        /\ proc[p].index > 0
    BY <1>1, OperandIs DEF Own, Shape
  <2>4. Shape(p)'
    BY <2>1, <2>3 DEF Shape, At, Working, Making
  <2>5. Passed(p)'
    <3>1. \A i \in DOMAIN proc[p].operands : proc[p].operands[i] \in Paths
      BY <2>3, OperandTypes
    <3> QED
      BY <1>1, <2>1, <3>1 DEF Own, Passed, Grows
  <2>6. AskedSoFar(p)'
    <3> DEFINE path == Operand(p)
    <3>1. /\ Len(path) \in Nat \ {0} /\ Up(path, Len(path)) = path
          /\ Parent(path) = Up(path, Len(path) - 1)
      BY <1>2, PathUp
    <3>2. CASE proc[p].tool = "create_dir"
      <4>1. FirstAsked(p) = Parent(path) /\ Parent(path) # <<>> /\ FirstNeed(p) = "w"
        BY <1>5, <3>2 DEF FirstAsked, FirstNeed, Unasked
      <4>2. Len(path) # 1
        BY <1>2, <4>1, ParentUp
      <4>3. Len(path) - 1 \in 1 .. Len(path) /\ Len(path) - 1 < Len(path)
        <5>1. PICK n \in Nat \ {0} : n = Len(path)
          BY <3>1
        <5> QED
          BY <4>2, <5>1
      <4> QED
        BY <2>1, <2>2, <3>1, <4>1, <4>3 DEF AskedSoFar
    <3>3. CASE proc[p].tool # "create_dir"
      <4>1. FirstAsked(p) = path /\ Len(path) \in 1 .. Len(path)
        BY <3>1, <3>3 DEF FirstAsked
      <4> QED
        BY <2>1, <2>2, <3>1, <3>3, <4>1 DEF AskedSoFar
    <3> QED
      BY <3>2, <3>3
  <2> QED
    BY <2>1, <2>4, <2>5, <2>6
       DEF Own, ErrnoTells, PrefixesThere, Harmless, ByRight, At, Making
<1> QED
  BY <1>3, <1>4, <1>5 DEF operand

\* An ACL that allows is in the history.
LEMMA AllowedIsGranted ==
  ASSUME NEW p, ~At(p, "idle"), Counted(p), NEW path \in Paths, NEW perm \in {"w", "x"},
         Allows(acl, path, proc[p].user, perm)
  PROVE  <<path, perm>> \in granted[p]
<1>1. <<path, perm>> \in Given(acl, proc[p].user)
  BY DEF Given
<1> QED
  BY <1>1 DEF Counted

\* One more directory on the way lets the process through.
LEMMA AskOwn ==
  ASSUME Types, NEW p \in Procs, Own(p), Counted(p), ask(p)
  PROVE  Own(p)'
<1> DEFINE path == Operand(p)
           dir == proc[p].at
<1>1. /\ Grows /\ Looks /\ proc[p].pc = "ask" /\ proc[p].pc \in Started
      /\ granted' = granted /\ ~At(p, "idle")
  BY LooksGrows DEF ask, At, Started, Working, Looks
<1>2. /\ proc[p] \in Processes /\ path \in Paths /\ Len(path) \in Nat \ {0}
      /\ proc[p].step = 0 /\ proc[p].need \in {"w", "x"}
  BY <1>1, OperandIs, PathUp DEF Types, Own, Shape, Processes
<1>3. PICK n \in 1 .. Len(path) :
        /\ dir = Up(path, n)
        /\ proc[p].tool = "create_dir" =>
             /\ n < Len(path)
             /\ proc[p].need = "w" => n = Len(path) - 1
             /\ proc[p].need = "x" =>
                  /\ <<Parent(path), "w">> \in granted[p]
                  /\ \A k \in n + 1 .. Len(path) - 1 : <<Up(path, k), "x">> \in granted[p]
  BY <1>1 DEF Own, AskedSoFar, At
<1>4. dir \in Paths /\ Parent(path) = Up(path, Len(path) - 1)
      /\ Above(path) = {Up(path, k) : k \in 1 .. Len(path) - 1}
  BY <1>2, <1>3, PathUp
<1>5. Allows(acl, dir, proc[p].user, proc[p].need) => <<dir, proc[p].need>> \in granted[p]
  BY <1>1, <1>2, <1>4, AllowedIsGranted
<1>6. proc[p].operands \in Operands /\ proc[p].index \in DOMAIN proc[p].operands
      /\ proc[p].index > 0
      /\ \A i \in DOMAIN proc[p].operands : proc[p].operands[i] \in Paths
  BY <1>1, OperandIs, OperandTypes DEF Own, Shape
\* a process that goes on asking
<1>7. ASSUME /\ proc'[p].pc = "ask" /\ proc'[p].operands = proc[p].operands
             /\ proc'[p].index = proc[p].index /\ proc'[p].step = 0
             /\ proc'[p].tool = proc[p].tool /\ proc'[p].denied = proc[p].denied,
             AskedSoFar(p)'
      PROVE  Own(p)'
  <2>1. Shape(p)'
    BY <1>6, <1>7 DEF Shape, At, Working, Making
  <2>2. Passed(p)'
    BY <1>1, <1>6, <1>7 DEF Own, Passed, Grows
  <2> QED
    BY <1>7, <2>1, <2>2 DEF Own, ErrnoTells, PrefixesThere, Harmless, ByRight, At, Making
<1>8. CASE /\ Allows(acl, dir, proc[p].user, proc[p].need) /\ proc[p].need = "w"
           /\ proc' = [proc EXCEPT ![p].need = "x"]
  <2>1. /\ proc'[p].pc = "ask" /\ proc'[p].operands = proc[p].operands
        /\ proc'[p].index = proc[p].index /\ proc'[p].step = 0
        /\ proc'[p].tool = proc[p].tool /\ proc'[p].denied = proc[p].denied
        /\ proc'[p].at = dir /\ proc'[p].need = "x"
    BY <1>1, <1>2, <1>8 DEF Types, Processes
  <2>2. Operand(p)' = path
    BY <2>1 DEF Operand
  <2>3. proc[p].tool = "create_dir" =>
          /\ n < Len(path)
          /\ <<Parent(path), "w">> \in granted[p]
          /\ \A k \in n + 1 .. Len(path) - 1 : <<Up(path, k), "x">> \in granted[p]
    <3> HAVE proc[p].tool = "create_dir"
    <3>1. n = Len(path) - 1 /\ n < Len(path)
      BY <1>3, <1>8
    <3>2. dir = Parent(path)
      BY <1>3, <1>4, <3>1
    <3>3. \A k \in n + 1 .. Len(path) - 1 : FALSE
      BY <1>2, <3>1
    <3> QED
      BY <1>5, <1>8, <3>1, <3>2, <3>3
  <2> HIDE DEF path, dir
  <2>4. AskedSoFar(p)'
    BY <1>1, <1>3, <2>1, <2>2, <2>3 DEF AskedSoFar
  <2> QED
    BY <1>7, <2>1, <2>4
<1>9. CASE /\ Allows(acl, dir, proc[p].user, proc[p].need) /\ proc[p].need = "x"
           /\ Parent(dir) # <<>> /\ proc' = [proc EXCEPT ![p].at = Parent(dir)]
  <2>1. /\ proc'[p].pc = "ask" /\ proc'[p].operands = proc[p].operands
        /\ proc'[p].index = proc[p].index /\ proc'[p].step = 0
        /\ proc'[p].tool = proc[p].tool /\ proc'[p].denied = proc[p].denied
        /\ proc'[p].at = Parent(dir) /\ proc'[p].need = "x"
    BY <1>1, <1>2, <1>9 DEF Types, Processes
  <2>2. Operand(p)' = path
    BY <2>1 DEF Operand
  <2>3. n > 1 /\ n - 1 \in 1 .. Len(path) /\ n - 1 + 1 = n
    <3>1. n # 1
      BY <1>2, <1>3, <1>9, ParentUp
    <3> QED
      BY <1>2, <3>1
  <2>4. Parent(dir) = Up(path, n - 1)
    BY <1>2, <1>3, <2>3, ParentUp
  <2>5. proc[p].tool = "create_dir" =>
          /\ n - 1 < Len(path)
          /\ <<Parent(path), "w">> \in granted[p]
          /\ \A k \in n - 1 + 1 .. Len(path) - 1 : <<Up(path, k), "x">> \in granted[p]
    <3> HAVE proc[p].tool = "create_dir"
    <3>1. n < Len(path) /\ n - 1 < Len(path) /\ <<Parent(path), "w">> \in granted[p]
      BY <1>2, <1>3, <1>9, <2>3
    <3>2. <<Up(path, n), "x">> \in granted[p]
      BY <1>3, <1>5, <1>9
    <3>3. ASSUME NEW k \in n .. Len(path) - 1 PROVE <<Up(path, k), "x">> \in granted[p]
      <4>1. k = n \/ k \in n + 1 .. Len(path) - 1
        BY <1>2
      <4> QED
        BY <1>3, <1>9, <3>2, <4>1
    <3> QED
      BY <2>3, <3>1, <3>3
  <2> HIDE DEF path, dir
  <2>6. AskedSoFar(p)'
    <3>1. PICK m \in 1 .. Len(path) : m = n - 1
      BY <2>3
    <3> QED
      BY <1>1, <2>1, <2>2, <2>4, <2>5, <3>1 DEF AskedSoFar
  <2> QED
    BY <1>7, <2>1, <2>6
<1>10. CASE /\ Allows(acl, dir, proc[p].user, proc[p].need) /\ proc[p].need = "x"
            /\ Parent(dir) = <<>> /\ Moves(p, Acts(p))
  <2>1. n = 1
    <3> SUFFICES ASSUME n # 1 PROVE FALSE
      OBVIOUS
    <3>1. n \in 2 .. Len(path) /\ n - 1 \in 1 .. Len(path)
      BY <1>2
    <3>2. Parent(dir) = Up(path, n - 1) /\ Len(Up(path, n - 1)) = n - 1
      BY <1>2, <1>3, <3>1, ParentUp, PathUp
    <3> QED
      BY <1>10, <3>1, <3>2, EmptySeq
  <2>2. /\ proc[p].tool = "create_dir" /\ ~proc[p].sudo /\ Above(path) # {}
        => /\ <<Parent(path), "w">> \in granted[p]
           /\ \A a \in Above(path) : <<a, "x">> \in granted[p]
    <3> SUFFICES ASSUME proc[p].tool = "create_dir"
                 PROVE  /\ <<Parent(path), "w">> \in granted[p]
                        /\ \A a \in Above(path) : <<a, "x">> \in granted[p]
      OBVIOUS
    <3>1. <<Parent(path), "w">> \in granted[p]
      BY <1>3, <1>10
    <3>2. ASSUME NEW k \in 1 .. Len(path) - 1 PROVE <<Up(path, k), "x">> \in granted[p]
      <4>1. k = n \/ k \in n + 1 .. Len(path) - 1
        BY <1>2, <2>1
      <4> QED
        BY <1>3, <1>5, <1>10, <4>1
    <3> QED
      BY <1>4, <3>1, <3>2
  <2> QED
    BY <1>1, <1>10, <2>2, ActsOwn
<1>11. CASE proc' = [proc EXCEPT ![p] =
              NextOperand(p, [proc[p] EXCEPT !.denied = @ \cup {Operand(p)}])]
  <2> DEFINE r == [proc[p] EXCEPT !.denied = @ \cup {Operand(p)}]
  <2>1. r \in Processes /\ NextOperand(p, r) \in Processes
    BY <1>2, RecordTypes, TurnTypes
  <2>2. /\ r.operands = proc[p].operands /\ r.index = proc[p].index /\ r.tool = proc[p].tool
        /\ r.denied = proc[p].denied \cup {Operand(p)}
    BY <1>2 DEF Processes
  <2>3. proc'[p] = NextOperand(p, r)
    BY <1>11, <2>1, OneMoves
  <2> HIDE DEF r
  <2> QED
    BY <1>1, <2>1, <2>2, <2>3, TurnKeeps DEF Own
<1>12. CASE Moves(p, "denied")
  BY <1>1, <1>12, QuietMove
<1> QED
  BY <1>8, <1>9, <1>10, <1>11, <1>12 DEF ask

\* Where mkdir makes something there was nothing.
LEMMA MakesGrows ==
  ASSUME Types, NEW p \in Procs, NEW path \in Paths, Makes(p, path)
  PROVE  /\ Grows /\ kind[path] = "none" /\ kind'[path] = "dir"
         /\ granted' = granted /\ Moves(p, "open acl")
<1>1. kind[path] = "none"
  <2>1. MkdirErrno(path) = ""
    BY DEF Makes
  <2> QED
    BY <2>1 DEF MkdirErrno
<1>2. kind'[path] = "dir" /\ \A other \in Paths \ {path} : kind'[other] = kind[other]
  BY DEF Makes, Types
<1> QED
  BY <1>1, <1>2 DEF Grows, Makes

\* A mkdir that fails tells by its errno what it found.
LEMMA FailsGrows ==
  ASSUME Types, NEW path \in Paths, NEW errno, Fails(path, errno)
  PROVE  /\ Grows /\ kind' = kind /\ granted' = granted
         /\ errno = "EIO" => faults' > 0
         /\ errno = "ENOTDIR" => Blocked(path)
         /\ errno = "EEXIST" => kind[path] # "none"
         /\ errno = "ENOENT" => \E a \in Above(path) : kind[a] = "none"
<1>1. CASE errno = MkdirErrno(path) /\ errno # "" /\ Looks
  <2>1. /\ errno # "EIO"
        /\ errno = "ENOTDIR" => Blocked(path)
        /\ errno = "EEXIST" => kind[path] # "none"
        /\ errno = "ENOENT" => \E a \in Above(path) : kind[a] = "none"
    BY <1>1 DEF MkdirErrno
  <2> QED
    BY <1>1, <2>1, LooksGrows DEF Looks
<1>2. CASE errno = "EIO" /\ Fault /\ UNCHANGED <<kind, acl, filling, runs, changes, made, granted>>
  BY <1>2, FaultTypes DEF Grows
<1> QED
  BY <1>1, <1>2 DEF Fails

\* A directory was made: its ACL is next.
LEMMA MakesOwn ==
  ASSUME Types, NEW p \in Procs, Own(p), proc[p].pc \in {"mkdir", "prefix"},
         Makes(p, Place(p))
  PROVE  Own(p)'
<1> DEFINE path == Operand(p)
           step == proc[p].step
<1>1. /\ proc[p].pc \in Started /\ proc[p].tool = "create_dir"
      /\ path \in Paths /\ Len(path) \in Nat \ {0}
      /\ step \in 0 .. Len(path)
      /\ \A n \in 1 .. Len(path) : Up(path, n) \in Paths
  <2>1. proc[p].pc \in Started /\ proc[p].tool = "create_dir"
    BY DEF Own, Shape, Started, Working, Making
  <2>2. path \in Paths /\ Len(path) \in Nat \ {0}
        /\ \A n \in 1 .. Len(path) : Up(path, n) \in Paths
    BY <2>1, OperandIs, PathUp DEF Own
  <2> QED
    BY <2>1, <2>2 DEF Own, Shape, At
<1>2. Place(p) \in Paths
  BY <1>1, PlaceIs DEF Own
<1>3. PICK place \in Paths : place = Place(p)
  BY <1>2
<1>4. /\ Grows /\ kind'[place] = "dir" /\ granted' = granted /\ Moves(p, "open acl")
  BY <1>3, MakesGrows
<1>5. /\ proc'[p].pc = "open acl" /\ proc'[p].tool = proc[p].tool
      /\ proc'[p].sudo = proc[p].sudo /\ proc'[p].operands = proc[p].operands
      /\ proc'[p].index = proc[p].index /\ proc'[p].step = step
      /\ proc'[p].denied = proc[p].denied
      /\ Operand(p)' = path /\ Place(p)' = place
  BY <1>3, <1>4, MoveIs
<1>6. /\ proc[p].operands \in Operands /\ proc[p].index \in DOMAIN proc[p].operands
      /\ proc[p].index > 0
      /\ \A i \in DOMAIN proc[p].operands : proc[p].operands[i] \in Paths
  BY <1>1, OperandIs, OperandTypes DEF Own, Shape
<1>7. \A n \in 1 .. step : kind'[Up(path, n)] # "none"
  <2> SUFFICES ASSUME NEW n \in 1 .. step PROVE kind'[Up(path, n)] # "none"
    OBVIOUS
  <2>1. proc[p].pc = "prefix"
    BY DEF Own, Shape
  <2>0. step # 0 /\ (n = step \/ n < step) /\ n \in 1 .. Len(path)
    BY <1>1
  <2>2. CASE n = step
    <3>1. place = Up(path, step)
      BY <1>3, <2>0 DEF Place, Up
    <3> QED
      BY <1>4, <2>2, <3>1
  <2>3. CASE n < step
    <3>1. kind[Up(path, n)] # "none"
      BY <1>1, <2>1, <2>3 DEF Own, PrefixesThere, At
    <3> QED
      BY <1>1, <1>4, <2>0, <3>1 DEF Grows
  <2> QED
    BY <2>0, <2>2, <2>3
<1> HIDE DEF path, step
<1>8. Shape(p)'
  BY <1>1, <1>5, <1>6 DEF Shape, At, Working, Making
<1>9. PrefixesThere(p)'
  BY <1>4, <1>5, <1>7 DEF PrefixesThere, At
<1>10. Passed(p)'
  BY <1>4, <1>5, <1>6 DEF Own, Passed, Grows
<1>11. ByRight(p)'
  BY <1>4, <1>5 DEF Own, ByRight, path
<1> QED
  BY <1>5, <1>8, <1>9, <1>10, <1>11 DEF Own, ErrnoTells, AskedSoFar, Harmless, At

\* What mkdir says stays with the process until the second stat.
LEMMA MkdirOwn ==
  ASSUME Types, NEW p \in Procs, Own(p), mkdir(p)
  PROVE  Own(p)'
<1>1. /\ proc[p].pc = "mkdir" /\ proc[p].pc \in Started /\ proc[p].tool = "create_dir"
      /\ proc[p].step = 0 /\ proc[p] \in Processes /\ Operand(p) \in Paths
  <2>1. proc[p].pc = "mkdir" /\ proc[p].pc \in Started
    BY DEF mkdir, At, Started, Working
  <2> QED
    BY <2>1, OperandIs DEF Own, Shape, Making, Types
<1>2. CASE Makes(p, Operand(p))
  BY <1>1, <1>2, MakesOwn DEF Place
<1>3. ASSUME NEW errno \in Errnos, Fails(Operand(p), errno),
             proc' = [proc EXCEPT ![p] =
                        [@ EXCEPT !.pc = IF proc[p].parents THEN "stat" ELSE "failed",
                                  !.errno = errno]]
      PROVE  Own(p)'
  <2>1. /\ proc'[p].pc = IF proc[p].parents THEN "stat" ELSE "failed"
        /\ proc'[p].errno = errno /\ proc'[p].parents = proc[p].parents
        /\ proc'[p].operands = proc[p].operands /\ proc'[p].index = proc[p].index
        /\ proc'[p].step = 0 /\ proc'[p].tool = proc[p].tool
        /\ proc'[p].denied = proc[p].denied /\ proc'[p].sudo = proc[p].sudo
    BY <1>1, <1>3 DEF Types, Processes
  <2>2. Operand(p)' = Operand(p)
    BY <2>1 DEF Operand
  <2>3. PICK path \in Paths : path = Operand(p)
    BY <1>1
  <2>4. /\ Grows /\ kind' = kind /\ granted' = granted
        /\ errno = "EIO" => faults' > 0
        /\ errno = "ENOTDIR" => Blocked(path)
        /\ errno = "EEXIST" => kind[path] # "none"
    BY <1>3, <2>3, FailsGrows
  <2>5. errno = "ENOTDIR" => Blocked(path)'
    BY <2>4, BlockedStays
  <2>6. /\ proc[p].operands \in Operands /\ proc[p].index \in DOMAIN proc[p].operands
        /\ proc[p].index > 0
        /\ \A i \in DOMAIN proc[p].operands : proc[p].operands[i] \in Paths
    BY <1>1, OperandIs, OperandTypes DEF Own, Shape
  <2>7. Shape(p)'
    BY <1>1, <2>1, <2>6 DEF Shape, At, Working, Making
  <2>8. Passed(p)'
    BY <2>1, <2>4, <2>6 DEF Own, Passed, Grows
  <2>9. ErrnoTells(p)'
    BY <1>3, <2>1, <2>2, <2>3, <2>4, <2>5 DEF ErrnoTells, Blocked
  <2>10. Harmless(p)'
    BY <2>1 DEF Harmless, At
  <2>11. ByRight(p)'
    BY <1>1, <2>1, <2>2, <2>4 DEF Own, ByRight
  <2> QED
    BY <2>1, <2>7, <2>8, <2>9, <2>10, <2>11
       DEF Own, PrefixesThere, AskedSoFar, At, Making
<1> QED
  BY <1>2, <1>3, Zenon DEF mkdir

\* The second stat decides whether the prefixes are made.
LEMMA StatOwn ==
  ASSUME Types, NEW p \in Procs, Own(p), stat_again(p)
  PROVE  Own(p)'
<1>1. /\ proc[p].pc = "stat" /\ proc[p].pc \in Started /\ proc[p].tool = "create_dir"
      /\ proc[p] \in Processes /\ Operand(p) \in Paths /\ Len(Operand(p)) \in Nat \ {0}
      /\ Looks /\ Grows /\ kind' = kind /\ faults' = faults /\ granted' = granted
  <2>1. proc[p].pc = "stat" /\ proc[p].pc \in Started
    BY DEF stat_again, At, Started, Working
  <2>2. Operand(p) \in Paths
    BY <2>1, OperandIs DEF Own
  <2> QED
    BY <2>1, <2>2, PathUp, LooksGrows DEF Own, Shape, Making, Types, stat_again, Looks
<1> DEFINE errno == IF StatErrno(Operand(p)) = "" THEN proc[p].errno ELSE StatErrno(Operand(p))
           ends == errno \notin {"EEXIST", "ENOENT"}
                   \/ (errno = "EEXIST" /\ kind[Operand(p)] # "dir")
<1>2. CASE ends /\ Moves(p, "failed")
  <2>1. faults > 0 \/ kind[Operand(p)] = "file" \/ Blocked(Operand(p))
    <3>1. /\ proc[p].errno \in {"ENOENT", "ENOTDIR", "EEXIST", "EIO"}
          /\ proc[p].errno = "EIO" => faults > 0
          /\ proc[p].errno = "ENOTDIR" => Blocked(Operand(p))
      BY <1>1 DEF Own, ErrnoTells, At, Errnos
    <3>2. CASE StatErrno(Operand(p)) = ""
      <4>1. kind[Operand(p)] # "none"
        BY <3>2 DEF StatErrno
      <4>2. kind[Operand(p)] \in {"dir", "file"}
        BY <1>1, <4>1 DEF Types
      <4> QED
        BY <1>2, <3>1, <3>2, <4>2
    <3>3. CASE StatErrno(Operand(p)) # ""
      BY <1>2, <3>3 DEF StatErrno
    <3> QED
      BY <3>2, <3>3
  <2>2. Harmless(p)'
    BY <1>1, <1>2, <2>1, MoveIs DEF Harmless, Blocked
  <2> QED
    BY <1>1, <1>2, <2>2, QuietMove
<1>3. CASE proc' = [proc EXCEPT ![p] = [@ EXCEPT !.pc = "prefix", !.step = 1]]
  <2>1. /\ proc'[p].pc = "prefix" /\ proc'[p].operands = proc[p].operands
        /\ proc'[p].index = proc[p].index /\ proc'[p].step = 1
        /\ proc'[p].tool = proc[p].tool /\ proc'[p].denied = proc[p].denied
        /\ proc'[p].sudo = proc[p].sudo
    BY <1>1, <1>3 DEF Types, Processes
  <2>2. Operand(p)' = Operand(p)
    BY <2>1 DEF Operand
  <2>3. /\ proc[p].operands \in Operands /\ proc[p].index \in DOMAIN proc[p].operands
        /\ proc[p].index > 0
        /\ \A i \in DOMAIN proc[p].operands : proc[p].operands[i] \in Paths
    BY <1>1, OperandIs, OperandTypes DEF Own, Shape
  <2>4. Shape(p)'
    <3>1. 1 \in 1 .. Len(Operand(p))
      BY <1>1
    <3> QED
      BY <1>1, <2>1, <2>2, <2>3, <3>1 DEF Shape, At, Working, Making
  <2>5. Passed(p)'
    BY <1>1, <2>1, <2>3 DEF Own, Passed, Grows
  <2>6. PrefixesThere(p)'
    <3>1. \A n \in 1 .. proc'[p].step - 1 : FALSE
      BY <2>1
    <3> QED
      BY <2>1, <3>1 DEF PrefixesThere, At, Making
  <2>7. ByRight(p)'
    BY <1>1, <2>1, <2>2 DEF Own, ByRight
  <2> QED
    BY <2>1, <2>4, <2>5, <2>6, <2>7 DEF Own, ErrnoTells, AskedSoFar, Harmless, At
<1> QED
  BY <1>2, <1>3 DEF stat_again

\* A prefix made, or there before: the prefixes above it are there now.
LEMMA PrefixOwn ==
  ASSUME Types, NEW p \in Procs, Own(p), mkdir_prefix(p)
  PROVE  Own(p)'
<1> DEFINE path == Operand(p)
           step == proc[p].step
<1>1. /\ proc[p].pc = "prefix" /\ proc[p].pc \in Started /\ proc[p] \in Processes
      /\ path \in Paths /\ Len(path) \in Nat \ {0} /\ step \in 1 .. Len(path)
  <2>1. proc[p].pc = "prefix" /\ proc[p].pc \in Started
    BY DEF mkdir_prefix, At, Started, Working
  <2>2. path \in Paths
    BY <2>1, OperandIs DEF Own
  <2> QED
    BY <2>1, <2>2, PathUp DEF Own, Shape, Types, At
<1>2. step \in 0 .. Len(path)
  BY <1>1
<1>3. /\ Place(p) \in Paths /\ Above(Place(p)) \subseteq Above(path)
      /\ \A a \in Above(Place(p)) : \E n \in 1 .. Len(path) : a = Up(path, n) /\ n < step
  BY <1>1, <1>2, PlaceIs DEF Own
<1>4. CASE Makes(p, Place(p))
  BY <1>1, <1>4, MakesOwn
<1>5. ASSUME NEW errno \in Errnos, Fails(Place(p), errno),
             proc' = [proc EXCEPT ![p] = IF errno = "EEXIST" THEN NextPrefix(p, @)
                                         ELSE [@ EXCEPT !.pc = "failed"]]
      PROVE  Own(p)'
  <2>1. PICK place \in Paths : place = Place(p)
    BY <1>3
  <2>2. /\ Grows /\ kind' = kind /\ granted' = granted
        /\ errno = "EIO" => faults' > 0
        /\ errno = "ENOTDIR" => Blocked(place)
        /\ errno = "EEXIST" => kind[place] # "none"
        /\ errno = "ENOENT" => \E a \in Above(place) : kind[a] = "none"
    BY <1>5, <2>1, FailsGrows
  <2>3. CASE errno = "EEXIST"
    <3>1. proc'[p] = NextPrefix(p, proc[p])
      BY <1>1, <1>5, <2>3, TurnTypes, OneMoves
    <3> QED
      BY <1>1, <2>1, <2>2, <2>3, <3>1, PrefixKeeps
  <2>4. CASE errno # "EEXIST"
    <3>1. Moves(p, "failed")
      BY <1>5, <2>4 DEF Moves
    <3>2. errno # "ENOENT"
      <4> SUFFICES ASSUME errno = "ENOENT" PROVE FALSE
        OBVIOUS
      <4>1. PICK a \in Above(place) : kind[a] = "none"
        BY <2>2
      <4>2. PICK n \in 1 .. Len(path) : a = Up(path, n) /\ n < step
        BY <1>3, <2>1
      <4>3. n \in 1 .. step - 1
        BY <1>1, <4>2
      <4> QED
        BY <1>1, <4>1, <4>2, <4>3 DEF Own, PrefixesThere, At
    <3>3. faults' > 0 \/ Blocked(path)
      BY <1>3, <2>1, <2>2, <2>4, <3>2 DEF Errnos, Blocked
    <3>4. Harmless(p)'
      BY <2>2, <3>1, <3>3, MoveIs DEF Harmless, Blocked
    <3> QED
      BY <1>1, <2>2, <3>1, <3>4, QuietMove
  <2> QED
    BY <2>3, <2>4
<1> QED
  BY <1>4, <1>5, Zenon DEF mkdir_prefix

\* What a process was given once stays noted, and what it is given now is noted.
LEMMA WitnessGrows ==
  ASSUME Types, Witnessed, NEW p \in Procs
  PROVE  /\ granted[p] \subseteq granted'[p]
         /\ Given(acl', proc[p].user) \subseteq granted'[p]
BY DEF Witnessed, Types

\* Writing the ACL changes what users may do, never what is there.
LEMMA AclStepOwn ==
  ASSUME Types, NEW p \in Procs, Own(p), open_acl(p) \/ open_fails(p) \/ fill_acl(p)
  PROVE  Own(p)'
<1>1. /\ proc[p].pc \in Making /\ proc[p].pc \in Started /\ proc[p] \in Processes
      /\ kind' = kind /\ kind[Place(p)] # "none"
  BY DEF open_acl, open_fails, fill_acl, At, Own, PrefixesThere, Making, Started, Working, Types
<1>2. Grows /\ granted[p] \subseteq granted'[p]
  BY FaultTypes, WitnessGrows DEF open_acl, open_fails, fill_acl, Grows
<1>3. CASE open_acl(p)
  <2>1. /\ proc'[p].pc = "fill acl" /\ proc'[p].tool = proc[p].tool
        /\ proc'[p].sudo = proc[p].sudo /\ proc'[p].operands = proc[p].operands
        /\ proc'[p].index = proc[p].index /\ proc'[p].step = proc[p].step
        /\ proc'[p].denied = proc[p].denied
        /\ Operand(p)' = Operand(p) /\ Place(p)' = Place(p)
    BY <1>3, MoveIs DEF open_acl
  <2>2. /\ proc[p].operands \in Operands /\ proc[p].index \in DOMAIN proc[p].operands
        /\ proc[p].index > 0
        /\ \A i \in DOMAIN proc[p].operands : proc[p].operands[i] \in Paths
    BY <1>1, OperandIs, OperandTypes DEF Own, Shape
  <2>3. Shape(p)'
    BY <1>1, <2>1, <2>2 DEF Own, Shape, At, Working, Making
  <2>4. PrefixesThere(p)'
    BY <1>1, <2>1 DEF Own, PrefixesThere, At, Making
  <2>5. Passed(p)'
    BY <1>1, <2>1, <2>2 DEF Own, Passed
  <2>6. ByRight(p)'
    BY <1>1, <1>2, <2>1 DEF Own, ByRight, Making
  <2> QED
    BY <2>1, <2>3, <2>4, <2>5, <2>6 DEF Own, ErrnoTells, AskedSoFar, Harmless, At
<1>4. CASE open_fails(p) \/ fill_acl(p)
  <2>1. proc'[p] = NextPrefix(p, proc[p])
    BY <1>1, <1>4, TurnTypes, OneMoves DEF open_fails, fill_acl
  <2> QED
    BY <1>1, <1>2, <2>1, PrefixKeeps
<1> QED
  BY <1>3, <1>4

\* Of a process that is killed nothing more is claimed.
LEMMA KillOwn ==
  ASSUME Types, NEW p \in Procs, Own(p), kill(p)
  PROVE  Own(p)' /\ Grows /\ granted' = granted
<1>1. Grows /\ granted' = granted
  BY FaultTypes DEF kill, Grows
<1>2. proc[p].pc \in Started
  BY DEF kill, Types, Processes, PCs, Started, Working
<1> QED
  BY <1>1, <1>2, QuietMove DEF kill
-----------------------------------------------------------------------------
(* What each step leaves true of all.                                      *)

\* The steps of one process other than its start.
Works(p) ==
  \/ sudo(p) \/ check_tool(p) \/ operand(p) \/ ask(p) \/ chdir(p)
  \/ mkdir(p) \/ stat_again(p) \/ mkdir_prefix(p)
  \/ open_acl(p) \/ open_fails(p) \/ fill_acl(p) \/ kill(p)

\* The types after whatever a tool does.
LEMMA WorkTypes ==
  ASSUME Types, NEW p \in Procs, Own(p), Works(p)
  PROVE  Types'
BY ToolTypes, MkdirTypes, AclStepTypes, OutsideTypes DEF Works

\* A working process leaves the others alone, and takes nothing away.
LEMMA WorkIs ==
  ASSUME Types, NEW p \in Procs, Own(p), Works(p)
  PROVE  /\ Grows /\ \A q \in Procs : granted[q] \subseteq granted'[q]
         /\ \A q \in Procs \ {p} : proc'[q] = proc[q]
         /\ proc[p].pc # "idle" /\ proc'[p].user = proc[p].user
         /\ acl' = acl \/ \A q \in Procs : Given(acl', proc[q].user) \subseteq granted'[q]
<1>0. proc \in [Procs -> Processes] /\ proc[p] \in Processes
  BY DEF Types
<1>1. CASE sudo(p) \/ check_tool(p) \/ chdir(p)
  BY <1>1, MoveIs, LooksGrows DEF sudo, check_tool, chdir, At, Looks
<1>2. CASE operand(p)
  <2>1. Looks /\ proc[p].pc # "idle"
    BY <1>2 DEF operand, At
  <2>2. CASE proc' = [proc EXCEPT ![p] = NextOperand(p, @)]
    BY <1>0, <2>1, <2>2, TurnTypes, TurnIs, OneMoves, LooksGrows DEF Looks
  <2>3. CASE Moves(p, Acts(p))
    BY <2>1, <2>3, MoveIs, LooksGrows DEF Looks
  <2>4. CASE proc' = [proc EXCEPT ![p] = [@ EXCEPT !.pc = "ask", !.at = FirstAsked(p),
                                                   !.need = FirstNeed(p)]]
    <3>1. proc'[p].user = proc[p].user /\ \A q \in Procs \ {p} : proc'[q] = proc[q]
      BY <1>0, <2>4 DEF Processes
    <3> QED
      BY <2>1, <3>1, LooksGrows DEF Looks
  <2> QED
    BY <1>2, <2>2, <2>3, <2>4 DEF operand
<1>3. CASE ask(p)
  <2>1. Looks /\ proc[p].pc # "idle"
    BY <1>3 DEF ask, At
  <2>2. CASE \/ proc' = [proc EXCEPT ![p].need = "x"]
             \/ proc' = [proc EXCEPT ![p].at = Parent(proc[p].at)]
    <3>1. proc'[p].user = proc[p].user /\ \A q \in Procs \ {p} : proc'[q] = proc[q]
      BY <1>0, <2>2 DEF Processes
    <3> QED
      BY <2>1, <3>1, LooksGrows DEF Looks
  <2>3. CASE Moves(p, Acts(p)) \/ Moves(p, "denied")
    BY <2>1, <2>3, MoveIs, LooksGrows DEF Looks
  <2>4. CASE proc' = [proc EXCEPT ![p] =
               NextOperand(p, [proc[p] EXCEPT !.denied = @ \cup {Operand(p)}])]
    <3> DEFINE r == [proc[p] EXCEPT !.denied = @ \cup {Operand(p)}]
    <3>1. Operand(p) \in Paths
      BY <1>3, OperandIs DEF ask, At, Own, Started, Working
    <3>2. r \in Processes /\ NextOperand(p, r) \in Processes
      BY <1>0, <3>1, RecordTypes, TurnTypes
    <3>3. r.user = proc[p].user
      BY <1>0 DEF Processes
    <3>4. proc' = [proc EXCEPT ![p] = NextOperand(p, r)]
      BY <2>4
    <3> HIDE DEF r
    <3>5. proc'[p].user = proc[p].user /\ \A q \in Procs \ {p} : proc'[q] = proc[q]
      BY <3>2, <3>3, <3>4, TurnIs, OneMoves
    <3> QED
      BY <2>1, <3>5, LooksGrows DEF Looks
  <2> QED
    BY <1>3, <2>2, <2>3, <2>4 DEF ask
<1>4. CASE stat_again(p)
  <2>1. Looks /\ proc[p].pc # "idle"
    BY <1>4 DEF stat_again, At
  <2>2. CASE Moves(p, "failed")
    BY <2>1, <2>2, MoveIs, LooksGrows DEF Looks
  <2>3. CASE proc' = [proc EXCEPT ![p] = [@ EXCEPT !.pc = "prefix", !.step = 1]]
    <3>1. proc'[p].user = proc[p].user /\ \A q \in Procs \ {p} : proc'[q] = proc[q]
      BY <1>0, <2>3 DEF Processes
    <3> QED
      BY <2>1, <3>1, LooksGrows DEF Looks
  <2> QED
    BY <1>4, <2>2, <2>3 DEF stat_again
<1>5. ASSUME NEW path \in Paths, Makes(p, path), proc[p].pc # "idle"
      PROVE  /\ Grows /\ \A q \in Procs : granted[q] \subseteq granted'[q]
             /\ \A q \in Procs \ {p} : proc'[q] = proc[q]
             /\ proc'[p].user = proc[p].user /\ acl' = acl
  BY <1>5, MakesGrows, MoveIs DEF Makes
<1>6. CASE mkdir(p)
  <2>1. Operand(p) \in Paths /\ proc[p].pc # "idle"
    BY <1>6, OperandIs DEF mkdir, At, Own, Started, Working
  <2>2. ASSUME NEW errno \in Errnos, Fails(Operand(p), errno),
               proc' = [proc EXCEPT ![p] =
                          [@ EXCEPT !.pc = IF proc[p].parents THEN "stat" ELSE "failed",
                                    !.errno = errno]]
        PROVE  /\ Grows /\ granted' = granted
               /\ \A q \in Procs \ {p} : proc'[q] = proc[q]
               /\ proc'[p].user = proc[p].user /\ acl' = acl
    <3>1. proc'[p].user = proc[p].user /\ \A q \in Procs \ {p} : proc'[q] = proc[q]
      BY <1>0, <2>2 DEF Processes
    <3> QED
      BY <2>1, <2>2, <3>1, FailsGrows, FailsTypes
  <2>3. CASE Makes(p, Operand(p))
    BY <1>5, <2>1, <2>3
  <2>4. CASE ~Makes(p, Operand(p))
    <3>1. /\ Grows /\ granted' = granted
          /\ \A q \in Procs \ {p} : proc'[q] = proc[q]
          /\ proc'[p].user = proc[p].user /\ acl' = acl
      BY <1>6, <2>2, <2>4, Zenon DEF mkdir
    <3> QED
      BY <2>1, <3>1
  <2> QED
    BY <2>3, <2>4
<1>7. CASE mkdir_prefix(p)
  <2>1. Place(p) \in Paths /\ proc[p].pc # "idle"
    <3>1. proc[p].pc = "prefix" /\ proc[p].pc \in Started
      BY <1>7 DEF mkdir_prefix, At, Started, Working
    <3>2. proc[p].step \in 1 .. Len(Operand(p)) /\ Len(Operand(p)) \in Nat
      BY <3>1, OperandIs, PathUp DEF At, Own, Shape
    <3>3. proc[p].step \in 0 .. Len(Operand(p))
      BY <3>2
    <3> QED
      BY <3>1, <3>3, PlaceIs DEF Own
  <2>2. ASSUME NEW errno \in Errnos, Fails(Place(p), errno),
               proc' = [proc EXCEPT ![p] = IF errno = "EEXIST" THEN NextPrefix(p, @)
                                           ELSE [@ EXCEPT !.pc = "failed"]]
        PROVE  /\ Grows /\ granted' = granted
               /\ \A q \in Procs \ {p} : proc'[q] = proc[q]
               /\ proc'[p].user = proc[p].user /\ acl' = acl
    <3>1. proc'[p].user = proc[p].user /\ \A q \in Procs \ {p} : proc'[q] = proc[q]
      <4>1. CASE errno = "EEXIST"
        <5>1. NextPrefix(p, proc[p]) \in Processes
              /\ NextPrefix(p, proc[p]).user = proc[p].user
          BY <1>0, TurnTypes, TurnIs
        <5> QED
          BY <2>2, <4>1, <5>1, OneMoves
      <4>2. CASE errno # "EEXIST"
        <5>1. Moves(p, "failed")
          BY <2>2, <4>2 DEF Moves
        <5> QED
          BY <5>1, MoveIs
      <4> QED
        BY <4>1, <4>2
    <3> QED
      BY <2>1, <2>2, <3>1, FailsGrows, FailsTypes
  <2>3. CASE Makes(p, Place(p))
    BY <1>5, <2>1, <2>3
  <2>4. CASE ~Makes(p, Place(p))
    <3>1. /\ Grows /\ granted' = granted
          /\ \A q \in Procs \ {p} : proc'[q] = proc[q]
          /\ proc'[p].user = proc[p].user /\ acl' = acl
      BY <1>7, <2>2, <2>4, Zenon DEF mkdir_prefix
    <3> QED
      BY <2>1, <3>1
  <2> QED
    BY <2>3, <2>4
<1>8. CASE open_acl(p)
  BY <1>8, MoveIs, WitnessGrows DEF open_acl, At, Grows
<1>9. CASE open_fails(p) \/ fill_acl(p)
  <2>1. NextPrefix(p, proc[p]) \in Processes /\ NextPrefix(p, proc[p]).user = proc[p].user
    BY <1>0, TurnTypes, TurnIs
  <2>2. /\ proc'[p].user = proc[p].user /\ proc[p].pc # "idle"
        /\ \A q \in Procs \ {p} : proc'[q] = proc[q]
    BY <1>9, <2>1, OneMoves DEF open_fails, fill_acl, At
  <2>3. CASE open_fails(p)
    BY <2>2, <2>3, FaultTypes DEF open_fails, Grows
  <2>4. CASE fill_acl(p)
    BY <2>2, <2>4, WitnessGrows DEF fill_acl, Grows
  <2> QED
    BY <1>9, <2>3, <2>4
<1>10. CASE kill(p)
  BY <1>10, MoveIs, KillOwn DEF kill
<1> QED
  BY <1>1, <1>2, <1>3, <1>4, <1>6, <1>7, <1>8, <1>9, <1>10 DEF Works
-----------------------------------------------------------------------------
(* The makers of ACLs: who is between open and close, of what.             *)

\* A process outside writes no ACL and goes on outside; it makes a directory,
\* and its ACL is next; it opens the ACL; it leaves, and the ACL has lines or
\* something went wrong.
StaysOut(p) ==
  /\ proc[p].pc \notin Making /\ proc'[p].pc \notin Making
  /\ acl' = acl /\ filling' = filling /\ made' = made

Enters(p) ==
  /\ proc[p].pc \notin Making /\ proc'[p].pc = "open acl"
  /\ Place(p)' = Place(p) /\ kind[Place(p)] = "none" /\ made' = made \cup {Place(p)}
  /\ acl' = acl /\ filling' = filling

Opens(p) ==
  /\ proc[p].pc \in Making /\ proc'[p].pc = "fill acl" /\ Place(p)' = Place(p)
  /\ acl' = [acl EXCEPT ![Place(p)] = <<>>]
  /\ filling' = [filling EXCEPT ![Place(p)] = p]
  /\ made' = made

Leaves(p) ==
  /\ proc[p].pc \in Making /\ proc'[p].pc \notin Making
  /\ made' = made
  /\ \/ acl' = acl /\ filling' = filling /\ faults' > 0
     \/ /\ acl' = acl /\ filling' = filling /\ acl[Place(p)] \notin {NoAcl, <<>>}
     \/ /\ acl' = [acl EXCEPT ![Place(p)] = FreshAcl(Owner, {"r", "w", "x"})]
        /\ filling' = [filling EXCEPT ![Place(p)] = Nobody]

\* A next operand or prefix is begun by no step that writes an ACL.
LEMMA TurnsOut ==
  ASSUME NEW p, NEW r \in Processes
  PROVE  NextOperand(p, r).pc \notin Making /\ NextPrefix(p, r).pc \notin Making
<1>1. NextOperand(p, r).pc \in {"operand", "done"}
  BY TurnIs
<1>2. NextPrefix(p, r).pc \in {"operand", "done", "prefix"}
  BY <1>1, TurnIs
<1> QED
  BY <1>1, <1>2 DEF Making

\* The steps that only look write no ACL and begin none.
LEMMA LooksOut ==
  ASSUME Types, NEW p \in Procs, Own(p),
         sudo(p) \/ check_tool(p) \/ operand(p) \/ ask(p) \/ chdir(p) \/ stat_again(p)
  PROVE  StaysOut(p)
<1>0. proc \in [Procs -> Processes] /\ proc[p] \in Processes
  BY DEF Types
<1>1. /\ proc[p].pc \notin Making /\ acl' = acl /\ filling' = filling /\ made' = made
  BY DEF sudo, check_tool, operand, ask, chdir, stat_again, At, Making, Looks
<1>2. ASSUME NEW pc \in PCs \ Making, Moves(p, pc) PROVE proc'[p].pc \notin Making
  BY <1>2, MoveIs
<1>3. CASE sudo(p) \/ check_tool(p) \/ chdir(p)
  <2>1. {"tool", "operand", "denied", "done", "failed"} \subseteq PCs \ Making
    BY DEF PCs, Making
  <2> QED
    BY <1>1, <1>2, <1>3, <2>1 DEF sudo, check_tool, chdir, StaysOut
<1>4. Acts(p) \in PCs \ Making /\ "denied" \in PCs \ Making
  BY DEF Acts, PCs, Making
<1>5. CASE operand(p)
  <2>1. CASE proc' = [proc EXCEPT ![p] = NextOperand(p, @)]
    BY <1>0, <1>1, <2>1, TurnTypes, TurnsOut, OneMoves DEF StaysOut
  <2>2. CASE Moves(p, Acts(p))
    BY <1>1, <1>2, <1>4, <2>2 DEF StaysOut
  <2>3. CASE proc' = [proc EXCEPT ![p] = [@ EXCEPT !.pc = "ask", !.at = FirstAsked(p),
                                                   !.need = FirstNeed(p)]]
    <3>1. proc'[p].pc = "ask"
      BY <1>0, <2>3 DEF Processes
    <3> QED
      BY <1>1, <3>1 DEF StaysOut, Making
  <2> QED
    BY <1>5, <2>1, <2>2, <2>3 DEF operand
<1>6. CASE ask(p)
  <2>1. CASE \/ proc' = [proc EXCEPT ![p].need = "x"]
             \/ proc' = [proc EXCEPT ![p].at = Parent(proc[p].at)]
    <3>1. proc'[p].pc = proc[p].pc
      BY <1>0, <2>1 DEF Processes
    <3> QED
      BY <1>1, <3>1 DEF StaysOut
  <2>2. CASE Moves(p, Acts(p)) \/ Moves(p, "denied")
    BY <1>1, <1>2, <1>4, <2>2 DEF StaysOut
  <2>3. CASE proc' = [proc EXCEPT ![p] =
               NextOperand(p, [proc[p] EXCEPT !.denied = @ \cup {Operand(p)}])]
    <3> DEFINE r == [proc[p] EXCEPT !.denied = @ \cup {Operand(p)}]
    <3>1. Operand(p) \in Paths
      BY <1>6, OperandIs DEF ask, At, Own, Started, Working
    <3>2. r \in Processes /\ NextOperand(p, r) \in Processes
      BY <1>0, <3>1, RecordTypes, TurnTypes
    <3>3. proc' = [proc EXCEPT ![p] = NextOperand(p, r)]
      BY <2>3
    <3> HIDE DEF r
    <3>4. proc'[p].pc \notin Making
      BY <3>2, <3>3, TurnsOut, OneMoves
    <3> QED
      BY <1>1, <3>4 DEF StaysOut
  <2> QED
    BY <1>6, <2>1, <2>2, <2>3 DEF ask
<1>7. CASE stat_again(p)
  <2>1. CASE Moves(p, "failed")
    BY <1>1, <1>2, <2>1 DEF StaysOut, PCs, Making
  <2>2. CASE proc' = [proc EXCEPT ![p] = [@ EXCEPT !.pc = "prefix", !.step = 1]]
    <3>1. proc'[p].pc = "prefix"
      BY <1>0, <2>2 DEF Processes
    <3> QED
      BY <1>1, <3>1 DEF StaysOut, Making
  <2> QED
    BY <1>7, <2>1, <2>2 DEF stat_again
<1> QED
  BY <1>3, <1>5, <1>6, <1>7

\* Who makes a directory is at its ACL next, and is the only one who can be.
LEMMA MakesEnters ==
  ASSUME Types, NEW p \in Procs, proc[p].pc \notin Making, Place(p) \in Paths,
         Makes(p, Place(p))
  PROVE  Enters(p)
<1>1. /\ proc'[p].pc = "open acl" /\ Place(p)' = Place(p)
      /\ made' = made \cup {Place(p)} /\ acl' = acl /\ filling' = filling
  BY MoveIs DEF Makes
<1>2. PICK path \in Paths : path = Place(p)
  OBVIOUS
<1>3. kind[path] = "none"
  BY <1>2, MakesGrows
<1> QED
  BY <1>1, <1>2, <1>3 DEF Enters

\* A mkdir makes a directory or writes nothing.
LEMMA MkdirSorts ==
  ASSUME Types, NEW p \in Procs, Own(p), mkdir(p) \/ mkdir_prefix(p)
  PROVE  StaysOut(p) \/ Enters(p)
<1>0. proc[p] \in Processes /\ proc[p].pc \notin Making
  BY DEF Types, mkdir, mkdir_prefix, At, Making
<1>1. CASE mkdir(p)
  <2>1. Operand(p) \in Paths /\ Place(p) = Operand(p)
    BY <1>1, OperandIs DEF mkdir, At, Own, Started, Working, Shape, Place
  <2>2. CASE Makes(p, Operand(p))
    BY <1>0, <2>1, <2>2, MakesEnters
  <2>3. ASSUME NEW errno \in Errnos, Fails(Operand(p), errno),
               proc' = [proc EXCEPT ![p] =
                          [@ EXCEPT !.pc = IF proc[p].parents THEN "stat" ELSE "failed",
                                    !.errno = errno]]
        PROVE  StaysOut(p)
    <3>1. proc'[p].pc \in {"stat", "failed"}
      BY <1>0, <2>3 DEF Types, Processes
    <3> QED
      BY <1>0, <2>3, <3>1, FailsTypes DEF StaysOut, Making
  <2> QED
    BY <1>1, <2>2, <2>3, Zenon DEF mkdir
<1>2. CASE mkdir_prefix(p)
  <2>1. Place(p) \in Paths
    <3>1. proc[p].pc = "prefix" /\ proc[p].pc \in Started
      BY <1>2 DEF mkdir_prefix, At, Started, Working
    <3>2. proc[p].step \in 1 .. Len(Operand(p)) /\ Len(Operand(p)) \in Nat
      BY <3>1, OperandIs, PathUp DEF At, Own, Shape
    <3>3. proc[p].step \in 0 .. Len(Operand(p))
      BY <3>2
    <3> QED
      BY <3>1, <3>3, PlaceIs DEF Own
  <2>2. CASE Makes(p, Place(p))
    BY <1>0, <2>1, <2>2, MakesEnters
  <2>3. ASSUME NEW errno \in Errnos, Fails(Place(p), errno),
               proc' = [proc EXCEPT ![p] = IF errno = "EEXIST" THEN NextPrefix(p, @)
                                           ELSE [@ EXCEPT !.pc = "failed"]]
        PROVE  StaysOut(p)
    <3>1. CASE errno = "EEXIST"
      <4>1. proc'[p].pc \notin Making
        BY <1>0, <2>3, <3>1, TurnTypes, TurnsOut, OneMoves
      <4> QED
        BY <1>0, <2>3, <4>1, FailsTypes DEF StaysOut
    <3>2. CASE errno # "EEXIST"
      <4>1. Moves(p, "failed")
        BY <2>3, <3>2 DEF Moves
      <4>2. proc'[p].pc = "failed"
        BY <4>1, MoveIs
      <4> QED
        BY <1>0, <2>3, <4>2, FailsTypes DEF StaysOut, Making
    <3> QED
      BY <3>1, <3>2
  <2> QED
    BY <1>2, <2>2, <2>3, Zenon DEF mkdir_prefix
<1> QED
  BY <1>1, <1>2

\* The ACL is opened, which empties it, or its writer is done with it.
LEMMA AclStepSorts ==
  ASSUME Types, NEW p \in Procs, Own(p), Filling(p),
         open_acl(p) \/ open_fails(p) \/ fill_acl(p)
  PROVE  Opens(p) \/ Leaves(p)
<1>0. proc[p] \in Processes /\ proc[p].pc \in Making
  BY DEF Types, open_acl, open_fails, fill_acl, At, Making
<1>1. CASE open_acl(p)
  BY <1>0, <1>1, MoveIs DEF open_acl, Opens
<1>2. CASE open_fails(p) \/ fill_acl(p)
  <2>1. proc'[p].pc \notin Making
    <3>1. proc' = [proc EXCEPT ![p] = NextPrefix(p, proc[p])]
      BY <1>2 DEF open_fails, fill_acl
    <3>2. NextPrefix(p, proc[p]) \in Processes
      BY <1>0, TurnTypes
    <3>3. proc'[p] = NextPrefix(p, proc[p])
      BY <3>1, <3>2, OneMoves
    <3> QED
      BY <1>0, <3>3, TurnsOut
  <2>2. CASE open_fails(p)
    BY <1>0, <2>1, <2>2, FaultTypes DEF open_fails, Leaves
  <2>3. CASE fill_acl(p)
    BY <1>0, <2>1, <2>3 DEF fill_acl, Leaves, Filling
  <2> QED
    BY <1>2, <2>2, <2>3
<1> QED
  BY <1>1, <1>2

\* Whatever a tool does is of one of the four sorts.
LEMMA WorkSorts ==
  ASSUME Types, NEW p \in Procs, Own(p), Filling(p), Works(p)
  PROVE  StaysOut(p) \/ Enters(p) \/ Opens(p) \/ Leaves(p)
<1>1. CASE kill(p)
  <2>1. /\ proc'[p].pc = "killed" /\ faults' > 0
        /\ acl' = acl /\ filling' = filling /\ made' = made
    BY <1>1, MoveIs, FaultTypes DEF kill
  <2> QED
    BY <2>1 DEF StaysOut, Leaves, Making
<1> QED
  BY <1>1, LooksOut, MkdirSorts, AclStepSorts DEF Works

\* Who writes an ACL writes that of a directory that is there.
LEMMA MakerPlace ==
  ASSUME Types, NEW p \in Procs, Own(p), proc[p].pc \in Making
  PROVE  Place(p) \in Paths /\ kind[Place(p)] # "none"
<1>1. proc[p].pc \in Started /\ proc[p].step \in 0 .. Len(Operand(p))
  BY DEF Own, Shape, Making, Started, Working
<1> QED
  BY <1>1, PlaceIs DEF Own, PrefixesThere

\* One process works: still no two write one ACL, and what was made has an ACL,
\* gets one, or something went wrong.
LEMMA WorkKeepsAcls ==
  ASSUME DInv, NEW p \in Procs, Works(p), Types'
  PROVE  OneMaker' /\ AclFollows' /\ \A q \in Procs : Filling(q)'
<1>1. Types /\ OneMaker /\ AclFollows /\ \A q \in Procs : Own(q) /\ Filling(q)
  BY DEF DInv
<1>2. /\ StaysOut(p) \/ Enters(p) \/ Opens(p) \/ Leaves(p)
      /\ Grows /\ \A q \in Procs \ {p} : proc'[q] = proc[q]
  BY <1>1, WorkSorts, WorkIs
<1>3. \A q \in Procs \ {p} : Place(q)' = Place(q)
  BY <1>2 DEF Place, Operand
<1>4. \A q \in Procs : proc[q].pc \in Making => Place(q) \in Paths /\ kind[Place(q)] # "none"
  BY <1>1, MakerPlace
<1>5. \A q, r \in Procs :
      proc[q].pc \in Making /\ proc[r].pc \in Making /\ Place(q) = Place(r) => q = r
  BY <1>1 DEF OneMaker
<1>6. \A path \in made : \/ acl[path] \notin {NoAcl, <<>>}
                         \/ \E q \in Procs : proc[q].pc \in Making /\ Place(q) = path
                         \/ faults > 0
  BY <1>1 DEF AclFollows, Making
<1>7. \A q \in Procs : proc[q].pc = "fill acl" =>
                        filling[Place(q)] = q \/ acl[Place(q)] \notin {NoAcl, <<>>}
  BY <1>1 DEF Filling, At
<1>8. SUFFICES
        /\ \A q, r \in Procs :
             proc'[q].pc \in Making /\ proc'[r].pc \in Making /\ Place(q)' = Place(r)' => q = r
        /\ \A path \in made' : \/ acl'[path] \notin {NoAcl, <<>>}
                               \/ \E q \in Procs : proc'[q].pc \in Making /\ Place(q)' = path
                               \/ faults' > 0
        /\ \A q \in Procs : proc'[q].pc = "fill acl" =>
              filling'[Place(q)'] = q \/ acl'[Place(q)'] \notin {NoAcl, <<>>}
  BY DEF OneMaker, AclFollows, Filling, At, Making
<1>9. "fill acl" \in Making /\ "open acl" \in Making /\ "open acl" # "fill acl"
  BY DEF Making
<1>10. /\ acl \in [Paths -> Acls \cup {NoAcl}] /\ filling \in [Paths -> Procs \cup {Nobody}]
       /\ made \subseteq Paths /\ (faults > 0 => faults' > 0)
  BY <1>1, <1>2 DEF Types, Grows
<1>11. CASE StaysOut(p)
  <2>1. /\ proc[p].pc \notin Making /\ proc'[p].pc \notin Making
        /\ acl' = acl /\ filling' = filling /\ made' = made
    BY <1>11 DEF StaysOut
  <2>2. \A q, r \in Procs :
        proc'[q].pc \in Making /\ proc'[r].pc \in Making /\ Place(q)' = Place(r)' => q = r
    BY <1>2, <1>3, <1>5, <2>1
  <2>3. ASSUME NEW path \in made
        PROVE  \/ acl'[path] \notin {NoAcl, <<>>}
               \/ \E q \in Procs : proc'[q].pc \in Making /\ Place(q)' = path
               \/ faults' > 0
    BY <1>2, <1>3, <1>6, <1>10, <2>1
  <2>4. ASSUME NEW q \in Procs, proc'[q].pc = "fill acl"
        PROVE  filling'[Place(q)'] = q \/ acl'[Place(q)'] \notin {NoAcl, <<>>}
    <3>1. q # p
      BY <1>9, <2>1, <2>4
    <3> QED
      BY <1>2, <1>3, <1>7, <2>1, <2>4, <3>1
  <2> QED
    BY <2>1, <2>2, <2>3, <2>4
<1>12. CASE Enters(p)
  <2>1. \A q \in Procs \ {p} : proc[q].pc \in Making => Place(q) # Place(p)
    BY <1>4, <1>12 DEF Enters
  <2>2. /\ proc'[p].pc = "open acl" /\ Place(p)' = Place(p) /\ made' = made \cup {Place(p)}
        /\ acl' = acl /\ filling' = filling
    BY <1>12 DEF Enters
  <2>3. \A q, r \in Procs :
        proc'[q].pc \in Making /\ proc'[r].pc \in Making /\ Place(q)' = Place(r)' => q = r
    BY <1>2, <1>3, <1>5, <2>1, <2>2
  <2>4. ASSUME NEW path \in made'
        PROVE  \/ acl'[path] \notin {NoAcl, <<>>}
               \/ \E q \in Procs : proc'[q].pc \in Making /\ Place(q)' = path
               \/ faults' > 0
    <3>1. CASE path = Place(p)
      BY <1>9, <2>2, <3>1
    <3>2. CASE path # Place(p)
      <4>1. path \in made
        BY <2>2, <3>2
      <4>2. CASE \E q \in Procs : proc[q].pc \in Making /\ Place(q) = path
        BY <1>2, <1>3, <3>2, <4>2
      <4> QED
        BY <1>6, <1>10, <2>2, <4>1, <4>2
    <3> QED
      BY <3>1, <3>2
  <2>5. ASSUME NEW q \in Procs, proc'[q].pc = "fill acl"
        PROVE  filling'[Place(q)'] = q \/ acl'[Place(q)'] \notin {NoAcl, <<>>}
    <3>1. q # p
      BY <1>9, <2>2, <2>5
    <3> QED
      BY <1>2, <1>3, <1>7, <2>2, <2>5, <3>1
  <2> QED
    BY <2>3, <2>4, <2>5
<1>13. CASE Opens(p)
  <2>1. \A q \in Procs \ {p} : proc[q].pc \in Making => Place(q) # Place(p)
    BY <1>5, <1>13 DEF Opens
  <2>2. \A path \in Paths \ {Place(p)} : acl'[path] = acl[path] /\ filling'[path] = filling[path]
    BY <1>10, <1>13 DEF Opens
  <2>3. Place(p) \in Paths /\ filling'[Place(p)] = p
    BY <1>4, <1>10, <1>13 DEF Opens
  <2>4. /\ proc[p].pc \in Making /\ proc'[p].pc = "fill acl" /\ Place(p)' = Place(p)
        /\ made' = made
    BY <1>13 DEF Opens
  <2>5. \A q, r \in Procs :
        proc'[q].pc \in Making /\ proc'[r].pc \in Making /\ Place(q)' = Place(r)' => q = r
    BY <1>2, <1>3, <1>5, <2>1, <2>4
  <2>6. ASSUME NEW path \in made
        PROVE  \/ acl'[path] \notin {NoAcl, <<>>}
               \/ \E q \in Procs : proc'[q].pc \in Making /\ Place(q)' = path
               \/ faults' > 0
    <3>1. CASE path = Place(p)
      BY <1>9, <2>4, <3>1
    <3>2. CASE path # Place(p)
      <4>1. acl'[path] = acl[path]
        BY <1>10, <2>2, <3>2
      <4>2. CASE \E q \in Procs : proc[q].pc \in Making /\ Place(q) = path
        BY <1>2, <1>3, <3>2, <4>2
      <4> QED
        BY <1>6, <1>10, <4>1, <4>2
    <3> QED
      BY <3>1, <3>2
  <2>7. ASSUME NEW q \in Procs, proc'[q].pc = "fill acl"
        PROVE  filling'[Place(q)'] = q \/ acl'[Place(q)'] \notin {NoAcl, <<>>}
    <3>1. CASE q = p
      BY <2>3, <2>4, <3>1
    <3>2. CASE q # p
      <4>1. proc[q].pc = "fill acl" /\ proc[q].pc \in Making /\ Place(q)' = Place(q)
        BY <1>2, <1>3, <1>9, <2>7, <3>2
      <4>2. Place(q) \in Paths \ {Place(p)}
        BY <1>4, <2>1, <3>2, <4>1
      <4> QED
        BY <1>7, <2>2, <4>1, <4>2
    <3> QED
      BY <3>1, <3>2
  <2> QED
    BY <2>4, <2>5, <2>6, <2>7
<1>14. CASE Leaves(p)
  <2>1. \A q \in Procs \ {p} : proc[q].pc \in Making => Place(q) # Place(p)
    BY <1>5, <1>14 DEF Leaves
  <2>2. Place(p) \in Paths /\ proc[p].pc \in Making /\ proc'[p].pc \notin Making /\ made' = made
    BY <1>4, <1>14 DEF Leaves
  <2>3. /\ \A path \in Paths \ {Place(p)} :
             acl'[path] = acl[path] /\ filling'[path] = filling[path]
        /\ acl'[Place(p)] \notin {NoAcl, <<>>} \/ faults' > 0
    BY <1>10, <1>14, <2>2, AclTypes DEF Leaves
  <2>4. \A q, r \in Procs :
        proc'[q].pc \in Making /\ proc'[r].pc \in Making /\ Place(q)' = Place(r)' => q = r
    BY <1>2, <1>3, <1>5, <2>2
  <2>5. ASSUME NEW path \in made
        PROVE  \/ acl'[path] \notin {NoAcl, <<>>}
               \/ \E q \in Procs : proc'[q].pc \in Making /\ Place(q)' = path
               \/ faults' > 0
    <3>1. CASE path = Place(p)
      BY <2>3, <3>1
    <3>2. CASE path # Place(p)
      <4>1. acl'[path] = acl[path]
        BY <1>10, <2>3, <3>2
      <4>2. CASE \E q \in Procs : proc[q].pc \in Making /\ Place(q) = path
        BY <1>2, <1>3, <3>2, <4>2
      <4> QED
        BY <1>6, <1>10, <4>1, <4>2
    <3> QED
      BY <3>1, <3>2
  <2>6. ASSUME NEW q \in Procs, proc'[q].pc = "fill acl"
        PROVE  filling'[Place(q)'] = q \/ acl'[Place(q)'] \notin {NoAcl, <<>>}
    <3>1. q # p
      BY <1>9, <2>2, <2>6
    <3>2. proc[q].pc = "fill acl" /\ proc[q].pc \in Making /\ Place(q)' = Place(q)
      BY <1>2, <1>3, <1>9, <2>6, <3>1
    <3>3. Place(q) \in Paths \ {Place(p)}
      BY <1>4, <2>1, <3>1, <3>2
    <3> QED
      BY <1>7, <2>3, <3>2, <3>3
  <2> QED
    BY <2>2, <2>4, <2>5, <2>6
<1> QED
  BY <1>2, <1>11, <1>12, <1>13, <1>14

\* The invariant after each action: of a tool, ...
LEMMA WorkKeeps ==
  ASSUME DInv, NEW p \in Procs, Works(p)
  PROVE  DInv'
<1>1. Types /\ \A q \in Procs : Own(q) /\ Counted(q) /\ Filling(q)
  BY DEF DInv
<1>2. Types'
  BY <1>1, WorkTypes
<1>3. /\ Grows /\ \A q \in Procs : granted[q] \subseteq granted'[q]
      /\ \A q \in Procs \ {p} : proc'[q] = proc[q]
      /\ proc[p].pc # "idle" /\ proc'[p].user = proc[p].user
      /\ acl' = acl \/ \A q \in Procs : Given(acl', proc[q].user) \subseteq granted'[q]
  BY <1>1, WorkIs
<1>4. Own(p)'
  BY <1>1, ToolOwn, OperandOwn, AskOwn, MkdirOwn, StatOwn, PrefixOwn, AclStepOwn, KillOwn
     DEF Works
<1>5. \A q \in Procs \ {p} : Own(q)'
  BY <1>1, <1>2, <1>3, OthersKeepOwn
<1>6. \A q \in Procs : Counted(q)'
  <2> SUFFICES ASSUME NEW q \in Procs, proc'[q].pc # "idle"
               PROVE  Given(acl', proc'[q].user) \subseteq granted'[q]
    BY DEF Counted, At, Given, Allows
  <2>1. proc'[q].user = proc[q].user /\ proc[q].pc # "idle"
    BY <1>3
  <2>2. Given(acl, proc[q].user) \subseteq granted[q]
    BY <1>1, <2>1 DEF Counted, At
  <2> QED
    BY <1>3, <2>1, <2>2
<1>7. OneMaker' /\ AclFollows' /\ \A q \in Procs : Filling(q)'
  BY <1>2, WorkKeepsAcls
<1> QED
  BY <1>2, <1>4, <1>5, <1>6, <1>7 DEF DInv

\* ... the start of one, ...
LEMMA StartKeeps ==
  ASSUME DInv, NEW p \in Procs, start(p)
  PROVE  DInv'
<1>1. Types /\ OneMaker /\ AclFollows /\ \A q \in Procs : Own(q) /\ Counted(q) /\ Filling(q)
  BY DEF DInv
<1>2. PICK user \in Names, tool \in {"create_dir", "cd", "ls"}, su \in BOOLEAN,
           parents \in BOOLEAN, ops \in Operands :
        /\ proc' = [proc EXCEPT ![p] = Begun(user, tool, su, parents, ops)]
        /\ granted' = [granted EXCEPT ![p] = Given(acl, user)]
  BY StartIs
<1>3. /\ proc'[p] = Begun(user, tool, su, parents, ops)
      /\ \A q \in Procs \ {p} : proc'[q] = proc[q]
      /\ granted'[p] = Given(acl, user) /\ \A q \in Procs \ {p} : granted'[q] = granted[q]
  BY <1>1, <1>2, BegunTypes, OneMoves DEF Types
<1>4. proc'[p].user = user /\ proc'[p].pc \notin Making
  BY <1>3 DEF Begun, Idle, Making
<1>5. /\ kind' = kind /\ acl' = acl /\ filling' = filling /\ faults' = faults /\ made' = made
      /\ proc[p].pc \notin Making
  BY DEF start, Making
<1>6. Types' /\ Own(p)'
  BY <1>1, StartTypes, StartOwn
<1>7. \A q \in Procs \ {p} : Own(q)'
  BY <1>1, <1>3, <1>5, <1>6, OthersKeepOwn DEF Grows
<1>8. \A q \in Procs : Counted(q)'
  <2>1. Counted(p)'
    BY <1>3, <1>4, <1>5 DEF Counted, Given, Allows
  <2>2. ASSUME NEW q \in Procs \ {p} PROVE Counted(q)'
    BY <1>1, <1>3, <1>5, <2>2 DEF Counted, At, Given, Allows
  <2> QED
    BY <2>1, <2>2
<1>9. \A q \in Procs \ {p} : Place(q)' = Place(q)
  BY <1>3 DEF Place, Operand
<1>10. OneMaker'
  BY <1>1, <1>3, <1>4, <1>9 DEF OneMaker
<1>11. \A q \in Procs : Filling(q)'
  <2>1. Filling(p)'
    BY <1>4 DEF Filling, At, Making
  <2>2. \A q \in Procs \ {p} : Filling(q)'
    BY <1>1, <1>3, <1>5, <1>9 DEF Filling, At
  <2> QED
    BY <2>1, <2>2
<1>12. AclFollows'
  BY <1>1, <1>3, <1>5, <1>9 DEF AclFollows, Making
<1> QED
  BY <1>6, <1>7, <1>8, <1>10, <1>11, <1>12 DEF DInv

\* ... files put and ACLs set by others, ...
LEMMA OutsideKeeps ==
  ASSUME DInv, NEW path \in Paths, put_file(path) \/ set_acl(path)
  PROVE  DInv'
<1>1. Types /\ OneMaker /\ AclFollows /\ \A q \in Procs : Own(q) /\ Counted(q) /\ Filling(q)
  BY DEF DInv
<1>2. Types' /\ proc' = proc /\ made' = made /\ faults' = faults
  BY <1>1, OutsideTypes DEF put_file, set_acl
<1>3. Grows /\ \A q \in Procs : granted[q] \subseteq granted'[q]
  <2>1. CASE put_file(path)
    <3>1. kind[path] = "none" /\ granted' = granted
      BY <2>1 DEF put_file, StatErrno
    <3> QED
      BY <1>1, <2>1, <3>1 DEF put_file, Grows, Types
  <2>2. CASE set_acl(path)
    BY <1>1, <2>2, WitnessGrows DEF set_acl, Grows
  <2> QED
    BY <2>1, <2>2
<1>4. \A q \in Procs : Own(q)'
  BY <1>1, <1>2, <1>3, OthersKeepOwn
<1>5. \A q \in Procs : Place(q)' = Place(q)
  BY <1>2 DEF Place, Operand
<1>6. OneMaker'
  BY <1>1, <1>2, <1>5 DEF OneMaker
<1>7. CASE put_file(path)
  <2>1. acl' = acl /\ filling' = filling /\ granted' = granted
    BY <1>7 DEF put_file
  <2>2. AclFollows'
    BY <1>1, <1>2, <1>5, <2>1 DEF AclFollows
  <2>3. \A q \in Procs : Filling(q)'
    BY <1>1, <1>2, <1>5, <2>1 DEF Filling, At
  <2>4. \A q \in Procs : Counted(q)'
    BY <1>1, <1>2, <2>1 DEF Counted, At, Given, Allows
  <2> QED
    BY <1>2, <1>4, <1>6, <2>2, <2>3, <2>4 DEF DInv
<1>8. CASE set_acl(path)
  <2>1. /\ acl'[path] \notin {NoAcl, <<>>}
        /\ \A other \in Paths \ {path} : acl'[other] = acl[other] /\ filling'[other] = filling[other]
    BY <1>1, <1>8, AclTypes DEF set_acl, Types
  <2>2. AclFollows'
    <3>1. made \subseteq Paths
      BY <1>1 DEF Types
    <3> QED
      BY <1>1, <1>2, <1>5, <2>1, <3>1 DEF AclFollows
  <2>3. \A q \in Procs : Filling(q)'
    <3> SUFFICES ASSUME NEW q \in Procs, proc[q].pc = "fill acl"
                 PROVE  filling'[Place(q)] = q \/ acl'[Place(q)] \notin {NoAcl, <<>>}
      BY <1>2, <1>5 DEF Filling, At
    <3>1. Place(q) \in Paths
      BY <1>1, MakerPlace DEF Making
    <3>2. filling[Place(q)] = q \/ acl[Place(q)] \notin {NoAcl, <<>>}
      BY <1>1 DEF Filling, At
    <3> QED
      BY <2>1, <3>1, <3>2
  <2>4. \A q \in Procs : Counted(q)'
    BY <1>1, <1>2, <1>8, WitnessGrows DEF set_acl, Counted, Given, Allows
  <2> QED
    BY <1>2, <1>4, <1>6, <2>2, <2>3, <2>4 DEF DInv
<1> QED
  BY <1>7, <1>8

\* ... and none at all.
LEMMA StutterKeeps ==
  ASSUME DInv, UNCHANGED vars
  PROVE  DInv'
<1>1. /\ proc' = proc /\ kind' = kind /\ acl' = acl /\ filling' = filling /\ runs' = runs
      /\ changes' = changes /\ faults' = faults /\ made' = made /\ granted' = granted
  BY DEF vars
<1>2. Types /\ OneMaker /\ AclFollows /\ \A q \in Procs : Own(q) /\ Counted(q) /\ Filling(q)
  BY DEF DInv
<1>3. Types'
  BY <1>1, <1>2 DEF Types
<1>4. \A q \in Procs : Own(q)'
  BY <1>1, <1>2, <1>3, OthersKeepOwn DEF Grows
<1>5. \A q \in Procs : Place(q)' = Place(q)
  BY <1>1 DEF Place, Operand
<1>6. \A q \in Procs : Counted(q)' /\ Filling(q)'
  BY <1>1, <1>2, <1>5 DEF Counted, Filling, At, Given, Allows
<1>7. OneMaker' /\ AclFollows'
  BY <1>1, <1>2, <1>5 DEF OneMaker, AclFollows
<1> QED
  BY <1>3, <1>4, <1>6, <1>7 DEF DInv

\* The invariant holds at first, ...
LEMMA InitInv == Init => DInv
<1> SUFFICES ASSUME Init PROVE DInv
  OBVIOUS
<1>1. Types
  <2>1. proc \in [Procs -> Processes]
    BY IdleTypes DEF Init
  <2>2. kind \in [Paths -> {"none", "dir", "file"}] /\ acl \in [Paths -> Acls \cup {NoAcl}]
    BY AclTypes DEF Init
  <2>3. 0 \in 0 .. MaxRuns /\ 0 \in 0 .. MaxChanges /\ 0 \in 0 .. MaxFaults
    BY DirectoriesAssumption
  <2> QED
    BY <2>1, <2>2, <2>3 DEF Init, Types
<1>2. ASSUME NEW p \in Procs
      PROVE  /\ proc[p].pc = "idle" /\ proc[p].operands = <<>> /\ proc[p].index = 1
             /\ proc[p].tool = "none"
  BY DEF Init, Idle
<1>3. ASSUME NEW p \in Procs PROVE Own(p) /\ Counted(p) /\ Filling(p)
  <2>1. Shape(p)
    <3>1. proc[p].index > 0
      BY <1>2
    <3> QED
      BY <1>2, <3>1 DEF Shape, At, Making, Working
  <2>2. /\ ErrnoTells(p) /\ PrefixesThere(p) /\ AskedSoFar(p) /\ Harmless(p) /\ Passed(p)
        /\ ByRight(p)
    BY <1>2 DEF ErrnoTells, PrefixesThere, AskedSoFar, Harmless, Passed, ByRight, At, Making
  <2> QED
    BY <1>2, <2>1, <2>2 DEF Own, Counted, Filling, At
<1>4. OneMaker
  BY <1>2 DEF OneMaker, Making
<1>5. AclFollows
  BY DEF Init, AclFollows
<1> QED
  BY <1>1, <1>3, <1>4, <1>5 DEF DInv

\* ... every step keeps it, ...
LEMMA NextInv == DInv /\ [Next]_vars => DInv'
<1> SUFFICES ASSUME DInv, [Next]_vars PROVE DInv'
  OBVIOUS
<1>1. CASE UNCHANGED vars
  BY <1>1, StutterKeeps
<1>2. ASSUME NEW p \in Procs, Works(p) PROVE DInv'
  BY <1>2, WorkKeeps
<1>3. ASSUME NEW p \in Procs, start(p) PROVE DInv'
  BY <1>3, StartKeeps
<1>4. ASSUME NEW path \in Paths, put_file(path) \/ set_acl(path) PROVE DInv'
  BY <1>4, OutsideKeeps
<1> QED
  BY <1>1, <1>2, <1>3, <1>4 DEF Next, Works
-----------------------------------------------------------------------------
(* The theorems.                                                           *)

\* ... so that it holds always.
LEMMA Always == Spec => []DInv
BY InitInv, NextInv, PTL DEF Spec

\* The types: a tool at work is at one of its operands, and makes no prefix
\* longer than that.
THEOREM TypesKept == Spec => []TypeOK
<1>1. DInv => TypeOK
  <2> SUFFICES ASSUME DInv PROVE TypeOK
    OBVIOUS
  <2>1. Types /\ \A p \in Procs : Own(p)
    BY DEF DInv
  <2>2. ASSUME NEW p \in Procs, proc[p].pc \in Working
        PROVE  /\ proc[p].index \in DOMAIN proc[p].operands
               /\ proc[p].step \in 0 .. Len(Operand(p))
               /\ At(p, "ask") => proc[p].at \in Paths
    <3>1. proc[p].pc \in Started
      BY <2>2 DEF Started
    <3>2. /\ proc[p].index \in DOMAIN proc[p].operands /\ Operand(p) \in Paths
          /\ Len(Operand(p)) \in Nat \ {0}
          /\ \A n \in 1 .. Len(Operand(p)) : Up(Operand(p), n) \in Paths
      BY <2>1, <3>1, OperandIs, PathUp DEF Own
    <3>3. proc[p].step \in 0 .. Len(Operand(p))
      <4>1. CASE proc[p].pc \in {"ask", "chdir", "mkdir", "stat"}
        <5>1. proc[p].step = 0
          BY <2>1, <4>1 DEF Own, Shape
        <5> QED
          BY <3>2, <5>1
      <4>2. CASE proc[p].pc = "prefix"
        <5>1. proc[p].step \in 1 .. Len(Operand(p))
          BY <2>1, <4>2 DEF Own, Shape, At
        <5> QED
          BY <3>2, <5>1
      <4>3. CASE proc[p].pc \in Making
        BY <2>1, <4>3 DEF Own, Shape
      <4> QED
        BY <2>2, <4>1, <4>2, <4>3 DEF Working, Making
    <3>4. At(p, "ask") => proc[p].at \in Paths
      BY <2>1, <3>2 DEF Own, AskedSoFar
    <3> QED
      BY <3>2, <3>3, <3>4
  <2> QED
    BY <2>1, <2>2 DEF Types, TypeOK
<1> QED
  BY <1>1, Always, PTL

\* create_dir -p is not made to fail by another create_dir on the same path.
THEOREM OverlapDoesNoHarm == Spec => []OverlapHarmless
<1>1. DInv => OverlapHarmless
  BY DEF DInv, Own, Harmless, OverlapHarmless
<1> QED
  BY <1>1, Always, PTL

\* What create_dir has passed over without a word is there.
THEOREM PassedStays == Spec => []PassedIsThere
<1>1. DInv => PassedIsThere
  BY DEF DInv, Own, Passed, PassedIsThere
<1> QED
  BY <1>1, Always, PTL

\* A directory that was made has an ACL, gets one, or something went wrong.
THEOREM MadeHasAcl == Spec => []AclFollows
<1>1. DInv => AclFollows
  BY DEF DInv
<1> QED
  BY <1>1, Always, PTL

\* A directory is made for one whom every directory above let through.
THEOREM MadeAsAllowed == Spec => []MadeByRight
<1>1. DInv => MadeByRight
  BY DEF DInv, Own, ByRight, MadeByRight
<1> QED
  BY <1>1, Always, PTL
=============================================================================
