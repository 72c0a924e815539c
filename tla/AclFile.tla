------------------------------- MODULE AclFile -------------------------------
(***************************************************************************)
(* An ACL file of Assignment1 as the sequence of its lines, what utils.c   *)
(* reads in it (checkPermFromAcl) and what it writes (setPermInAcl,        *)
(* createAclFromStat), and what the chat server of Assignment2 reads       *)
(* (acl_allows_read).  A line is what strtok makes of it.                  *)
(***************************************************************************)
EXTENDS Integers, Sequences

CONSTANTS Names, Perms

\* "other" is default:other, "default" the other two; valid: it has a name and
\* three permission characters or more; a line without a name counts as one of
\* a name nobody has
Lines == [kind : {"user", "default", "other"}, name : Names, mode : SUBSET Perms,
          valid : BOOLEAN]

Acls == Seq(Lines)

Entry(u, m) == [kind |-> "user", name |-> u, mode |-> m, valid |-> TRUE]

\* createAclFromStat of a file of u: three lines the tools pass over, and u's
FreshAcl(u, m) ==
  LET default(k) == [kind |-> k, name |-> u, mode |-> m, valid |-> TRUE]
  IN  <<default("default"), default("default"), default("other"), Entry(u, m)>>

\* line_has_perm returns -1, which denies at once; a line of another kind is
\* passed over whatever it says
Malformed(line) == line.kind = "user" /\ ~line.valid

\* line_has_perm returns 1
Grants(line, u, p) == line.kind = "user" /\ line.valid /\ line.name = u /\ p \in line.mode

\* the loop of checkPermFromAcl: the first line that grants, unless a
\* malformed one comes before it
HasPerm(acl, u, p) ==
  \E i \in DOMAIN acl : /\ Grants(acl[i], u, p)
                        /\ \A j \in DOMAIN acl : j < i => ~Malformed(acl[j])

\* A faulty server: another user's entry ends its search.
OtherUserEnds(acl, u) ==
  \E i \in DOMAIN acl : /\ "r" \in acl[i].mode
                        /\ \/ acl[i].kind = "user" /\ acl[i].name = u
                           \/ acl[i].kind = "other"
                        /\ \A j \in 1 .. i : acl[j].kind = "user" => acl[j].name = u

\* The server looks for three parts and an 'r' in the last, no more, passes over
\* what has fewer parts, and honours default:other.
acl_allows_read(acl, u) ==
  \E i \in DOMAIN acl : /\ "r" \in acl[i].mode
                        /\ \/ acl[i].kind = "user" /\ acl[i].name = u
                           \/ acl[i].kind = "other"

\* setPermInAcl does not look at the mode it replaces
IsEntryOf(line, u) == line.kind = "user" /\ line.name = u

\* Faulty updates: a second line for the same user; permissions added only.
AlwaysAppends(acl, u, m) == Append(acl, Entry(u, m))
NeverTakesAway(acl, u, m) ==
  IF \E i \in DOMAIN acl : IsEntryOf(acl[i], u)
  THEN [i \in DOMAIN acl |-> IF IsEntryOf(acl[i], u) THEN Entry(u, acl[i].mode \cup m)
                                                    ELSE acl[i]]
  ELSE Append(acl, Entry(u, m))

\* what setPermInAcl writes: every entry of u replaced, or one at the end
SetPerm(acl, u, m) ==
  LET copy == [i \in DOMAIN acl |-> IF IsEntryOf(acl[i], u) THEN Entry(u, m)
                                                            ELSE acl[i]]
  IN  IF \E i \in DOMAIN acl : IsEntryOf(acl[i], u) THEN copy
      ELSE Append(copy, Entry(u, m))
-----------------------------------------------------------------------------
\* no malformed line, but for such as are the entry of u
SoundBut(acl, u) == \A i \in DOMAIN acl : Malformed(acl[i]) => IsEntryOf(acl[i], u)

Sound(acl) == \A i \in DOMAIN acl : ~Malformed(acl[i])

OneEntry(acl) == \A i, j \in DOMAIN acl :
                   /\ acl[i].kind = "user" /\ acl[j].kind = "user"
                   /\ acl[i].name = acl[j].name
                   => i = j
=============================================================================
