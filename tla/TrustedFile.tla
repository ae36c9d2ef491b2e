------------------------------ MODULE TrustedFile ------------------------------
(***************************************************************************)
(* How a declaration is read that others must not be able to change:        *)
(* TrustedFile::open (plasmosome-core/src/operator/trusted.rs) over the     *)
(* walk of plasmosome-core/src/nofollow.rs, for a path /d/f.  The walk      *)
(* opens one component at a time in the directory it holds, follows no      *)
(* link, and judges each by the descriptor it opened.  Between any two of   *)
(* its system calls another user changes what the modes let it change, and  *)
(* the owner may put a new version in place with a rename.                  *)
(*                                                                          *)
(* This is the Linux build, without ACLs.  A mode is whether group or other *)
(* may write.  Directories have one name each, d in the root, f elsewhere.  *)
(***************************************************************************)
EXTENDS Naturals, FiniteSets

CONSTANTS Euid, Root, Other,        \* the users
          Slash, D, E,              \* directories: the root, the operator's, the other user's
          F, G, New, Link,          \* files, the owner's new version, and a symlink
          Absent

Directories == {Slash, D, E}
Nodes == {Slash, D, E, F, G, New, Link}

ASSUME TrustAssumption ==
    LET all == <<Slash, D, E, F, G, New, Link, Absent>>
        users == <<Euid, Root, Other>>
    IN /\ \A i, j \in 1..8 : all[i] = all[j] => i = j
       /\ \A i, j \in 1..3 : users[i] = users[j] => i = j

VARIABLES
    node,       \* what each inode is
    child,      \* what the one name in each directory names
    walk,       \* the open: its step, the descriptor it holds, the facts it took, its result
    versions,   \* ghost: what the path named at the start, and what the owner put there since
    start,      \* ghost: the tree as the walk began, Absent once anything changed
    updated     \* bound: the owner replaces the file once

trustVars == <<node, child, walk, versions, start, updated>>

Inode(kind, uid, writable, bytes) == [kind |-> kind, uid |-> uid, writable |-> writable, bytes |-> bytes]

(* What differs between the trees: the modes of the root and of d, who owns *)
(* d and f, what f is and what the names name.                              *)
Shapes ==
    [top : BOOLEAN, du : {Euid, Root, Other}, dw : BOOLEAN, kind : {"Regular", "Other"},
     fu : {Euid, Other}, fw : BOOLEAN, bytes : {"old", "huge"},
     d : {D, F, Link, Absent}, f : {F, Link, Absent}, e : {F, G}]

Tree(s) ==
    [node |-> [n \in Nodes |->
                 CASE n = Slash -> Inode("Directory", Root, s.top, "none")
                   [] n = D -> Inode("Directory", s.du, s.dw, "none")
                   [] n = E -> Inode("Directory", Other, TRUE, "none")
                   [] n = F -> Inode(s.kind, s.fu, s.fw, s.bytes)
                   [] n = G -> Inode("Regular", Euid, FALSE, "theirs")
                   [] n = New -> Inode("Regular", Euid, FALSE, "new")
                   [] n = Link -> Inode("Symlink", Other, TRUE, "none")],
     child |-> [dir \in Directories |-> CASE dir = Slash -> s.d [] dir = D -> s.f [] dir = E -> s.e]]

Trees == {Tree(s) : s \in Shapes}

Named(tree) == IF tree.child[Slash] \in {D, E} THEN tree.child[tree.child[Slash]] ELSE Absent

NoWalk == [step |-> "start", fd |-> Slash, facts |-> Absent, holder |-> Absent, result |-> Absent]

Unopened(tree) ==
    /\ node = tree.node /\ child = tree.child /\ start = tree
    /\ walk = NoWalk
    /\ versions = IF Named(tree) = Absent THEN {} ELSE {tree.node[Named(tree)].bytes}
    /\ updated = FALSE

TrustInit == \E tree \in Trees : Unopened(tree)

----------------------------------------------------------------------------
(* Walk::reach                                                              *)

world == <<node, child, versions, start, updated>>

Refuse(check) == walk' = [walk EXCEPT !.step = "done", !.result = [refused |-> check]]

stat_fd(fd) == node[fd]

(* Mutant: a directory that others can write is passed.                     *)
judge_ancestor_AnyMode(facts) == facts.kind = "Directory" /\ facts.uid \in {Root, Euid}

judge_ancestor(facts) ==
    /\ facts.kind = "Directory"
    /\ facts.uid \in {Root, Euid}
    /\ ~facts.writable

(* The descriptor that is held is stat'ed.                                  *)
StatDirectory ==
    /\ walk.step \in {"start", "opened"}
    /\ walk' = [walk EXCEPT !.step = IF @ = "start" THEN "top" ELSE "holder", !.facts = stat_fd(walk.fd)]
    /\ UNCHANGED world

Kind(name) == IF name = Absent THEN "Missing" ELSE node[name].kind

(* pass and open_child: the root, then d.                                   *)
PassAndOpenChild ==
    /\ walk.step = "top"
    /\ LET next == child[Slash] IN
       IF ~judge_ancestor(walk.facts) THEN Refuse("ancestor")
       ELSE IF Kind(next) \in {"Missing", "Symlink"} THEN Refuse("path")
       ELSE IF Kind(next) # "Directory" THEN Refuse("ancestor")
       ELSE walk' = [walk EXCEPT !.step = "opened", !.fd = next]
    /\ UNCHANGED world

(* pass and open_file_at, in the directory that is held.                    *)
PassAndOpenFile ==
    /\ walk.step = "holder"
    /\ LET next == child[walk.fd] IN
       IF ~judge_ancestor(walk.facts) THEN Refuse("ancestor")
       ELSE IF Kind(next) \in {"Missing", "Symlink"} THEN Refuse("path")
       ELSE walk' = [walk EXCEPT !.step = "file", !.fd = next, !.holder = walk.facts]
    /\ UNCHANGED world

(* judge_file, from fstat on the descriptor.                                *)
JudgeFile ==
    /\ walk.step = "file"
    /\ LET facts == stat_fd(walk.fd) IN
       IF walk.holder.uid # Euid THEN Refuse("parent")
       ELSE IF facts.kind # "Regular" THEN Refuse("not_regular")
       ELSE IF facts.uid # Euid THEN Refuse("owner")
       ELSE walk' = [walk EXCEPT !.step = "judged"]
    /\ UNCHANGED world

nlink(file) == Cardinality({dir \in Directories : child[dir] = file})

(* Mutant: the file's mode is not looked at.                                *)
read_checked_AnyMode(facts, links) == IF links # 1 THEN "links" ELSE "ok"

(* read_checked, up to the read.                                            *)
read_checked(facts, links) ==
    IF links # 1 THEN "links" ELSE IF facts.writable THEN "mode" ELSE "ok"

CheckFile ==
    /\ walk.step = "judged"
    /\ LET verdict == read_checked(stat_fd(walk.fd), nlink(walk.fd)) IN
       IF verdict = "ok" THEN walk' = [walk EXCEPT !.step = "checked"] ELSE Refuse(verdict)
    /\ UNCHANGED world

(* read_bounded                                                             *)
ReadFile ==
    /\ walk.step = "checked"
    /\ IF node[walk.fd].bytes = "huge" THEN Refuse("size")
       ELSE walk' = [walk EXCEPT !.step = "done", !.result = [bytes |-> node[walk.fd].bytes]]
    /\ UNCHANGED world

----------------------------------------------------------------------------
(* The others                                                               *)

Changed == start' = Absent /\ UNCHANGED walk /\ walk.step # "done"

MayWrite(i) == node[i].uid = Other \/ node[i].writable

(* A name in a directory that the other user can write is linked, renamed   *)
(* or removed.                                                              *)
Relink(dir) ==
    /\ MayWrite(dir) /\ Changed
    /\ \E n \in (IF dir = Slash THEN {D, E, Link, Absent} ELSE {F, G, Link, Absent}) \ {child[dir]} :
          child' = [child EXCEPT ![dir] = n]
    /\ UNCHANGED <<node, versions, updated>>

Scribble(file) ==
    /\ MayWrite(file) /\ Changed
    /\ node' = [node EXCEPT ![file].bytes = "theirs"]
    /\ UNCHANGED <<child, versions, updated>>

Chmod(i) ==
    /\ node[i].uid = Other /\ Changed
    /\ node' = [node EXCEPT ![i].writable = ~@]
    /\ UNCHANGED <<child, versions, updated>>

(* The owner renames a new version over the file.                           *)
Update ==
    /\ ~updated /\ Changed
    /\ child[Slash] = D
    /\ child' = [child EXCEPT ![D] = New]
    /\ versions' = versions \cup {node[New].bytes}
    /\ updated' = TRUE
    /\ UNCHANGED node

TrustNext ==
    \/ StatDirectory \/ PassAndOpenChild \/ PassAndOpenFile \/ JudgeFile \/ CheckFile \/ ReadFile
    \/ \E dir \in Directories : Relink(dir)
    \/ \E file \in {F, G, New} : Scribble(file)
    \/ \E i \in {D, F} : Chmod(i)
    \/ Update

TrustSpec == TrustInit /\ [][TrustNext]_trustVars

----------------------------------------------------------------------------
(* Properties                                                               *)

Trustworthy(tree) ==
    LET safe(dir) == tree.node[dir].uid \in {Root, Euid} /\ ~tree.node[dir].writable
        file == Named(tree)
    IN /\ safe(Slash) /\ tree.child[Slash] = D /\ safe(D) /\ tree.node[D].uid = Euid
       /\ file # Absent
       /\ tree.node[file] \in {Inode("Regular", Euid, FALSE, b) : b \in {"old", "new", "theirs"}}
       /\ Cardinality({dir \in Directories : tree.child[dir] = file}) = 1

(* Whatever another user does between the walk's steps, what is read is     *)
(* what the path held as the walk began or the owner's new version; and     *)
(* where nobody interferes, a file is read exactly when its path and it     *)
(* meet the rules.                                                          *)
ReadIsTrusted ==
    walk.step = "done" =>
        /\ "bytes" \in DOMAIN walk.result => walk.result.bytes \in versions
        /\ start # Absent => ("bytes" \in DOMAIN walk.result <=> Trustworthy(start))
=============================================================================
