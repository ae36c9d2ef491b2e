------------------------------ MODULE SoftwarePin ------------------------------
(***************************************************************************)
(* Pinning a software tree: pin (plasmosome-backend/src/software.rs).  A    *)
(* package lists files; the tree at a root is walked once, each file is     *)
(* opened without following a link, checked and hashed through the          *)
(* descriptor, and the tree must hold the listed files and nothing else.    *)
(* Directories are opened and then listed by path, files opened by path, so *)
(* whoever can write to the tree may swap any of it in between.             *)
(*                                                                          *)
(* no_follow_any is the build: on macOS an open refuses a link in any component of    *)
(* its path, elsewhere only in the last one.  A path is its components      *)
(* below the root.  Beside the tree stands another, outside, which the      *)
(* links that are swapped in point into.  A file's content is a size and    *)
(* bytes; a digest is the bytes.                                            *)
(***************************************************************************)
EXTENDS Naturals, Sequences, FiniteSets

CONSTANT MaxSwaps       \* bound: changes to the trees while pin runs

ASSUME PinAssumption == MaxSwaps \in Nat

TreeNames == {"a", "b", "d", "u"}
InsideNodes == {"R", "D", "A", "B", "U"}
OutsideNodes == {"X", "XD", "XA", "XB"}
TreeDirs == {"R", "D", "X", "XD"}
TreeFiles == {"A", "B", "U", "XA", "XB"}

(* A link's target; "L" with a node's name is the link to it.               *)
Target == [l \in {"LX", "LXD", "LXA", "LXB"} |->
             CASE l = "LX" -> "X" [] l = "LXD" -> "XD" [] l = "LXA" -> "XA" [] l = "LXB" -> "XB"]

VARIABLES
    no_follow_any,        \* the build's NO_LINKS covers every component
    listing,    \* the package: a sequence of paths, each with its size and bytes
    top,        \* what the root's path names
    inside,     \* what each name in each directory names
    content,    \* what each file holds
    pinner,     \* the call: its step, what is left to visit, what it holds and has pinned
    swaps,      \* bound
    touched     \* ghost: every file that was opened

pinVars == <<no_follow_any, listing, top, inside, content, pinner, swaps, touched>>
ground == <<no_follow_any, listing, top, inside, content, swaps>>

Listed(path) == [path |-> path, size |-> 1, bytes |-> IF path = <<"a">> THEN "A" ELSE "B"]

Listings ==
    {<<Listed(<<"a">>), Listed(<<"d", "b">>)>>,
     <<Listed(<<"a">>), Listed(<<"A">>)>>,
     <<Listed(<<"d">>), Listed(<<"d", "b">>)>>,
     <<Listed(<<"D", "b">>), Listed(<<"d">>)>>,
     <<Listed(<<"..">>)>>}

Unpinned(any, list, bytes, extra) ==
    /\ no_follow_any = any /\ listing = list
    /\ top = "R"
    /\ inside = [dir \in TreeDirs |-> [name \in TreeNames |->
                   CASE dir = "R" /\ name = "a" -> "A"
                     [] dir = "R" /\ name = "d" -> "D"
                     [] dir = "D" /\ name = "b" -> "B"
                     [] dir = "D" /\ name = "u" -> extra
                     [] dir = "X" /\ name = "a" -> "XA"
                     [] dir = "X" /\ name = "d" -> "XD"
                     [] dir = "XD" /\ name = "b" -> "XB"
                     [] OTHER -> "none"]]
    /\ content = [f \in TreeFiles |->
                    [size |-> 1, bytes |-> CASE f = "A" -> "A" [] f = "B" -> "B" [] f = "XB" -> bytes [] OTHER -> "x"]]
    /\ pinner = [step |-> "listing", todo |-> <<>>, held |-> "none", files |-> {}, result |-> "none"]
    /\ swaps = 0 /\ touched = {}

PinInit == \E any \in BOOLEAN, list \in Listings, bytes \in {"B", "x"}, extra \in {"U", "none"} :
               Unpinned(any, list, bytes, extra)

----------------------------------------------------------------------------
(* The listing                                                              *)

to_ascii_lowercase(path) == [i \in DOMAIN path |-> CASE path[i] = "A" -> "a" [] path[i] = "D" -> "d" [] OTHER -> path[i]]

follows_path_rule(path) == path # <<>> /\ \A i \in DOMAIN path : path[i] \notin {"", ".", ".."}

Ancestors(path) == {SubSeq(path, 1, n) : n \in 1 .. Len(path) - 1}

(* Mutant: an earlier file's directories are not looked at.                 *)
collides_FilesOnly(files, directories, folded) ==
    folded \in files \/ Ancestors(folded) \cap files # {}

collides(files, directories, folded) ==
    folded \in files \/ folded \in directories \/ Ancestors(folded) \cap files # {}

(* One path after another, against the folded ones before it.               *)
check_listing(list) ==
    \A n \in DOMAIN list :
        LET before == {to_ascii_lowercase(list[i].path) : i \in 1 .. n - 1} IN
        /\ follows_path_rule(list[n].path)
        /\ ~collides(before, UNION {Ancestors(p) : p \in before}, to_ascii_lowercase(list[n].path))

RefusePin(fault) == pinner' = [pinner EXCEPT !.step = "refused", !.result = fault]

CheckListing ==
    /\ pinner.step = "listing"
    /\ IF check_listing(listing) THEN pinner' = [pinner EXCEPT !.step = "root"] ELSE RefusePin("listing")
    /\ UNCHANGED <<ground, touched>>

----------------------------------------------------------------------------
(* Paths                                                                    *)

IsLink(n) == n \in DOMAIN Target
Follow(n) == IF IsLink(n) THEN Target[n] ELSE n
In(dir, name) == IF dir \in TreeDirs THEN inside[dir][name] ELSE "none"

(* What a path names, its last component not followed.                      *)
NodeAt(path) ==
    CASE Len(path) = 0 -> top
      [] Len(path) = 1 -> In(Follow(top), path[1])
      [] Len(path) = 2 -> In(Follow(In(Follow(top), path[1])), path[2])

ThroughLink(path) == \E n \in 0 .. Len(path) - 1 : IsLink(NodeAt(SubSeq(path, 1, n)))

(* Mutant: every build has O_NOFOLLOW only.                                 *)
open_without_links_LastOnly(path) ==
    IF IsLink(NodeAt(path)) THEN "Link" ELSE IF NodeAt(path) = "none" THEN "Unreadable" ELSE "ok"

open_without_links(path) ==
    IF IsLink(NodeAt(path)) \/ (no_follow_any /\ ThroughLink(path)) THEN "Link"
    ELSE IF NodeAt(path) = "none" THEN "Unreadable"
    ELSE "ok"

----------------------------------------------------------------------------
(* resolve                                                                  *)

CheckRoot ==
    /\ pinner.step = "root"
    /\ IF top = "none" THEN RefusePin("Unreadable")
       ELSE IF IsLink(top) THEN RefusePin("Link")
       ELSE pinner' = [pinner EXCEPT !.step = "checked", !.held = top]
    /\ UNCHANGED <<ground, touched>>

(* The canonical path is opened: of the root, or of what a link that was    *)
(* swapped in points at, which is another directory.                        *)
OpenRoot ==
    /\ pinner.step = "checked"
    /\ IF top = "none" THEN RefusePin("Unreadable")
       ELSE IF Follow(top) # pinner.held THEN RefusePin("Link")
       ELSE pinner' = [pinner EXCEPT !.step = "visit", !.todo = <<[path |-> <<>>, dir |-> TRUE, kind |-> "dir"]>>]
    /\ UNCHANGED <<ground, touched>>

----------------------------------------------------------------------------
(* The walk: what is left to visit, first things first                      *)

Here == Head(pinner.todo)
Visiting(dir) == pinner.step = "visit" /\ pinner.todo # <<>> /\ Here.dir = dir

OpenDirectory ==
    /\ Visiting(TRUE)
    /\ LET opened == open_without_links(Here.path) IN
       IF opened = "ok" THEN pinner' = [pinner EXCEPT !.step = "list"] ELSE RefusePin(opened)
    /\ UNCHANGED <<ground, touched>>

KindOf(n) == IF IsLink(n) THEN "Link" ELSE IF n \in TreeDirs THEN "dir" ELSE IF n \in TreeFiles THEN "file" ELSE "NotRegular"

(* The names in a directory, sorted.                                        *)
NamesIn(dir) ==
    LET present(name) == IF In(dir, name) = "none" THEN <<>> ELSE <<name>>
    IN present("a") \o present("b") \o present("d") \o present("u")

(* read_dir, by path and through links, and the kinds it says.  Entries     *)
(* before the first bad one are visited before that one refuses.            *)
ListDirectory ==
    /\ pinner.step = "list"
    /\ LET dir == Follow(NodeAt(Here.path))
           names == NamesIn(dir)
           Entry(name) == [path |-> Append(Here.path, name), dir |-> KindOf(In(dir, name)) = "dir",
                           kind |-> KindOf(In(dir, name))]
       IN IF dir \notin TreeDirs THEN RefusePin("Unreadable")
          ELSE IF names = <<>> /\ Here.path # <<>> THEN RefusePin("Unexpected")
          ELSE pinner' = [pinner EXCEPT !.step = "visit",
                              !.todo = [i \in DOMAIN names |-> Entry(names[i])] \o Tail(@)]
    /\ UNCHANGED <<ground, touched>>

ListedAt(path) == {n \in DOMAIN listing : listing[n].path = path}

(* Mutant: a file that the package does not list is passed over.            *)
unlisted_Passed(path) == pinner' = [pinner EXCEPT !.todo = Tail(@)]

unlisted(path) == RefusePin("Unexpected")

LookUp ==
    /\ Visiting(FALSE)
    /\ IF Here.kind # "file" THEN RefusePin(Here.kind)
       ELSE IF ListedAt(Here.path) = {} THEN unlisted(Here.path)
       ELSE pinner' = [pinner EXCEPT !.step = "listed"]
    /\ UNCHANGED <<ground, touched>>

(* The file is opened, and judged by its descriptor.                        *)
OpenTreeFile ==
    /\ pinner.step = "listed"
    /\ LET opened == open_without_links(Here.path)
           file == NodeAt(Here.path)
       IN IF opened # "ok" THEN RefusePin(opened) /\ UNCHANGED touched
          ELSE /\ touched' = touched \cup {file}
               /\ IF file \notin TreeFiles THEN RefusePin("NotRegular")
                  ELSE IF \E n \in ListedAt(Here.path) : content[file].size # listing[n].size
                  THEN RefusePin("DigestMismatch")
                  ELSE pinner' = [pinner EXCEPT !.step = "opened", !.held = file]
    /\ UNCHANGED ground

(* Mutant: the size is taken to be enough.                                  *)
digest_matches_BySize(file, listed) == content[file].size = listed.size

digest_matches(file, listed) == content[file].bytes = listed.bytes

HashFile ==
    /\ pinner.step = "opened"
    /\ \/ RefusePin("Unreadable")
       \/ \E n \in ListedAt(Here.path) :
            IF ~digest_matches(pinner.held, listing[n]) THEN RefusePin("DigestMismatch")
            ELSE pinner' = [pinner EXCEPT !.step = "visit", !.todo = Tail(@),
                                          !.files = @ \cup {[path |-> Here.path, bytes |-> content[pinner.held].bytes]}]
    /\ UNCHANGED <<ground, touched>>

(* Mutant: a listed file that the tree lacks is not missed.                 *)
missing_None == {}

missing == {n \in DOMAIN listing : \A file \in pinner.files : file.path # listing[n].path}

Assemble ==
    /\ pinner.step = "visit" /\ pinner.todo = <<>>
    /\ IF missing # {} THEN RefusePin("Missing") ELSE pinner' = [pinner EXCEPT !.step = "pinned"]
    /\ UNCHANGED <<ground, touched>>

----------------------------------------------------------------------------
(* Whoever can write to the tree                                            *)

Swap == pinner.step \notin {"pinned", "refused"} /\ swaps < MaxSwaps /\ swaps' = swaps + 1

SwapRoot ==
    /\ Swap
    /\ \E n \in {"R", "LX", "none"} \ {top} : top' = n
    /\ UNCHANGED <<no_follow_any, listing, inside, content, pinner, touched>>

SwapEntry ==
    /\ Swap
    /\ \E swap \in ({<<"R", "a">>} \X {"A", "LXA", "fifo", "none"}) \cup ({<<"R", "d">>} \X {"D", "LXD", "none"})
                 \cup ({<<"D", "b">>} \X {"B", "LXB", "none"}) \cup ({<<"R", "u">>} \X {"U"}) :
        /\ inside[swap[1][1]][swap[1][2]] # swap[2]
        /\ inside' = [inside EXCEPT ![swap[1][1]][swap[1][2]] = swap[2]]
    /\ UNCHANGED <<no_follow_any, listing, top, content, pinner, touched>>

EditFile ==
    /\ Swap
    /\ \E f \in {"A", "B"}, size \in {1, 2}, bytes \in {"A", "B", "x"} :
        /\ content[f] # [size |-> size, bytes |-> bytes]
        /\ content' = [content EXCEPT ![f] = [size |-> size, bytes |-> bytes]]
    /\ UNCHANGED <<no_follow_any, listing, top, inside, pinner, touched>>

PinNext ==
    \/ CheckListing \/ CheckRoot \/ OpenRoot
    \/ OpenDirectory \/ ListDirectory \/ LookUp \/ OpenTreeFile \/ HashFile \/ Assemble
    \/ SwapRoot \/ SwapEntry \/ EditFile

PinSpec == PinInit /\ [][PinNext]_pinVars

----------------------------------------------------------------------------
(* A tree that was pinned is the package: its files are the listed paths,   *)
(* each once and with the listed bytes, whatever was swapped while it was   *)
(* walked, and a tree that was left alone has no other file.  The listing   *)
(* it is walked for has no two files that are one path, or one below the    *)
(* other, on a volume that ignores ASCII case.  On macOS nothing outside    *)
(* was even opened; elsewhere a file outside can be, through a directory    *)
(* swapped for a link, and it is pinned only as the bytes that are listed.  *)
PinnedIsListed ==
    /\ pinner.step = "pinned" =>
        /\ pinner.files = {[path |-> listing[n].path, bytes |-> listing[n].bytes] : n \in DOMAIN listing}
        /\ swaps = 0 => inside["D"]["u"] = "none"
    /\ pinner.step \notin {"listing", "refused"} =>
        \A m, n \in DOMAIN listing :
            LET p == to_ascii_lowercase(listing[m].path)
                q == to_ascii_lowercase(listing[n].path)
            IN m # n => p # q /\ p \notin Ancestors(q)
    /\ no_follow_any => touched \cap OutsideNodes = {}
=============================================================================
