------------------------------ MODULE MountSources ------------------------------
(***************************************************************************)
(* Which directories may be mounted into a cell, beside the files that      *)
(* decide it: plasmosome-core/src/operator/sources.rs.  Guard refuses a     *)
(* mount source that overlaps a guarded directory, and Probes refuses a     *)
(* trusted file that lies inside a mount source.  Both compare identities   *)
(* along the walk of nofollow.rs.  On macOS a firmlink gives a directory a  *)
(* second parent on the data volume, so a directory may be reached by a     *)
(* path along which the other spelling's parents do not lie.                *)
(*                                                                          *)
(* The tree is that of macOS: /usr/local and /users are firmlinks to the    *)
(* same paths below /sys/data, or plain directories.  The system's /sys is  *)
(* read-only, so nothing that is guarded is kept right there.               *)
(***************************************************************************)
EXTENDS Naturals, Sequences

CONSTANTS NoEntry, SymbolicLink

VARIABLES
    entries,    \* what each directory's names name
    request,    \* the paths of the request: the source, the guarded directory, the file's directory
    probe,      \* the source as Probes opened it
    opened,     \* the file's chain, and ghost: the tree as it was opened
    verdict     \* what Guard said of the source, and Probes of the file

mountVars == <<entries, request, probe, opened, verdict>>

Places == {"/", "sys", "data", "usr", "data-usr", "local", "users", "x"}
Names == {"sys", "data", "usr", "local", "users", "x", "y"}

Layout(volume, local, users) ==
    [dir \in Places |-> [name \in Names |->
        CASE dir = "/" /\ name \in {"sys", "usr"} -> name
          [] dir = "/" /\ name = "users" -> "users"
          [] dir = "sys" /\ name = "data" -> IF volume = "link" THEN SymbolicLink
                                             ELSE IF volume = "none" THEN NoEntry ELSE "data"
          [] dir = "data" /\ name = "usr" -> "data-usr"
          [] dir = "usr" /\ name = "local" -> "local"
          [] dir = "data-usr" /\ name = "local" /\ local = "firm" -> "local"
          [] dir = "data" /\ name = "users" /\ users = "firm" -> "users"
          [] dir \in {"local", "users"} /\ name = "x" -> IF dir = "local" THEN "x" ELSE NoEntry
          [] OTHER -> NoEntry]]

Paths == {<<>>, <<"sys">>, <<"sys", "data">>, <<"sys", "data", "usr">>, <<"sys", "data", "usr", "local">>,
          <<"sys", "data", "users">>, <<"usr">>, <<"usr", "local">>, <<"usr", "local", "x">>,
          <<"usr", "local", "y">>, <<"users">>}

DATA_VOLUME == <<"sys", "data">>

NotYet == [refused |-> "not yet"]

Requests == [source : Paths, held : BOOLEAN, guarded : Paths \ {<<"sys">>}, file : Paths]

Unchecked(tree) ==
    /\ entries = tree
    /\ probe = NotYet
    /\ opened = [chain |-> <<>>, tree |-> tree]
    /\ verdict = [source |-> "not yet", file |-> "not yet"]

MountInit ==
    /\ \E volume \in {"real", "none", "link"}, local, users \in {"firm", "plain"} :
          /\ volume # "real" => local = "plain" /\ users = "plain"
          /\ Unchecked(Layout(volume, local, users))
    /\ request \in Requests

----------------------------------------------------------------------------
(* Walk::identities: the chain of directories of a path, or why it does not *)
(* open.                                                                    *)

Step(tree, walked, name) ==
    IF "refused" \in DOMAIN walked THEN walked
    ELSE LET next == tree[walked.chain[Len(walked.chain)]][name] IN
         IF next = NoEntry THEN [refused |-> "Missing"]
         ELSE IF next = SymbolicLink THEN [refused |-> "Symlink"]
         ELSE [chain |-> Append(walked.chain, next)]

identities(path) ==
    LET walked[n \in 0..Len(path)] ==
            IF n = 0 THEN [chain |-> <<"/">>] ELSE Step(entries, walked[n - 1], path[n])
    IN walked[Len(path)]

Opens(walked) == "chain" \in DOMAIN walked
last(chain) == chain[Len(chain)]
contains(chain, dir) == \E i \in DOMAIN chain : chain[i] = dir

(* relation                                                                 *)
related(source, guarded) == contains(guarded, last(source)) \/ contains(source, last(guarded))

----------------------------------------------------------------------------
(* Guard                                                                    *)

(* Mutant: only a source inside the data volume is refused.                 *)
check_volume_Inside(chain, volume) == ~Opens(volume) \/ ~contains(chain, last(volume.chain))

check_volume(chain, volume) == ~Opens(volume) \/ ~related(chain, volume.chain)

(* Guard::new and Guard::check_with; every directory is root's or the       *)
(* user's own, so none is refused for its owner or mode.                    *)
GuardCheck ==
    /\ verdict.source = "not yet"
    /\ LET volume == identities(DATA_VOLUME)
           guarded == identities(request.guarded)
           source == identities(request.source)
           accepts ==
               /\ Opens(volume) \/ volume.refused = "Missing"
               /\ Opens(guarded)
               /\ Opens(volume) => ~contains(guarded.chain, last(volume.chain))
               /\ Opens(source)
               /\ check_volume(source.chain, volume)
               /\ ~related(source.chain, guarded.chain)
       IN verdict' = [verdict EXCEPT !.source = IF accepts THEN "accepted" ELSE "refused"]
    /\ UNCHANGED <<entries, request, probe, opened>>

----------------------------------------------------------------------------
(* Probes                                                                   *)

probe_with ==
    /\ probe = NotYet
    /\ probe' = identities(request.source)
    /\ UNCHANGED <<entries, request, opened, verdict>>

(* The trusted file is opened: TrustedFile keeps its directory's chain.     *)
OpenFile ==
    /\ opened.chain = <<>> /\ Opens(identities(request.file))
    /\ opened' = [chain |-> identities(request.file).chain, tree |-> entries]
    /\ UNCHANGED <<entries, request, probe, verdict>>

(* Mutant: only the whole path's spelling on the data volume is opened.     *)
data_side_Whole(volume, path, chain) ==
    LET spelled == identities(volume \o path) IN
    IF Opens(spelled) THEN spelled
    ELSE IF spelled.refused = "Missing" THEN [chain |-> <<>>] ELSE spelled

(* data_side: the data volume and one name more at a time, up to the first  *)
(* that opens a directory of the chain.                                     *)
data_side(volume, path, chain) ==
    LET spelled(n) == identities(volume \o SubSeq(path, 1, n))
        stops(n) == ~Opens(spelled(n)) \/ contains(chain, last(spelled(n).chain))
        stopping == {n \in 1..Len(path) : stops(n) /\ \A m \in 1..(n - 1) : ~stops(m)}
    IN IF stopping = {} THEN [chain |-> <<>>]
       ELSE LET found == spelled(CHOOSE n \in stopping : TRUE) IN
            IF ~Opens(found) /\ found.refused = "Missing" THEN [chain |-> <<>>] ELSE found

(* Probes::check_at                                                         *)
check_at ==
    /\ verdict.file = "not yet" /\ probe # NotYet /\ opened.chain # <<>>
    /\ LET volume == identities(DATA_VOLUME)
           second == IF Opens(volume) THEN data_side(DATA_VOLUME, request.file, opened.chain)
                     ELSE [chain |-> <<>>]
           accepts ==
               /\ Opens(volume) \/ volume.refused = "Missing"
               /\ Opens(volume) => ~contains(opened.chain, last(volume.chain))
               /\ Opens(second)
               /\ IF Opens(probe)
                  THEN ~contains(opened.chain, last(probe.chain)) /\ ~contains(second.chain, last(probe.chain))
                  ELSE ~request.held
       IN verdict' = [verdict EXCEPT !.file = IF accepts THEN "accepted" ELSE "refused"]
    /\ UNCHANGED <<entries, request, probe, opened>>

(* Someone renames a directory below a firmlink.                            *)
MoveDirectory ==
    /\ entries["local"]["x"] = "x"
    /\ entries' = [entries EXCEPT !["local"]["x"] = NoEntry, !["local"]["y"] = "x"]
    /\ UNCHANGED <<request, probe, opened, verdict>>

MountNext == GuardCheck \/ probe_with \/ OpenFile \/ check_at \/ MoveDirectory

----------------------------------------------------------------------------
(* Properties                                                               *)

(* A directory and everything below it, by whichever parent.                *)
Below(tree, dir) ==
    LET below[n \in 0..4] ==
            IF n = 0 THEN {dir}
            ELSE below[n - 1] \cup ({tree[d][name] : d \in below[n - 1], name \in Names}
                                        \ {NoEntry, SymbolicLink})
    IN below[4]

(* An accepted source and a guarded directory hold nothing in common, and a *)
(* file that is accepted lay in no probed source as it was opened, by       *)
(* either spelling and whatever was renamed meanwhile.                      *)
NothingShared ==
    /\ verdict.source = "accepted" =>
          LET source == last(identities(request.source).chain)
              guarded == last(identities(request.guarded).chain)
          IN Opens(identities(request.source)) /\ Opens(identities(request.guarded)) =>
                Below(entries, source) \cap Below(entries, guarded) = {}
    /\ verdict.file = "accepted" /\ Opens(probe) =>
          last(opened.chain) \notin Below(opened.tree, last(probe.chain))
=============================================================================
