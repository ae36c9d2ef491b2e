------------------------------- MODULE RootImage -------------------------------
(***************************************************************************)
(* From a pinned root image to a cell's own writable copy of it:            *)
(* verify_artifact and reconfirm (plasmosome-membrane/src/runtime/          *)
(* artifacts.rs, over plasmosome-core/src/artifact.rs), then                *)
(* WritableRoot::create and remove (runtime/cell_directory.rs).             *)
(*                                                                          *)
(* Between any two system calls a process that opened the image for writing *)
(* before it was locked may change it, with write, which moves its times,   *)
(* or through a mapping, which need not; the image's path may come to name  *)
(* another file; and another process of the same user may act in the        *)
(* private directory.  What that one does inside the copy itself is left    *)
(* out: the copy is the cell's to write from the start.                     *)
(*                                                                          *)
(* Bytes are chunks, and a digest is the chunks it was made of.  The walk   *)
(* to the file is TrustedFile's; here it reaches what the path names or     *)
(* refuses.  This is the macOS build: elsewhere judge_immutability refuses  *)
(* every file, and no copy is ever made.                                    *)
(***************************************************************************)
EXTENDS Naturals, Sequences

CONSTANTS MaxWrites,      \* bound: changes to the image
          MaxMeddling     \* bound: changes to names and directories

ASSUME ImageAssumption == MaxWrites \in Nat /\ MaxMeddling \in Nat

Pinned == <<"p", "q">>
Images == {"Image", "Twin"}     \* the file that is at the path, and another of the same bytes

VARIABLES
    image,      \* each file: its bytes, its stamp and what fstat says of it
    imagePath,  \* what the image's path names
    root,       \* the caller: its step, what it holds and what it has read
    copy,       \* the file that was made: its bytes, its mode, whether it was synced
    entry,      \* what the name in the private directory is: nothing, copy or alien
    there,      \* the directory's path names the directory that is held open
    writes,     \* bound
    meddling,   \* bound
    ghost       \* mapped: a mapping was written through; seen: the bytes at the last fstat;
                \* late: an alien came after the inspection; struck: an alien was unlinked

rootVars == <<image, imagePath, root, copy, entry, there, writes, meddling, ghost>>
outside == <<image, imagePath, there, writes, meddling>>

Sound == [kind |-> "Regular", owner |-> "euid", writable |-> FALSE, setid |-> FALSE,
          acl |-> FALSE, immutable |-> TRUE]

(* A file that breaks one rule at most.                                     *)
Facts ==
    {Sound, [Sound EXCEPT !.kind = "Other"], [Sound EXCEPT !.owner = "other"],
     [Sound EXCEPT !.writable = TRUE], [Sound EXCEPT !.setid = TRUE],
     [Sound EXCEPT !.acl = TRUE], [Sound EXCEPT !.immutable = FALSE]}

Unverified(facts, bytes, role, parent, there0, entry0) ==
    /\ image = [f \in Images |->
                  IF f = "Image" THEN [facts |-> facts, bytes |-> bytes, stamp |-> 0]
                  ELSE [facts |-> Sound, bytes |-> Pinned, stamp |-> 0]]
    /\ imagePath = "Image"
    /\ root = [step |-> "verify", role |-> role, parent |-> parent, file |-> "none", stamp |-> 0,
               size |-> 0, read |-> <<>>, opened |-> "none", result |-> "none", removal |-> "none"]
    /\ copy = [made |-> FALSE, bytes |-> <<>>, private |-> FALSE, synced |-> FALSE]
    /\ entry = entry0 /\ there = there0
    /\ writes = 0 /\ meddling = 0
    /\ ghost = [mapped |-> FALSE, seen |-> <<>>, late |-> FALSE, struck |-> FALSE]

(* An unsound file, a wrong role and a wrong parent are met alone.          *)
RootInit ==
    \E facts \in Facts, bytes \in {<<"p", "q">>, <<"x", "q">>, <<"p", "x">>, <<"p">>, <<"p", "q", "x">>},
       role \in {"RootImage", "Kernel"}, parent, there0 \in BOOLEAN, entry0 \in {"nothing", "alien"} :
        /\ facts = Sound \/ bytes = Pinned
        /\ (role = "RootImage" /\ parent /\ there0 /\ entry0 = "nothing") \/ (facts = Sound /\ bytes = Pinned)
        /\ Unverified(facts, bytes, role, parent, there0, entry0)

----------------------------------------------------------------------------
(* plasmosome-core: artifact.rs                                             *)

At(step) == root.step = step
RefuseRoot(fault) == root' = [root EXCEPT !.step = "refused", !.result = fault]

judge(facts) ==
    CASE facts.kind # "Regular" -> "NotRegular"
      [] facts.owner \notin {"root", "euid"} -> "ForeignOwner"
      [] facts.writable -> "Writable"
      [] facts.setid -> "SetIdBits"
      [] OTHER -> "ok"

judge_immutability(facts) == IF facts.immutable THEN "ok" ELSE "NotImmutable"

(* What check_file's open can come to, which judges the file by its own     *)
(* descriptor: a fault, or the file.                                        *)
open_file == {"Walk"} \cup (IF imagePath = "none" THEN {} ELSE {judge(image[imagePath].facts)})

Opened(step) == root' = [root EXCEPT !.step = step, !.opened = imagePath]

VerifyOpens ==
    /\ At("verify")
    /\ \E fault \in open_file : IF fault = "ok" THEN Opened("opened") ELSE RefuseRoot(fault)
    /\ UNCHANGED <<outside, copy, entry, ghost>>

(* The ACL and the flags, and the stamp that later reads are compared with. *)
CheckStamp ==
    /\ At("opened")
    /\ \/ RefuseRoot("Io") /\ UNCHANGED ghost
       \/ LET found == image[root.opened] IN
          /\ IF found.facts.acl THEN RefuseRoot("WriteAcl")
             ELSE IF judge_immutability(found.facts) # "ok" THEN RefuseRoot("NotImmutable")
             ELSE root' = [root EXCEPT !.step = "hashing", !.file = root.opened,
                                       !.stamp = found.stamp, !.size = Len(found.bytes)]
          /\ ghost' = [ghost EXCEPT !.seen = found.bytes]
    /\ UNCHANGED <<outside, copy, entry>>

(* A positioned read, up to one byte past the size at the check.            *)
Positioned(file) ==
    LET at == Len(root.read) + 1 IN
    IF at <= Len(image[file].bytes) /\ at <= root.size + 1 THEN <<image[file].bytes[at]>> ELSE <<>>

HashChunk ==
    /\ At("hashing")
    /\ \/ RefuseRoot("Io")
       \/ LET chunk == Positioned(root.file) IN
          root' = [root EXCEPT !.step = IF chunk = <<>> THEN "hashed" ELSE @, !.read = @ \o chunk]
    /\ UNCHANGED <<outside, copy, entry, ghost>>

(* Mutant: the stamps are not compared after the hash.                      *)
judge_unchanged_Never(before, after) == TRUE

judge_unchanged(before, after) == before = after

(* hash_checked, after the read                                             *)
HashChecked ==
    /\ At("hashed")
    /\ \/ RefuseRoot("Io")
       \/ IF ~judge_unchanged(<<root.stamp, root.size>>, <<image[root.file].stamp, Len(image[root.file].bytes)>>)
          THEN RefuseRoot("ChangedWhileHashing")
          ELSE IF root.read # Pinned THEN RefuseRoot("Digest")
          ELSE root' = [root EXCEPT !.step = "verified", !.read = <<>>]
    /\ UNCHANGED <<outside, copy, entry, ghost>>

----------------------------------------------------------------------------
(* WritableRoot::create                                                     *)

(* The role, the parent's path, its reconfirm and the dup of its            *)
(* descriptor.                                                              *)
Ask ==
    /\ At("verified")
    /\ IF root.role # "RootImage" THEN RefuseRoot("WrongSource")
       ELSE IF ~root.parent THEN RefuseRoot("WrongParent")
       ELSE IF ~there THEN RefuseRoot("Private")
       ELSE \/ RefuseRoot("Io")
            \/ root' = [root EXCEPT !.step = "asked"]
    /\ UNCHANGED <<outside, copy, entry, ghost>>

(* O_CREAT | O_EXCL | O_NOFOLLOW in the directory that is held.             *)
OpenNew ==
    /\ At("asked")
    /\ \/ RefuseRoot("Io") /\ UNCHANGED <<copy, entry>>
       \/ entry # "nothing" /\ RefuseRoot("Exists") /\ UNCHANGED <<copy, entry>>
       \/ /\ entry = "nothing" /\ entry' = "copy"
          /\ copy' = [copy EXCEPT !.made = TRUE]
          /\ root' = [root EXCEPT !.step = "created"]
    /\ UNCHANGED <<outside, ghost>>

(* Without an identity to remove it by, the empty file stays.               *)
Identify ==
    /\ At("created")
    /\ \/ RefuseRoot("Unidentified")
       \/ root' = [root EXCEPT !.step = "identified"]
    /\ UNCHANGED <<outside, copy, entry, ghost>>

(* Mutant: the value is forgotten, and the copy with it.                    *)
DropRoot_Forgets(fault) == RefuseRoot(fault)

(* A refusal drops the value, which removes the copy.                       *)
DropRoot(fault) == root' = [root EXCEPT !.step = "removing", !.result = fault]

SetMode ==
    /\ At("identified")
    /\ \/ DropRoot("Io") /\ UNCHANGED copy
       \/ root' = [root EXCEPT !.step = "copying"] /\ copy' = [copy EXCEPT !.private = TRUE]
    /\ UNCHANGED <<outside, entry, ghost>>

(* Tee: what is read is written and hashed, chunk by chunk.                 *)
CopyChunk ==
    /\ At("copying")
    /\ \/ DropRoot("Io") /\ UNCHANGED copy
       \/ LET chunk == Positioned(root.file) IN
          /\ root' = [root EXCEPT !.step = IF chunk = <<>> THEN "copied" ELSE @, !.read = @ \o chunk]
          /\ copy' = [copy EXCEPT !.bytes = @ \o chunk]
    /\ UNCHANGED <<outside, entry, ghost>>

(* Mutant: the copy's digest is not compared.                               *)
copy_verified_Any(read) == TRUE

copy_verified(read) == read = Pinned

SyncCopy ==
    /\ At("copied")
    /\ \/ /\ ~copy_verified(root.read) /\ DropRoot("CopyMismatch") /\ UNCHANGED copy
       \/ copy_verified(root.read) /\ DropRoot("Io") /\ UNCHANGED copy
       \/ /\ copy_verified(root.read)
          /\ root' = [root EXCEPT !.step = "synced"]
          /\ copy' = [copy EXCEPT !.synced = TRUE]
    /\ UNCHANGED <<outside, entry, ghost>>

(* VerifiedArtifact::reconfirm, after the copy: the path is opened again.   *)
ReconfirmOpens ==
    /\ At("synced")
    /\ \E fault \in open_file : IF fault = "ok" THEN Opened("reopened") ELSE DropRoot(fault)
    /\ UNCHANGED <<outside, copy, entry, ghost>>

(* Mutant: the identity is compared, and the stamp is not.                  *)
same_file_ByIdentity(found) == found = root.file

(* The identity, then the size and the times.                               *)
same_file(found) ==
    found = root.file /\ judge_unchanged(<<root.stamp, root.size>>, <<image[found].stamp, Len(image[found].bytes)>>)

(* A broken rule, another file, a moved stamp, a failed call, or the image  *)
(* as it was verified.                                                      *)
Reconfirmed ==
    /\ At("reopened")
    /\ \/ DropRoot("Source")
       \/ /\ ~image[root.opened].facts.acl /\ judge_immutability(image[root.opened].facts) = "ok"
          /\ same_file(root.opened)
          /\ root' = [root EXCEPT !.step = "ready", !.result = "Ok"]
    /\ ghost' = [ghost EXCEPT !.seen = image[root.opened].bytes]
    /\ UNCHANGED <<outside, copy, entry>>

----------------------------------------------------------------------------
(* WritableRoot::remove and drop                                            *)

RemoveRoot == At("ready") /\ root' = [root EXCEPT !.step = "removing"] /\ UNCHANGED <<outside, copy, entry, ghost>>

Ended(outcome) ==
    root' = [root EXCEPT !.step = IF root.result = "Ok" THEN "removed" ELSE "refused", !.removal = outcome]

(* Mutant: whatever stands at the name is taken for the copy.               *)
inspected_Any == entry # "nothing"

(* A regular file of the identity that was created.                         *)
inspected == entry = "copy"

Inspect ==
    /\ At("removing")
    /\ \/ Ended("Failed")
       \/ inspected /\ root' = [root EXCEPT !.step = "inspected"]
       \/ ~inspected /\ Ended(IF entry = "nothing" THEN "AlreadyGone" ELSE "LeftReplacement")
    /\ UNCHANGED <<outside, copy, entry, ghost>>

Unlink ==
    /\ At("inspected")
    /\ \/ Ended("Failed") /\ UNCHANGED <<entry, ghost>>
       \/ entry = "nothing" /\ Ended("AlreadyGone") /\ UNCHANGED <<entry, ghost>>
       \/ /\ entry # "nothing" /\ entry' = "nothing" /\ Ended("Removed")
          /\ ghost' = [ghost EXCEPT !.struck = @ \/ entry = "alien"]
    /\ UNCHANGED <<outside, copy>>

----------------------------------------------------------------------------
(* The others                                                               *)

Going == root.step \notin {"refused", "removed"}

(* Through a descriptor, or a mapping, that is older than the lock.         *)
WriteImage ==
    /\ Going /\ writes < MaxWrites /\ writes' = writes + 1
    /\ \E mapped \in BOOLEAN, i \in DOMAIN image["Image"].bytes, value \in {"p", "q", "x"} :
        /\ value \in {"x"} \cup {Pinned[j] : j \in {i} \cap DOMAIN Pinned}
        /\ image' = [image EXCEPT !["Image"].bytes = [@ EXCEPT ![i] = value],
                                  !["Image"].stamp = IF mapped THEN @ ELSE @ + 1]
        /\ ghost' = [ghost EXCEPT !.mapped = @ \/ mapped]
    /\ UNCHANGED <<imagePath, root, copy, entry, there, meddling>>

ResizeImage ==
    /\ Going /\ writes < MaxWrites /\ writes' = writes + 1
    /\ LET bytes == image["Image"].bytes IN
       \E new \in {Append(bytes, "x"), IF bytes = <<>> THEN bytes ELSE SubSeq(bytes, 1, Len(bytes) - 1)} \ {bytes} :
        image' = [image EXCEPT !["Image"].bytes = new, !["Image"].stamp = @ + 1]
    /\ UNCHANGED <<imagePath, root, copy, entry, there, meddling, ghost>>

Meddle == Going /\ meddling < MaxMeddling /\ meddling' = meddling + 1

RenameImage ==
    /\ Meddle
    /\ \E other \in {"Image", "Twin", "none"} \ {imagePath} : imagePath' = other
    /\ UNCHANGED <<image, root, copy, entry, there, writes, ghost>>

RenameDirectory ==
    /\ Meddle /\ there' = ~there
    /\ UNCHANGED <<image, imagePath, root, copy, entry, writes, ghost>>

(* The copy is renamed away, an alien is put at the name, or the name goes. *)
MeddleWithName ==
    /\ Meddle
    /\ \E other \in {"nothing", "alien"} \ {entry} :
        /\ entry' = other
        /\ ghost' = [ghost EXCEPT !.late = @ \/ (other = "alien" /\ At("inspected"))]
    /\ UNCHANGED <<image, imagePath, root, copy, there, writes>>

----------------------------------------------------------------------------
RootNext ==
    \/ VerifyOpens \/ CheckStamp \/ HashChunk \/ HashChecked
    \/ Ask \/ OpenNew \/ Identify \/ SetMode \/ CopyChunk \/ SyncCopy
    \/ ReconfirmOpens \/ Reconfirmed
    \/ RemoveRoot \/ Inspect \/ Unlink
    \/ WriteImage \/ ResizeImage \/ RenameImage \/ RenameDirectory \/ MeddleWithName

RootSpec == RootInit /\ [][RootNext]_rootVars

----------------------------------------------------------------------------
(* Properties                                                               *)

Verified == {"verified", "asked", "created", "identified", "copying", "copied", "synced", "reopened"}

(* What was verified had the pinned bytes as one version, at the check and  *)
(* not as a mixture of what it was before and after a write; and a created  *)
(* root's image still had them at the reconfirm.  Only writes through a     *)
(* mapping, which move no time, are out of this, as the source says.        *)
VerifiedIsOneVersion ==
    (root.step \in Verified \cup {"ready"} /\ ~ghost.mapped) => ghost.seen = Pinned

(* A writable root that was created is whole, synced, private and has the   *)
(* pinned bytes, whatever was written to the image in the meantime, through *)
(* a mapping too; a refusal leaves no file it made at the name, unless the  *)
(* new file had no identity or its removal failed; and nothing but that     *)
(* file was unlinked, unless it came between the inspection and the unlink. *)
CopyIsExact ==
    /\ At("ready") => copy.bytes = Pinned /\ copy.private /\ copy.synced
    /\ At("refused") /\ entry = "copy" => root.result = "Unidentified" \/ root.removal = "Failed"
    /\ ghost.struck => ghost.late

(* What a cell boots from is what was pinned: the image was verified as one *)
(* version, and the copy is that version, alone at its name and cleared     *)
(* away when it is not.                                                     *)
RootIsPinned == VerifiedIsOneVersion /\ CopyIsExact
=============================================================================
