------------------------------- MODULE DenialBook -------------------------------
(***************************************************************************)
(* What a cell was refused, as its membrane counts it and the controller    *)
(* fetches it: plasmosome-core/src/denial.rs.  The book keeps an entry for  *)
(* each distinct denial and a queue of lines, both bounded; the controller  *)
(* asks for a page of lines and acknowledges, by book and number, the ones  *)
(* it has appended to the session log.  Replies are lost, an append may     *)
(* fail, and either side may restart: the membrane with a new, empty book,  *)
(* the controller without a memory of book and number.                      *)
(*                                                                          *)
(* Whether a line fits in 1,024 bytes depends on its text and is a choice.  *)
(* The queue is the set of its lines: it is in the order of their numbers,  *)
(* which only grow.  The entries are one for each denial, in no order.      *)
(***************************************************************************)
EXTENDS Integers, FiniteSetsExt

CONSTANTS
    Plasmids, Unnamed,  \* who reached, if it is known
    Reaches,
    DenialLimits,       \* the bounds of one book
    CountMax,           \* u64::MAX
    MaxBooks,           \* bound: starts of the membrane
    MaxDenials          \* bound: denials of one book

ASSUME DenialAssumption ==
    /\ Unnamed \notin Plasmids
    /\ DenialLimits \in [{"per_plasmid", "named", "unnamed", "lines_per_denial",
                          "lines_per_cell", "waiting", "page"} -> Nat]
    /\ {CountMax, MaxBooks, MaxDenials} \subseteq Nat

VARIABLES
    book,       \* the DenialBook
    reader,     \* the controller: the book and number it acknowledges, and the page it appends
    logged,     \* the lines of this book that are in the session log
    denials     \* ghost: how often this book recorded each denial since it was forgotten, and in all

denialVars == <<book, reader, logged, denials>>

NewBook(id) ==
    [id |-> id, entries |-> {}, waiting |-> {}, issued |-> 0, last_seq |-> 0, unlogged |-> 0]
NewReader == [book |-> 0, after |-> 0, page |-> {}, of |-> 0]
NoDenials == [all |-> 0, of |-> [d \in (Plasmids \cup {Unnamed}) \X Reaches |-> 0]]

DenialInit == book = NewBook(1) /\ reader = NewReader /\ logged = {} /\ denials = NoDenials

saturating_add(n) == IF n = CountMax THEN n ELSE n + 1

----------------------------------------------------------------------------
(* DenialBook                                                               *)

(* Mutant: unnamed denials share the entry of the first that named one.     *)
position_ByReach(plasmid, reach) ==
    {entry \in book.entries : entry.reach = reach}

position(plasmid, reach) ==
    {entry \in book.entries : entry.plasmid = plasmid /\ entry.reach = reach}

room(plasmid) ==
    LET same == Cardinality({entry \in book.entries : entry.plasmid = plasmid})
        named == Cardinality({entry \in book.entries : entry.plasmid # Unnamed})
    IN IF plasmid = Unnamed THEN same < DenialLimits.unnamed
       ELSE same < DenialLimits.per_plasmid /\ named < DenialLimits.named

(* No line: the denial is left to the next line's unlogged.                 *)
Unlogged(b) == [b EXCEPT !.unlogged = saturating_add(@)]

NoLine(b, entry, fits) ==
    \/ entry.lines >= DenialLimits.lines_per_denial
    \/ b.issued >= DenialLimits.lines_per_cell
    \/ Cardinality(b.waiting) >= DenialLimits.waiting
    \/ b.last_seq = CountMax
    \/ ~fits

(* Mutant: the line takes a number that a full queue then leaves unused.    *)
issue_NumbersFirst(b, entry, fits) ==
    IF NoLine(b, entry, fits) THEN Unlogged([b EXCEPT !.last_seq = IF @ = CountMax THEN @ ELSE @ + 1])
    ELSE [b EXCEPT !.last_seq = @ + 1, !.issued = @ + 1, !.unlogged = 0,
                   !.entries = (@ \ {entry}) \cup {[entry EXCEPT !.lines = @ + 1]},
                   !.waiting = @ \cup {[seq |-> b.last_seq + 1, unlogged |-> b.unlogged]}]

(* record's second half, for an entry that counted the denial.              *)
issue(b, entry, fits) ==
    IF NoLine(b, entry, fits) THEN Unlogged(b)
    ELSE [b EXCEPT !.last_seq = @ + 1, !.issued = @ + 1, !.unlogged = 0,
                   !.entries = (@ \ {entry}) \cup {[entry EXCEPT !.lines = @ + 1]},
                   !.waiting = @ \cup {[seq |-> b.last_seq + 1, unlogged |-> b.unlogged]}]

record(plasmid, reach) ==
    /\ denials.all < MaxDenials
    /\ denials' = [denials EXCEPT !.all = @ + 1, !.of[<<plasmid, reach>>] = @ + 1]
    /\ LET found == position(plasmid, reach)
           entry == IF found # {} THEN CHOOSE e \in found : TRUE
                    ELSE [plasmid |-> plasmid, reach |-> reach, count |-> 0, lines |-> 0]
           counted == [entry EXCEPT !.count = saturating_add(@)]
           entered == [book EXCEPT !.entries = (@ \ {entry}) \cup {counted}]
       IN IF found = {} /\ ~room(plasmid)
          THEN book' = Unlogged(book)
          ELSE \E fits \in BOOLEAN : book' = issue(entered, counted, fits)
    /\ UNCHANGED <<reader, logged>>

forget(plasmid) ==
    /\ \E entry \in book.entries : entry.plasmid = plasmid
    /\ book' = [book EXCEPT !.entries = {entry \in @ : entry.plasmid # plasmid}]
    /\ denials' = [denials EXCEPT !.of = [d \in DOMAIN @ |-> IF d[1] = plasmid THEN 0 ELSE @[d]]]
    /\ UNCHANGED <<reader, logged>>

(* Mutant: a number acknowledges the lines of whichever book is open.       *)
acknowledged_AnyBook(id, after) ==
    IF id = 0 THEN book.waiting ELSE {line \in book.waiting : line.seq > after}

acknowledged(id, after) ==
    IF id # book.id THEN book.waiting ELSE {line \in book.waiting : line.seq > after}

Oldest(lines, n) == {line \in lines : Cardinality({other \in lines : other.seq <= line.seq}) <= n}

(* page: acknowledges, then serves the oldest lines without consuming them, *)
(* beside the named entries as they are.  The reply may be lost.            *)
page_lines ==
    /\ reader.page = {}
    /\ LET waiting == acknowledged(reader.book, reader.after) IN
       /\ book' = [book EXCEPT !.waiting = waiting]
       /\ \E reply \in {Oldest(waiting, DenialLimits.page), {}} :
             reader' = [reader EXCEPT !.page = reply, !.of = IF reply = {} THEN 0 ELSE book.id]
    /\ UNCHANGED <<logged, denials>>

----------------------------------------------------------------------------
(* The controller and the two restarts                                      *)

(* The first line of the page is appended, and its number acknowledged with *)
(* the next request.                                                        *)
AppendLine ==
    /\ reader.page # {}
    /\ LET first == CHOOSE line \in reader.page : \A other \in reader.page : line.seq <= other.seq
           rest == reader.page \ {first}
       IN /\ logged' = IF reader.of = book.id THEN logged \cup {first} ELSE logged
          /\ reader' = [reader EXCEPT !.page = rest, !.book = reader.of, !.after = first.seq,
                                      !.of = IF rest = {} THEN 0 ELSE @]
    /\ UNCHANGED <<book, denials>>

(* An append fails: the rest of the page stays with the membrane.           *)
AppendFails ==
    /\ reader.page # {}
    /\ reader' = [reader EXCEPT !.page = {}, !.of = 0]
    /\ UNCHANGED <<book, logged, denials>>

ControllerRestarts ==
    /\ reader # NewReader
    /\ reader' = NewReader
    /\ UNCHANGED <<book, logged, denials>>

MembraneRestarts ==
    /\ book.id < MaxBooks
    /\ book' = NewBook(book.id + 1)
    /\ logged' = {} /\ denials' = NoDenials
    /\ UNCHANGED reader

DenialNext ==
    \/ \E p \in Plasmids \cup {Unnamed}, r \in Reaches : record(p, r)
    \/ \E p \in Plasmids : forget(p)
    \/ page_lines \/ AppendLine \/ AppendFails \/ ControllerRestarts \/ MembraneRestarts

DenialSpec == DenialInit /\ [][DenialNext]_denialVars

----------------------------------------------------------------------------
(* Properties                                                               *)

Issued == logged \cup book.waiting

(* The denials that lines stand for: their own and the unlogged before it.  *)
Carried(lines) == MapThenSumSet(LAMBDA line : 1 + line.unlogged, lines)

(* No denial of a book is lost or counted twice on its way to the session   *)
(* log: every number up to last_seq is logged or still waits, and the lines *)
(* with their unlogged, plus what no line carries yet, are all the denials, *)
(* unless a counter saturated.  An entry never counts another's denials.    *)
DenialsAccounted ==
    /\ {line.seq : line \in Issued} = 1..book.last_seq
    /\ \A entry \in book.entries : entry.count <= denials.of[<<entry.plasmid, entry.reach>>]
    /\ IF book.unlogged = CountMax \/ \E line \in Issued : line.unlogged = CountMax
       THEN Carried(Issued) + book.unlogged <= denials.all
       ELSE Carried(Issued) + book.unlogged = denials.all
=============================================================================
