--------------------------- MODULE ObservationPaging ---------------------------
(***************************************************************************)
(* Paged observations over one connection: plasmosome-backend/src/paging.rs.*)
(* The responder's CaptureSlot freezes one account at a time and serves it  *)
(* in pages until a deadline; callers that share the connection assemble    *)
(* theirs with PageAssembler as its comment says, one request at a time,    *)
(* and give up at their deadline.  Accounts change all the time, also       *)
(* between two pages.  A page may be altered on its way in everything but   *)
(* the hash that the first one states.                                      *)
(*                                                                          *)
(* An account is a sequence of bytes and its hash is itself, since SHA-256  *)
(* is taken to be injective.  What decodes is a member of Records.          *)
(***************************************************************************)
EXTENDS Integers, Sequences

CONSTANTS
    Scopes, Callers,
    Scope,          \* what each caller observes
    Garbled,        \* the callers to whom pages may come altered
    Records,        \* the accounts that collecting may give
    Bytes, Space,   \* what accounts are made of, and the byte that is whitespace
    Nothing,
    PageBytes,      \* the slot's page size
    MaxPageBytes,
    MaxSnapshot,    \* the last number a snapshot can have
    MaxOffset,      \* the last number an offset can be
    MaxTime         \* bound: the clock

Min2(a, b) == IF a < b THEN a ELSE b

(* ObservationPage, and what PageAssembler keeps of the first.              *)
Pages == [snapshot : Nat, offset : Nat, total : Nat, sha256 : Records, bytes : Seq(Bytes),
          complete : BOOLEAN]
Starts == [snapshot : Nat, total : Nat, sha256 : Records, complete : BOOLEAN]

ASSUME PagingAssumption ==
    /\ Scope \in [Callers -> Scopes] /\ Garbled \subseteq Callers
    /\ Records \subseteq Seq(Bytes) \ {<<>>}
    /\ Nothing \notin Records /\ Nothing \notin Pages /\ Nothing \notin Starts /\ Nothing \notin Callers
    /\ \A r \in Records : r[1] # Space /\ r[Len(r)] # Space
    /\ PageBytes \in 1..MaxPageBytes
    /\ {MaxSnapshot, MaxOffset, MaxTime} \subseteq Nat

VARIABLES
    accounts,   \* what collecting a scope would give now
    now,
    slot,       \* the CaptureSlot
    serving,    \* the zero/zero request that is being collected
    caller      \* each caller: its request, its PageAssembler, and what it was told

pagingVars == <<accounts, now, slot, serving, caller>>

START == [snapshot |-> 0, offset |-> 0]
Idle == [by |-> Nothing, expires |-> 0, frozen |-> Nothing]
Unasked == [phase |-> "idle", cursor |-> START, expires |-> 0, reply |-> Nothing,
            started |-> Nothing, buffer |-> <<>>, told |-> Nothing]

PagingInit ==
    /\ accounts \in [Scopes -> Records]
    /\ now = 0
    /\ slot = [last |-> 0, current |-> Nothing, ended |-> Nothing]
    /\ serving = Idle
    /\ caller = [c \in Callers |-> Unasked]

----------------------------------------------------------------------------
(* CaptureSlot                                                              *)

(* Capture::page_at                                                         *)
page_at(capture, offset) ==
    LET frozen == capture.account
        end == Min2(Len(frozen), offset + PageBytes)
    IN [snapshot |-> capture.snapshot, offset |-> offset, total |-> Len(frozen),
        sha256 |-> frozen, bytes |-> SubSeq(frozen, offset + 1, end), complete |-> end = Len(frozen)]

Refusal(cause) == [error |-> cause]

Reply(c, reply) ==
    caller' = [caller EXCEPT ![c] =
                  IF @.phase = "gone" THEN Unasked
                  ELSE [@ EXCEPT !.phase = "replied", !.reply = reply, !.cursor = START, !.expires = 0]]

Waiting(c) == caller[c].phase \in {"sent", "gone"} /\ serving = Idle

(* Mutant: an account that is still held is not collected again.            *)
capture_Reuses(c) ==
    /\ Waiting(c) /\ caller[c].cursor = START
    /\ slot' = [slot EXCEPT !.current = Nothing, !.ended = Nothing]
    /\ IF now >= caller[c].expires
       THEN Reply(c, Refusal("Expired")) /\ UNCHANGED serving
       ELSE /\ serving' = [by |-> c, expires |-> caller[c].expires,
                           frozen |-> IF slot.current = Nothing THEN Nothing ELSE slot.current.account]
            /\ UNCHANGED caller
    /\ UNCHANGED <<accounts, now>>

(* capture, up to the call of collect: what was held is gone either way.    *)
capture(c) ==
    /\ Waiting(c) /\ caller[c].cursor = START
    /\ slot' = [slot EXCEPT !.current = Nothing, !.ended = Nothing]
    /\ IF now >= caller[c].expires
       THEN Reply(c, Refusal("Expired")) /\ UNCHANGED serving
       ELSE /\ serving' = [by |-> c, expires |-> caller[c].expires, frozen |-> Nothing]
            /\ UNCHANGED caller
    /\ UNCHANGED <<accounts, now>>

(* collect and freeze, which may fail.                                      *)
collect ==
    /\ serving # Idle /\ serving.frozen = Nothing
    /\ \/ /\ serving' = [serving EXCEPT !.frozen = accounts[Scope[serving.by]]]
          /\ UNCHANGED caller
       \/ serving' = Idle /\ Reply(serving.by, Refusal("Collect"))
    /\ UNCHANGED <<accounts, now, slot>>

(* The rest of capture.                                                     *)
capture_collected ==
    /\ serving # Idle /\ serving.frozen # Nothing
    /\ serving' = Idle
    /\ LET c == serving.by
           held == [snapshot |-> slot.last + 1, scope |-> Scope[c],
                    account |-> serving.frozen, expires |-> serving.expires]
       IN IF now >= serving.expires
          THEN Reply(c, Refusal("Expired")) /\ UNCHANGED slot
          ELSE IF slot.last = MaxSnapshot
          THEN Reply(c, Refusal("SnapshotsExhausted")) /\ UNCHANGED slot
          ELSE /\ slot' = [slot EXCEPT !.last = @ + 1, !.current = held]
               /\ Reply(c, page_at(held, 0))
    /\ UNCHANGED <<accounts, now>>

Ended(s) ==
    IF s.current = Nothing THEN s
    ELSE [s EXCEPT !.current = Nothing, !.ended = [snapshot |-> s.current.snapshot, scope |-> s.current.scope]]

(* page                                                                     *)
page(c) ==
    /\ Waiting(c) /\ caller[c].cursor # START
    /\ LET snapshot == caller[c].cursor.snapshot
           offset == caller[c].cursor.offset
           held == slot.current
           ended == slot.ended
           lowered == [held EXCEPT !.expires = Min2(@, caller[c].expires)]
           refuse(cause, s) == Reply(c, Refusal(cause)) /\ slot' = s
       IN IF snapshot = 0 THEN refuse("InvalidCursor", slot)
          ELSE IF held = Nothing \/ held.snapshot # snapshot
          THEN refuse(IF ended = Nothing \/ ended.snapshot # snapshot THEN "UnknownSnapshot"
                      ELSE IF ended.scope # Scope[c] THEN "ScopeChanged" ELSE "Expired", slot)
          ELSE IF held.scope # Scope[c] THEN refuse("ScopeChanged", slot)
          ELSE IF now >= lowered.expires THEN refuse("Expired", Ended(slot))
          ELSE IF offset >= Len(held.account)
          THEN refuse("OffsetOutOfRange", [slot EXCEPT !.current = lowered])
          ELSE Reply(c, page_at(held, offset)) /\ slot' = [slot EXCEPT !.current = lowered]
    /\ UNCHANGED <<accounts, now, serving>>

(* expire, which the server calls at any time, and discard, once it lost    *)
(* what the account is about.                                               *)
expire ==
    /\ serving = Idle /\ slot.current # Nothing
    /\ now >= slot.current.expires
    /\ slot' = Ended(slot)
    /\ UNCHANGED <<accounts, now, serving, caller>>

discard ==
    /\ serving = Idle /\ slot.current # Nothing
    /\ slot' = Ended(slot)
    /\ UNCHANGED <<accounts, now, serving, caller>>

----------------------------------------------------------------------------
(* The caller and its PageAssembler                                         *)

(* A new assembler and its first request.                                   *)
Begin(c) ==
    /\ caller[c].phase = "idle" /\ now < MaxTime
    /\ \E expires \in (now + 1)..MaxTime :
          caller' = [caller EXCEPT ![c] = [Unasked EXCEPT !.phase = "sent", !.expires = expires]]
    /\ UNCHANGED <<accounts, now, slot, serving>>

(* The transfer fails, or ends with an account.                             *)
Told(c, result) == caller' = [caller EXCEPT ![c] = [Unasked EXCEPT !.told = result]]

(* ObservationPage::check                                                   *)
check(p) ==
    LET end == p.offset + Len(p.bytes) IN
    /\ p.snapshot # 0 /\ p.total # 0
    /\ Len(p.bytes) \in 1..MaxPageBytes
    /\ end <= MaxOffset
    /\ end <= p.total
    /\ p.complete = (end = p.total)

(* Mutant: a page of another capture is taken for the next one.             *)
follows_AnySnapshot(a, p) ==
    /\ p.total = a.started.total
    /\ p.offset = Len(a.buffer)

(* PageAssembler::follows; nothing is asked for after the completing page.  *)
follows(a, p) ==
    /\ p.snapshot = a.started.snapshot
    /\ p.total = a.started.total
    /\ p.sha256 = a.started.sha256
    /\ p.offset = Len(a.buffer)

(* accept's judgement: the first page is at 0, the others follow.           *)
Acceptable(a, p) ==
    /\ check(p)
    /\ IF a.started = Nothing THEN p.offset = 0 ELSE follows(a, p)

accepted(a, p) ==
    [a EXCEPT !.buffer = @ \o p.bytes, !.reply = Nothing,
              !.started = [snapshot |-> p.snapshot, total |-> p.total,
                           sha256 |-> p.sha256, complete |-> p.complete]]

(* Mutant: finish does not compute the hash.                                *)
finish_Unhashed(a) ==
    IF Len(a.buffer) = a.started.total /\ a.buffer \in Records THEN a.buffer ELSE Nothing

(* finish: every byte, the hash, no whitespace around, and decoding.        *)
finish(a) ==
    IF /\ Len(a.buffer) = a.started.total
       /\ a.buffer = a.started.sha256
       /\ Space \notin {a.buffer[1], a.buffer[Len(a.buffer)]}
       /\ a.buffer \in Records
    THEN a.buffer ELSE Nothing

(* A reply: an error or a page that is refused ends the transfer; next is   *)
(* None once the completing page is in.                                     *)
accept(c, reply) ==
    LET a == caller[c]
        b == accepted(a, reply)
    IN /\ IF "error" \in DOMAIN reply THEN Told(c, Nothing)
          ELSE IF ~Acceptable(a, reply) THEN Told(c, Nothing)
          ELSE IF b.started.complete THEN Told(c, finish(b))
          ELSE IF now = MaxTime THEN Told(c, Nothing)
          ELSE \E expires \in (now + 1)..MaxTime :
                  caller' = [caller EXCEPT ![c] =
                                [b EXCEPT !.phase = "sent", !.expires = expires,
                                          !.cursor = [snapshot |-> b.started.snapshot,
                                                      offset |-> Len(b.buffer)]]]
       /\ UNCHANGED <<accounts, now, slot, serving>>

(* The caller's deadline passes; the late reply is not looked at.           *)
GiveUp(c) ==
    /\ caller[c].phase = "sent" /\ now >= caller[c].expires
    /\ caller' = [caller EXCEPT ![c] = [Unasked EXCEPT !.phase = "gone", !.cursor = caller[c].cursor,
                                                        !.expires = caller[c].expires]]
    /\ UNCHANGED <<accounts, now, slot, serving>>

----------------------------------------------------------------------------
(* The world                                                                *)

Change(s) ==
    /\ \E r \in Records \ {accounts[s]} : accounts' = [accounts EXCEPT ![s] = r]
    /\ UNCHANGED <<now, slot, serving, caller>>

Tick ==
    /\ now < MaxTime
    /\ now' = now + 1
    /\ UNCHANGED <<accounts, slot, serving, caller>>

(* A page with another snapshot, offset, length or content, or, after the   *)
(* first, another hash.                                                     *)
Altered(p, first) ==
    {[p EXCEPT !.snapshot = n] : n \in 0..MaxSnapshot}
        \cup {[p EXCEPT !.offset = n] : n \in 0..MaxOffset}
        \cup {[p EXCEPT !.total = e[1], !.complete = e[2]] : e \in (0..MaxOffset) \X BOOLEAN}
        \cup {[p EXCEPT !.bytes = b] : b \in UNION {[1..n -> Bytes] : n \in 0..(MaxPageBytes + 1)}}
        \cup (IF first THEN {} ELSE {[p EXCEPT !.sha256 = r] : r \in Records})

Receive(c) ==
    LET a == caller[c]
        sent == {a.reply} \cup IF c \notin Garbled \/ "error" \in DOMAIN a.reply THEN {}
                               ELSE Altered(a.reply, a.started = Nothing)
    IN a.phase = "replied" /\ \E reply \in sent : accept(c, reply)

Serve(c) == capture(c) \/ page(c)

PagingNext ==
    \/ \E c \in Callers : Begin(c) \/ Receive(c) \/ GiveUp(c) \/ Serve(c)
    \/ \E s \in Scopes : Change(s)
    \/ collect \/ capture_collected \/ expire \/ discard \/ Tick

PagingSteps == PagingInit /\ [][PagingNext]_pagingVars

(* Callers keep their deadlines and read what comes; time passes.  The      *)
(* responder may stop.                                                      *)
PagingFairness ==
    /\ WF_pagingVars(Tick)
    /\ \A c \in Callers : WF_pagingVars(Receive(c)) /\ WF_pagingVars(GiveUp(c))

----------------------------------------------------------------------------
(* Refinement                                                               *)

Asked(c) ==
    \/ caller[c].phase = "sent"
    \/ caller[c].phase = "replied" /\ "error" \notin DOMAIN caller[c].reply

Observed(c) ==
    IF ~Asked(c) THEN Nothing
    ELSE IF caller[c].started # Nothing THEN caller[c].started.sha256
    ELSE IF caller[c].reply # Nothing THEN caller[c].reply.sha256
    ELSE IF serving.by = c THEN serving.frozen
    ELSE Nothing

Atomic == INSTANCE AtomicObservation WITH
    account <- accounts,
    None <- Nothing,
    asked <- [c \in Callers |-> Asked(c)],
    kept <- [c \in Callers |-> Observed(c)],
    answer <- [c \in Callers |-> caller[c].told]

(* Its steps, without the fairness.                                         *)
AtomicSteps == Atomic!Init /\ [][Atomic!Next]_(Atomic!vars)

(* However pages, other callers' captures, deadlines, altered pages and     *)
(* changes of the account interleave, what finish yields is the account of  *)
(* the caller's scope at one moment after it asked, and every transfer ends.*)
PagingIsAtomic == Atomic!Spec
=============================================================================
