------------------------ MODULE CellDirectories_proofs ------------------------
(***************************************************************************)
(* Proof that a cell's number and directory stay one cell's for good, for   *)
(* any threads and processes, any numbers and any crashes and power losses. *)
(***************************************************************************)
EXTENDS CellDirectories, WellFoundedInduction, TLAPS

Steps == {"idle", "mutex", "list_first", "list_second", "mkdir", "sync_new", "sync_exists",
          "naming", "rename", "sync_cells", "sync_retired"}

States == [cells : [Numbers -> Directories \cup {None}],
           retired : [Numbers -> Directories \cup {None}]]

CallRecords == [lowest : Nat, attempt : Nat, seen : Nat, next : 0..MaxNumber,
                directory : Directories \cup {None}, allocating : BOOLEAN]

DirTypeOK ==
    /\ disk \in Seq(States)
    /\ Len(disk) >= 1
    /\ made \in 0..MaxDirectories
    /\ controller \in Processes \cup {None}
    /\ mutex \in Threads \cup {None}
    /\ pc \in [Threads -> Steps]
    /\ call \in [Threads -> CallRecords]
    /\ issued \subseteq [number : Numbers, directory : Directories, allocated : BOOLEAN]

(* Where each thread is: calls run under the writer lock, and an allocation *)
(* past its wait for the mutex holds it.                                    *)
ThreadOK(t) ==
    /\ pc[t] = "idle" => call[t] = NoCall
    /\ pc[t] # "idle" => controller = ProcessOf[t]
    /\ mutex = t <=> (call[t].allocating /\ pc[t] # "mutex")
    /\ pc[t] \in {"mutex", "list_first", "list_second"} => call[t].allocating
    /\ pc[t] \in {"mkdir", "sync_new", "sync_exists", "naming", "rename"} => call[t].next \in Numbers

(* A directory is under a number in one place only.                         *)
Kept(state, number, directory) ==
    (state.cells[number] = directory) # (state.retired[number] = directory)

(* A directory that a call has made and not yet returned.                   *)
MadeIsKept ==
    \A t \in Threads :
        pc[t] = "sync_new" =>
            /\ call[t].directory \in Directories
            /\ call[t].directory <= made
            /\ Kept(Now, call[t].next, call[t].directory)

AllAreMade ==
    /\ \A i \in issued : i.directory <= made
    /\ \A k \in DOMAIN disk, n \in Numbers :
          /\ disk[k].cells[n] # None => disk[k].cells[n] <= made
          /\ disk[k].retired[n] # None => disk[k].retired[n] <= made

(* Both listings together see every number that was allocated: between them *)
(* a cell can only move into the directory that is still to be listed.      *)
ListingsSee ==
    \A t \in Threads, i \in issued :
        pc[t] = "list_second" /\ i.allocated =>
            i.number <= call[t].seen \/ Now.retired[i.number] # None

(* So the number an allocation goes for is above them all.                  *)
NumberIsNew ==
    \A t \in Threads, i \in issued :
        pc[t] \in {"mkdir", "sync_new"} /\ call[t].allocating /\ i.allocated =>
            i.number < call[t].next

DInv ==
    /\ DirTypeOK
    /\ \A t \in Threads : ThreadOK(t)
    /\ MadeIsKept
    /\ AllAreMade
    /\ ListingsSee
    /\ NumberIsNew
    /\ IdentitiesAreKept

----------------------------------------------------------------------------
(* The largest of a set of numbers                                          *)

LEMMA LeastNat ==
    ASSUME NEW T, T \subseteq Nat, T # {}
    PROVE  \E x \in T : \A y \in T : x <= y
<1>1. PICK x \in T : \A y \in T : ~ (<<y, x>> \in OpToRel(<, Nat))
  BY WFMin, NatLessThanWellFounded
<1>2. \A y \in T : x <= y
  <2> SUFFICES ASSUME NEW y \in T, y < x PROVE FALSE
    OBVIOUS
  <2>1. <<y, x>> \in OpToRel(<, Nat)
    BY DEF OpToRel
  <2> QED
    BY <1>1, <2>1
<1> QED
  BY <1>2

LEMMA MaxOfBounded ==
    ASSUME NEW n \in Nat, NEW S, S \subseteq 0..n, S # {}
    PROVE  /\ Max(S) \in S
           /\ \A y \in S : Max(S) >= y
<1> DEFINE T == {n - x : x \in S}
<1>1. T \subseteq Nat
  OBVIOUS
<1>2. T # {}
  <2>1. PICK x \in S : TRUE
    OBVIOUS
  <2>2. n - x \in T
    OBVIOUS
  <2> QED
    BY <2>2
<1>3. PICK m \in T : \A y \in T : m <= y
  <2> HIDE DEF T
  <2> QED
    BY <1>1, <1>2, LeastNat
<1>4. PICK x \in S : m = n - x
  OBVIOUS
<1>5. \A y \in S : x >= y
  BY <1>3, <1>4
<1> QED
  BY <1>5 DEF Max

(* A listing finds the largest number of a directory.                       *)
LEMMA LargestOfDirectory ==
    ASSUME NEW directory
    PROVE  /\ Largest(directory) \in 0..MaxNumber
           /\ \A n \in Numbers : directory[n] # None => n <= Largest(directory)
<1> DEFINE S == {0} \cup {n \in Numbers : directory[n] # None}
<1>1. S \subseteq 0..MaxNumber /\ S # {} /\ MaxNumber \in Nat
  BY DirectoriesAssumption DEF Numbers
<1>2. Max(S) \in S /\ \A y \in S : Max(S) >= y
  <2> HIDE DEF S
  <2> QED
    BY <1>1, MaxOfBounded
<1>3. Largest(directory) = Max(S)
  BY DEF Largest
<1> QED
  BY <1>1, <1>2, <1>3 DEF Numbers

LEMMA MaxOfThree ==
    ASSUME NEW a \in Nat, NEW b \in Nat, NEW c \in Nat
    PROVE  /\ Max({a, b, c}) \in Nat
           /\ Max({a, b, c}) >= a /\ Max({a, b, c}) >= b /\ Max({a, b, c}) >= c
<1> DEFINE S == {a, b, c}
<1>1. S \subseteq 0..(a + b + c) /\ S # {} /\ a + b + c \in Nat
  OBVIOUS
<1>2. Max(S) \in S /\ \A y \in S : Max(S) >= y
  <2> HIDE DEF S
  <2> QED
    BY <1>1, MaxOfBounded
<1> QED
  BY <1>2

----------------------------------------------------------------------------
(* The disk                                                                 *)

LEMMA DiskNow == ASSUME DirTypeOK PROVE Now \in States /\ Len(disk) \in DOMAIN disk
  BY DEF DirTypeOK, Now

LEMMA DiskSynced ==
    ASSUME DirTypeOK, disk' = Synced \/ disk' = disk
    PROVE  /\ disk' \in Seq(States) /\ Len(disk') >= 1
           /\ Now' = Now
           /\ \A k \in DOMAIN disk' : \E j \in DOMAIN disk : disk'[k] = disk[j]
<1>1. CASE disk' = disk
  BY <1>1 DEF DirTypeOK, Now
<1>2. CASE disk' = Synced
  <2>1. disk' = <<Now>> /\ Now \in States
    BY <1>2, DiskNow DEF Synced
  <2>2. Now' = Now
    BY <2>1 DEF Now
  <2>3. \A k \in DOMAIN disk' : disk'[k] = disk[Len(disk)]
    BY <2>1 DEF Now
  <2> QED
    BY <2>1, <2>2, <2>3, DiskNow
<1> QED
  BY <1>1, <1>2

LEMMA DiskChanged ==
    ASSUME DirTypeOK, NEW state \in States, disk' = Append(disk, state)
    PROVE  /\ disk' \in Seq(States) /\ Len(disk') >= 1
           /\ Now' = state
           /\ \A k \in DOMAIN disk' :
                 disk'[k] = state \/ \E j \in DOMAIN disk : disk'[k] = disk[j]
  BY DEF DirTypeOK, Now

----------------------------------------------------------------------------
(* Steps                                                                    *)

LEMMA DirInit == Init => DInv
<1> SUFFICES ASSUME Init PROVE DInv
  OBVIOUS
<1> DEFINE state == [cells |-> [n \in Numbers |-> None], retired |-> [n \in Numbers |-> None]]
<1>1. state \in States /\ disk = <<state>>
  BY DEF Init, States
<1>2. NoCall \in CallRecords /\ NoCall.allocating = FALSE
  BY DirectoriesAssumption DEF NoCall, CallRecords
<1> HIDE DEF state
<1>3. DirTypeOK
  BY <1>1, <1>2, DirectoriesAssumption DEF Init, DirTypeOK, Steps
<1>4. \A t \in Threads : ThreadOK(t)
  BY <1>2, DirectoriesAssumption DEF Init, ThreadOK
<1>5. MadeIsKept /\ AllAreMade /\ ListingsSee /\ NumberIsNew
  BY DEF Init, MadeIsKept, AllAreMade, ListingsSee, NumberIsNew
<1>6. IdentitiesAreKept
  BY DEF Init, IdentitiesAreKept, NeverAllocatedTwice, DirectoryIsKept, At
<1> QED
  BY <1>3, <1>4, <1>5, <1>6 DEF DInv

(* Only this thread moves, and the mutex stays with whom it was or is       *)
(* taken or given up by this thread.                                        *)
OnlyThread(t) ==
    /\ pc' \in [Threads -> Steps]
    /\ call' \in [Threads -> CallRecords]
    /\ mutex' \in Threads \cup {None}
    /\ \A u \in Threads \ {t} :
          pc'[u] = pc[u] /\ call'[u] = call[u] /\ (mutex' = u <=> mutex = u)
    /\ controller' = controller
    /\ ThreadOK(t)'

LEMMA OtherThreads ==
    ASSUME DInv, NEW t \in Threads, OnlyThread(t)
    PROVE  /\ \A u \in Threads : ThreadOK(u)'
           /\ \A u \in Threads : pc'[u] # "idle" => controller' = ProcessOf[u]
  BY DEF DInv, ThreadOK, OnlyThread

(* A step that makes, returns and moves no directory.                       *)
LEMMA LocalStep ==
    ASSUME DInv, NEW t \in Threads, OnlyThread(t),
           disk' = disk \/ disk' = Synced,
           UNCHANGED <<made, issued>>,
           pc'[t] # "sync_new",
           pc'[t] = "list_second" =>
               \A i \in issued :
                   i.allocated => i.number <= call'[t].seen \/ Now.retired[i.number] # None,
           pc'[t] = "mkdir" /\ call'[t].allocating =>
               \A i \in issued : i.allocated => i.number < call'[t].next
    PROVE  DInv'
<1>1. DirTypeOK
  BY DEF DInv
<1>2. /\ disk' \in Seq(States) /\ Len(disk') >= 1
      /\ Now' = Now
      /\ \A k \in DOMAIN disk' : \E j \in DOMAIN disk : disk'[k] = disk[j]
  BY <1>1, DiskSynced
<1>3. DirTypeOK'
  BY <1>1, <1>2 DEF DirTypeOK, OnlyThread
<1>4. /\ \A u \in Threads : ThreadOK(u)'
      /\ \A u \in Threads : pc'[u] # "idle" => controller' = ProcessOf[u]
  BY OtherThreads
<1>5. MadeIsKept'
  <2> SUFFICES ASSUME NEW u \in Threads, pc'[u] = "sync_new"
               PROVE  /\ call'[u].directory \in Directories
                      /\ call'[u].directory <= made
                      /\ Kept(Now, call'[u].next, call'[u].directory)
    BY <1>2 DEF MadeIsKept, Kept
  <2>1. u # t /\ pc[u] = "sync_new" /\ call'[u] = call[u]
    BY DEF OnlyThread
  <2> QED
    BY <2>1 DEF DInv, MadeIsKept
<1>10. AllAreMade'
  BY <1>2 DEF DInv, AllAreMade
<1>6. ListingsSee'
  <2> SUFFICES ASSUME NEW u \in Threads, NEW i \in issued, pc'[u] = "list_second", i.allocated
               PROVE  i.number <= call'[u].seen \/ Now.retired[i.number] # None
    BY <1>2 DEF ListingsSee
  <2>1. CASE u = t
    BY <2>1
  <2>2. CASE u # t
    BY <2>2 DEF DInv, ListingsSee, OnlyThread
  <2> QED
    BY <2>1, <2>2
<1>7. NumberIsNew'
  BY DEF DInv, NumberIsNew, OnlyThread
<1>8. NeverAllocatedTwice'
  BY <1>4 DEF DInv, IdentitiesAreKept, NeverAllocatedTwice, At
<1>9. DirectoryIsKept'
  BY <1>2 DEF DInv, IdentitiesAreKept, DirectoryIsKept
<1> QED
  BY <1>3, <1>4, <1>5, <1>6, <1>7, <1>8, <1>9, <1>10 DEF DInv, IdentitiesAreKept

LEMMA NoCallType == NoCall \in CallRecords /\ NoCall.allocating = FALSE
  BY DirectoriesAssumption DEF NoCall, CallRecords

(* A call that returns leaves the mutex to nobody or to another thread.     *)
LEMMA ReturnOnly ==
    ASSUME DInv, NEW t \in Threads, Return(t), UNCHANGED controller
    PROVE  OnlyThread(t) /\ pc'[t] = "idle"
<1>1. pc' = [pc EXCEPT ![t] = "idle"] /\ call' = [call EXCEPT ![t] = NoCall]
      /\ mutex' = IF mutex = t THEN None ELSE mutex
  BY DEF Return, Goto
<1>2. pc \in [Threads -> Steps] /\ call \in [Threads -> CallRecords] /\ mutex \in Threads \cup {None}
  BY DEF DInv, DirTypeOK
<1>3. pc'[t] = "idle" /\ call'[t] = NoCall
  BY <1>1, <1>2
<1>4. ThreadOK(t)'
  BY <1>1, <1>3, NoCallType, DirectoriesAssumption DEF ThreadOK
<1> QED
  BY <1>1, <1>2, <1>3, <1>4, NoCallType, DirectoriesAssumption DEF OnlyThread, Steps

LEMMA ReturnStep ==
    ASSUME DInv, NEW t \in Threads, Return(t), UNCHANGED <<made, controller, issued>>,
           disk' = disk \/ disk' = Synced
    PROVE  DInv'
  BY ReturnOnly, LocalStep

(* This thread goes on in its call and keeps what it holds of the mutex.    *)
LEMMA GotoOnly ==
    ASSUME DInv, NEW t \in Threads, NEW step \in Steps \ {"idle", "mutex"}, Goto(t, step),
           pc[t] \notin {"idle", "mutex"},
           step \in {"list_first", "list_second"} => call[t].allocating,
           call' \in [Threads -> CallRecords],
           \A u \in Threads \ {t} : call'[u] = call[u],
           call'[t].allocating = call[t].allocating,
           step \in {"mkdir", "sync_new", "sync_exists", "naming", "rename"} =>
               call'[t].next \in Numbers,
           UNCHANGED <<controller, mutex>>
    PROVE  OnlyThread(t) /\ pc'[t] = step
<1>1. pc' = [pc EXCEPT ![t] = step]
  BY DEF Goto
<1>2. pc \in [Threads -> Steps] /\ mutex \in Threads \cup {None} /\ ThreadOK(t)
  BY DEF DInv, DirTypeOK
<1>3. ThreadOK(t)'
  BY <1>1, <1>2 DEF ThreadOK
<1> QED
  BY <1>1, <1>2, <1>3 DEF OnlyThread

(* Calls begin under the writer lock, with no locals of an earlier call.    *)
LEMMA BeginSteps ==
    ASSUME DInv, NEW t \in Threads, allocate_cell(t) \/ create_cell_dir(t) \/ retire(t)
    PROVE  DInv'
<1>1. /\ pc \in [Threads -> Steps] /\ call \in [Threads -> CallRecords]
      /\ mutex \in Threads \cup {None} /\ Now \in States
  BY DiskNow DEF DInv, DirTypeOK
<1>2. /\ pc[t] = "idle" /\ controller = ProcessOf[t]
      /\ UNCHANGED <<disk, made, controller, mutex, issued>>
      /\ call[t] = NoCall /\ call[t].allocating = FALSE /\ mutex # t
  BY NoCallType DEF allocate_cell, create_cell_dir, retire, Begin, At, DInv, ThreadOK
<1>3. CASE allocate_cell(t)
  <2>1. pc' = [pc EXCEPT ![t] = "mutex"] /\ call' = [call EXCEPT ![t].allocating = TRUE]
    BY <1>3 DEF allocate_cell, Begin, Goto
  <2>2. call' \in [Threads -> CallRecords] /\ call'[t].allocating = TRUE
    BY <1>1, <2>1 DEF CallRecords
  <2>3. ThreadOK(t)'
    BY <1>1, <1>2, <2>1, <2>2 DEF ThreadOK
  <2>4. OnlyThread(t)
    BY <1>1, <1>2, <2>1, <2>2, <2>3 DEF OnlyThread, Steps
  <2> QED
    BY <1>1, <1>2, <2>1, <2>4, LocalStep
<1>4. CASE create_cell_dir(t)
  <2>1. PICK n \in Numbers :
            pc' = [pc EXCEPT ![t] = "mkdir"] /\ call' = [call EXCEPT ![t].next = n]
    BY <1>4 DEF create_cell_dir, Begin, Goto
  <2>2. /\ call' \in [Threads -> CallRecords]
        /\ call'[t].allocating = FALSE /\ call'[t].next = n
    BY <1>1, <1>2, <2>1, DirectoriesAssumption DEF CallRecords, Numbers
  <2>3. ThreadOK(t)'
    BY <1>1, <1>2, <2>1, <2>2 DEF ThreadOK
  <2>4. OnlyThread(t)
    BY <1>1, <1>2, <2>1, <2>2, <2>3 DEF OnlyThread, Steps
  <2> QED
    BY <1>1, <1>2, <2>1, <2>2, <2>4, LocalStep
<1>5. CASE retire(t)
  <2>1. PICK n \in Numbers :
            /\ Now.cells[n] # None
            /\ pc' = [pc EXCEPT ![t] = "naming"]
            /\ call' = [call EXCEPT ![t].next = n, ![t].directory = Now.cells[n]]
    BY <1>5 DEF retire, Begin, Goto
  <2>2. Now.cells[n] \in Directories
    BY <1>1, <2>1 DEF States
  <2>3. /\ call' \in [Threads -> CallRecords]
        /\ call'[t].allocating = FALSE /\ call'[t].next = n
    <3>1. n \in 0..MaxNumber /\ call[t] \in CallRecords
      BY <1>1, DirectoriesAssumption DEF Numbers
    <3>2. call'[t] = [[call[t] EXCEPT !.next = n] EXCEPT !.directory = Now.cells[n]]
      BY <1>1, <2>1
    <3>3. call'[t] \in CallRecords /\ call'[t].allocating = FALSE /\ call'[t].next = n
      BY <1>2, <2>2, <3>1, <3>2 DEF CallRecords
    <3>4. \A u \in Threads \ {t} : call'[u] = call[u]
      BY <1>1, <2>1
    <3>5. call' = [u \in Threads |-> call'[u]]
      BY <1>1, <2>1
    <3> QED
      BY <1>1, <3>3, <3>4, <3>5
  <2>4. ThreadOK(t)'
    BY <1>1, <1>2, <2>1, <2>3 DEF ThreadOK
  <2>5. OnlyThread(t)
    BY <1>1, <1>2, <2>1, <2>3, <2>4 DEF OnlyThread, Steps
  <2> QED
    BY <1>1, <1>2, <2>1, <2>5, LocalStep
<1> QED
  BY <1>3, <1>4, <1>5

LEMMA LockAllocationStep ==
    ASSUME DInv, NEW t \in Threads, LockAllocation(t)
    PROVE  DInv'
<1>1. /\ pc \in [Threads -> Steps] /\ call \in [Threads -> CallRecords]
      /\ mutex \in Threads \cup {None} /\ ThreadOK(t)
  BY DEF DInv, DirTypeOK
<1>2. /\ pc[t] = "mutex" /\ mutex = None /\ mutex' = t
      /\ pc' = [pc EXCEPT ![t] = "list_first"]
      /\ UNCHANGED <<disk, made, controller, call, issued>>
  BY DEF LockAllocation, At, Goto
<1>3. ThreadOK(t)'
  BY <1>1, <1>2 DEF ThreadOK
<1>4. OnlyThread(t)
  BY <1>1, <1>2, <1>3, DirectoriesAssumption DEF OnlyThread, Steps
<1> QED
  BY <1>1, <1>2, <1>4, LocalStep

(* What was allocated is in `cells`, and so is seen, or in `retired`.       *)
LEMMA ListFirstStep ==
    ASSUME DInv, NEW t \in Threads, list_first(t)
    PROVE  DInv'
<1>1. /\ pc \in [Threads -> Steps] /\ call \in [Threads -> CallRecords]
      /\ ThreadOK(t) /\ Now \in States /\ Len(disk) \in DOMAIN disk
  BY DiskNow DEF DInv, DirTypeOK
<1>2. /\ pc[t] = "list_first" /\ Goto(t, "list_second")
      /\ call' = [call EXCEPT ![t].seen = Largest(Now.cells)]
      /\ UNCHANGED <<disk, made, controller, mutex, issued>>
  BY DEF list_first, At, ListingOrder
<1>3. Largest(Now.cells) \in Nat
  BY LargestOfDirectory, DirectoriesAssumption
<1>4. /\ call' \in [Threads -> CallRecords]
      /\ call'[t].seen = Largest(Now.cells) /\ call'[t].allocating = call[t].allocating
  BY <1>1, <1>2, <1>3 DEF CallRecords
<1>5. call[t].allocating
  BY <1>1, <1>2 DEF ThreadOK
<1>6. OnlyThread(t) /\ pc'[t] = "list_second"
  BY <1>2, <1>4, <1>5, GotoOnly DEF Steps
<1>7. ASSUME NEW i \in issued
      PROVE  i.number <= call'[t].seen \/ Now.retired[i.number] # None
  <2>1. i.number \in Numbers /\ i.directory # None
    BY DirectoriesAssumption DEF DInv, DirTypeOK, Directories
  <2>2. Now.cells[i.number] = i.directory \/ Now.retired[i.number] = i.directory
    BY <1>1 DEF DInv, IdentitiesAreKept, DirectoryIsKept, Now
  <2> QED
    BY <1>4, <2>1, <2>2, LargestOfDirectory
<1> QED
  BY <1>2, <1>6, <1>7, LocalStep

LEMMA ListSecondStep ==
    ASSUME DInv, NEW t \in Threads, list_second(t)
    PROVE  DInv'
<1>1. /\ pc \in [Threads -> Steps] /\ call \in [Threads -> CallRecords] /\ ThreadOK(t)
  BY DEF DInv, DirTypeOK
<1>2. pc[t] = "list_second" /\ UNCHANGED <<disk, made, controller, issued>>
  BY DEF list_second, At
<1>3. CASE Return(t)
  BY <1>2, <1>3, ReturnStep
<1>4. CASE /\ NextNumber(t) <= MaxNumber
           /\ call' = [call EXCEPT ![t].next = NextNumber(t)]
           /\ Goto(t, "mkdir")
           /\ UNCHANGED mutex
  <2> DEFINE a == call[t].lowest
             b == call[t].seen + 1
             c == Largest(Now.retired) + 1
  <2>1. a \in Nat /\ b \in Nat /\ c \in Nat /\ b >= 1
    BY <1>1, LargestOfDirectory, DirectoriesAssumption DEF CallRecords
  <2>2. NextNumber(t) = Max({a, b, c})
    BY DEF NextNumber, ListingOrder
  <2>3. /\ NextNumber(t) \in Numbers
        /\ NextNumber(t) > call[t].seen /\ NextNumber(t) > Largest(Now.retired)
    <3>1. Max({a, b, c}) \in Nat /\ Max({a, b, c}) >= b /\ Max({a, b, c}) >= c
      <4> HIDE DEF a, b, c
      <4> QED
        BY <2>1, MaxOfThree
    <3>2. call[t].seen \in Nat /\ Largest(Now.retired) \in Nat
      BY <1>1, LargestOfDirectory, DirectoriesAssumption DEF CallRecords
    <3> QED
      BY <1>4, <2>2, <3>1, <3>2, DirectoriesAssumption DEF Numbers
  <2> HIDE DEF a, b, c
  <2>4. /\ call' \in [Threads -> CallRecords]
        /\ call'[t].next = NextNumber(t) /\ call'[t].allocating = call[t].allocating
    BY <1>1, <1>4, <2>3, DirectoriesAssumption DEF CallRecords, Numbers
  <2>5. OnlyThread(t) /\ pc'[t] = "mkdir"
    BY <1>2, <1>4, <2>3, <2>4, GotoOnly DEF Steps
  <2>6. ASSUME NEW i \in issued, i.allocated
        PROVE  i.number < call'[t].next
    <3>1. i.number \in Numbers
      BY DEF DInv, DirTypeOK
    <3>2. i.number <= call[t].seen \/ i.number <= Largest(Now.retired)
      BY <1>2, <2>6, <3>1, LargestOfDirectory DEF DInv, ListingsSee
    <3>3. call[t].seen \in Nat /\ Largest(Now.retired) \in Nat
      BY <1>1, LargestOfDirectory, DirectoriesAssumption DEF CallRecords
    <3> QED
      BY <2>3, <2>4, <3>1, <3>2, <3>3 DEF Numbers
  <2> QED
    BY <1>2, <2>5, <2>6, LocalStep
<1> QED
  BY <1>3, <1>4 DEF list_second

(* What is kept stays kept when a free number gets a new directory.         *)
LEMMA KeptByMake ==
    ASSUME NEW state \in States, NEW n \in Numbers, state.cells[n] = None,
           NEW new \in Directories, NEW m \in Numbers, NEW d \in Directories,
           d # new, Kept(state, m, d)
    PROVE  Kept([cells |-> [state.cells EXCEPT ![n] = new], retired |-> state.retired], m, d)
  BY DirectoriesAssumption DEF States, Kept, Directories

LEMMA MakeStep ==
    ASSUME DInv, NEW t \in Threads, make_directory(t)
    PROVE  DInv'
<1> DEFINE n == call[t].next
           new == made + 1
           state == [cells |-> [Now.cells EXCEPT ![n] = new], retired |-> Now.retired]
<1>1. /\ pc \in [Threads -> Steps] /\ call \in [Threads -> CallRecords] /\ ThreadOK(t)
      /\ DirTypeOK /\ Now \in States /\ Len(disk) \in DOMAIN disk /\ made \in 0..MaxDirectories
      /\ pc[t] = "mkdir" /\ n \in Numbers /\ UNCHANGED <<controller, issued>>
  BY DiskNow DEF DInv, DirTypeOK, make_directory, At, ThreadOK
<1>2. CASE /\ Now.cells[n] = None
           /\ made < MaxDirectories
           /\ made' = made + 1
           /\ disk' = Changed([Now.cells EXCEPT ![n] = made + 1], Now.retired)
           /\ call' = [call EXCEPT ![t].directory = made + 1]
           /\ Goto(t, "sync_new")
           /\ UNCHANGED mutex
  <2>1. new \in Directories /\ made \in Nat /\ made' = new
    BY <1>1, <1>2, DirectoriesAssumption DEF Directories
  <2>2. state \in States /\ disk' = Append(disk, state)
    BY <1>1, <1>2, <2>1 DEF States, Changed
  <2>3. /\ call' \in [Threads -> CallRecords]
        /\ \A u \in Threads \ {t} : call'[u] = call[u]
        /\ call'[t].directory = new /\ call'[t].next = n
        /\ call'[t].allocating = call[t].allocating
    BY <1>1, <1>2, <2>1 DEF CallRecords
  <2>4. OnlyThread(t) /\ pc'[t] = "sync_new"
    BY <1>1, <1>2, <2>3, GotoOnly DEF Steps
  <2>5. /\ disk' \in Seq(States) /\ Len(disk') >= 1
        /\ Now' = state
        /\ \A k \in DOMAIN disk' :
              disk'[k] = state \/ \E j \in DOMAIN disk : disk'[k] = disk[j]
    <3> HIDE DEF state
    <3> QED
      BY <1>1, <2>2, DiskChanged
  <2>6. ASSUME NEW m \in Numbers, NEW d \in Directories, d <= made, Kept(Now, m, d)
        PROVE  Kept(state, m, d)
    BY <1>1, <1>2, <2>1, <2>6, KeptByMake
  <2>7. state.cells[n] = new /\ state.retired = Now.retired
    BY <1>1 DEF States
  <2>8. /\ Now.retired[n] # new
        /\ \A m \in Numbers :
              /\ state.cells[m] # None => state.cells[m] <= new
              /\ state.retired[m] # None => state.retired[m] <= new
    <3>1. \A m \in Numbers :
            /\ Now.cells[m] # None => Now.cells[m] <= made
            /\ Now.retired[m] # None => Now.retired[m] <= made
      BY <1>1 DEF DInv, AllAreMade, Now
    <3>2. \A m \in Numbers :
            /\ Now.cells[m] \in Directories \cup {None}
            /\ Now.retired[m] \in Directories \cup {None}
      BY <1>1 DEF States
    <3> QED
      BY <1>1, <2>1, <3>1, <3>2, DirectoriesAssumption DEF Directories, States
  <2> HIDE DEF state, n, new
  <2>9. DirTypeOK'
    BY <1>1, <1>2, <2>1, <2>4, <2>5, DirectoriesAssumption
       DEF DInv, DirTypeOK, OnlyThread, Directories
  <2>10. /\ \A u \in Threads : ThreadOK(u)'
         /\ \A u \in Threads : pc'[u] # "idle" => controller' = ProcessOf[u]
    BY <2>4, OtherThreads
  <2>11. MadeIsKept'
    <3> SUFFICES ASSUME NEW u \in Threads, pc'[u] = "sync_new"
                 PROVE  /\ call'[u].directory \in Directories
                        /\ call'[u].directory <= made'
                        /\ Kept(state, call'[u].next, call'[u].directory)
      BY <2>5 DEF MadeIsKept, Kept
    <3>1. CASE u = t
      BY <2>1, <2>3, <2>7, <2>8, <3>1, DirectoriesAssumption DEF Kept, Directories
    <3>2. CASE u # t
      <4>1. /\ pc[u] = "sync_new" /\ call'[u] = call[u]
            /\ call[u].directory \in Directories /\ call[u].directory <= made
            /\ Kept(Now, call[u].next, call[u].directory)
            /\ call[u].next \in Numbers
        BY <2>4, <3>2 DEF OnlyThread, DInv, MadeIsKept, ThreadOK
      <4>2. Kept(state, call[u].next, call[u].directory)
        BY <2>6, <4>1
      <4>3. call[u].directory <= made'
        BY <1>1, <2>1, <4>1, DirectoriesAssumption DEF Directories, new
      <4> QED
        BY <4>1, <4>2, <4>3
    <3> QED
      BY <3>1, <3>2
  <2>12. AllAreMade'
    <3>1. \A i \in issued : i.directory <= made'
      BY <1>1, <2>1, DirectoriesAssumption DEF DInv, DirTypeOK, AllAreMade, Directories, new
    <3>2. ASSUME NEW j \in DOMAIN disk, NEW m \in Numbers
          PROVE  /\ disk[j].cells[m] # None => disk[j].cells[m] <= made'
                 /\ disk[j].retired[m] # None => disk[j].retired[m] <= made'
      <4>1. disk[j].cells[m] \in Directories \cup {None} /\ disk[j].retired[m] \in Directories \cup {None}
        <5>1. disk[j] \in States
          BY <1>1 DEF DirTypeOK
        <5> QED
          BY <5>1 DEF States
      <4> QED
        BY <2>1, <4>1, DirectoriesAssumption DEF DInv, AllAreMade, Directories, new
    <3> QED
      BY <1>1, <2>1, <2>5, <2>8, <3>1, <3>2 DEF AllAreMade
  <2>13. ListingsSee'
    BY <1>1, <2>4, <2>5, <2>7 DEF DInv, ListingsSee, OnlyThread
  <2>14. NumberIsNew'
    BY <1>1, <2>3, <2>4 DEF DInv, NumberIsNew, OnlyThread, n
  <2>15. NeverAllocatedTwice'
    BY <1>1, <2>10 DEF DInv, IdentitiesAreKept, NeverAllocatedTwice, At
  <2>16. DirectoryIsKept'
    <3>1. ASSUME NEW i \in issued PROVE Kept(state, i.number, i.directory)
      BY <1>1, <2>6 DEF DInv, DirTypeOK, AllAreMade, IdentitiesAreKept, DirectoryIsKept, Kept, Now
    <3> QED
      BY <1>1, <2>5, <3>1 DEF DInv, IdentitiesAreKept, DirectoryIsKept, Kept
  <2> QED
    BY <2>9, <2>10, <2>11, <2>12, <2>13, <2>14, <2>15, <2>16 DEF DInv, IdentitiesAreKept
<1>3. CASE Now.cells[n] # None /\ Goto(t, "sync_exists") /\ UNCHANGED <<disk, made, call, mutex>>
  <2>1. OnlyThread(t) /\ pc'[t] = "sync_exists"
    BY <1>1, <1>3, GotoOnly DEF Steps
  <2> QED
    BY <1>1, <1>3, <2>1, LocalStep
<1>4. CASE Return(t) /\ UNCHANGED <<disk, made>>
  BY <1>1, <1>4, ReturnStep
<1> QED
  BY <1>2, <1>3, <1>4 DEF make_directory

(* A cell moves to `retired` under its own number, where nothing was.       *)
LEMMA KeptByRename ==
    ASSUME NEW state \in States, NEW n \in Numbers, state.cells[n] # None, state.retired[n] = None,
           NEW m \in Numbers, NEW d \in Directories, Kept(state, m, d)
    PROVE  Kept([cells |-> [state.cells EXCEPT ![n] = None],
                 retired |-> [state.retired EXCEPT ![n] = state.cells[n]]], m, d)
  BY DirectoriesAssumption DEF States, Kept, Directories

LEMMA RenameStep ==
    ASSUME DInv, NEW t \in Threads, rename(t)
    PROVE  DInv'
<1> DEFINE n == call[t].next
           state == [cells |-> [Now.cells EXCEPT ![n] = None],
                     retired |-> [Now.retired EXCEPT ![n] = Now.cells[n]]]
<1>1. /\ pc \in [Threads -> Steps] /\ call \in [Threads -> CallRecords] /\ ThreadOK(t)
      /\ DirTypeOK /\ Now \in States /\ Len(disk) \in DOMAIN disk
      /\ pc[t] = "rename" /\ n \in Numbers /\ UNCHANGED <<made, controller, issued>>
  BY DiskNow DEF DInv, DirTypeOK, rename, At, ThreadOK
<1>2. CASE Return(t) /\ UNCHANGED disk
  BY <1>1, <1>2, ReturnStep
<1>3. CASE /\ Now.cells[n] # None
           /\ Now.retired[n] = None
           /\ disk' = Changed([Now.cells EXCEPT ![n] = None],
                              [Now.retired EXCEPT ![n] = Now.cells[n]])
           /\ Goto(t, "sync_cells")
           /\ UNCHANGED <<call, mutex>>
  <2>1. state \in States /\ disk' = Append(disk, state)
    BY <1>1, <1>3 DEF States, Changed
  <2>2. OnlyThread(t) /\ pc'[t] = "sync_cells"
    BY <1>1, <1>3, GotoOnly DEF Steps
  <2>3. /\ disk' \in Seq(States) /\ Len(disk') >= 1
        /\ Now' = state
        /\ \A k \in DOMAIN disk' :
              disk'[k] = state \/ \E j \in DOMAIN disk : disk'[k] = disk[j]
    <3> HIDE DEF state
    <3> QED
      BY <1>1, <2>1, DiskChanged
  <2>4. ASSUME NEW m \in Numbers, NEW d \in Directories, Kept(Now, m, d)
        PROVE  Kept(state, m, d)
    BY <1>1, <1>3, <2>4, KeptByRename
  <2>5. \A m \in Numbers :
          /\ Now.retired[m] # None => state.retired[m] # None
          /\ state.cells[m] # None => state.cells[m] <= made
          /\ state.retired[m] # None => state.retired[m] <= made
    <3>1. \A m \in Numbers :
            /\ Now.cells[m] # None => Now.cells[m] <= made
            /\ Now.retired[m] # None => Now.retired[m] <= made
      BY <1>1 DEF DInv, AllAreMade, Now
    <3> QED
      BY <1>1, <1>3, <3>1 DEF States
  <2> HIDE DEF state, n
  <2>6. DirTypeOK'
    BY <1>1, <2>2, <2>3 DEF DInv, DirTypeOK, OnlyThread
  <2>7. /\ \A u \in Threads : ThreadOK(u)'
        /\ \A u \in Threads : pc'[u] # "idle" => controller' = ProcessOf[u]
    BY <2>2, OtherThreads
  <2>8. MadeIsKept'
    <3> SUFFICES ASSUME NEW u \in Threads, pc'[u] = "sync_new"
                 PROVE  /\ call[u].directory \in Directories
                        /\ call[u].directory <= made
                        /\ Kept(state, call[u].next, call[u].directory)
      BY <1>1, <1>3, <2>3 DEF MadeIsKept, Kept
    <3>1. pc[u] = "sync_new" /\ call[u].next \in Numbers
      BY <2>2 DEF OnlyThread, DInv, ThreadOK
    <3> QED
      BY <2>4, <3>1 DEF DInv, MadeIsKept
  <2>9. AllAreMade'
    BY <1>1, <2>3, <2>5 DEF DInv, AllAreMade
  <2>10. ListingsSee'
    <3> SUFFICES ASSUME NEW u \in Threads, NEW i \in issued, pc'[u] = "list_second", i.allocated
                 PROVE  i.number <= call[u].seen \/ state.retired[i.number] # None
      BY <1>1, <1>3, <2>3 DEF ListingsSee
    <3>1. pc[u] = "list_second" /\ i.number \in Numbers
      BY <2>2 DEF OnlyThread, DInv, DirTypeOK
    <3> QED
      BY <2>5, <3>1 DEF DInv, ListingsSee
  <2>11. NumberIsNew'
    BY <1>1, <1>3, <2>2 DEF DInv, NumberIsNew, OnlyThread
  <2>12. NeverAllocatedTwice'
    BY <1>1, <2>7 DEF DInv, IdentitiesAreKept, NeverAllocatedTwice, At
  <2>13. DirectoryIsKept'
    <3>1. ASSUME NEW i \in issued PROVE Kept(state, i.number, i.directory)
      BY <1>1, <2>4 DEF DInv, DirTypeOK, IdentitiesAreKept, DirectoryIsKept, Kept, Now
    <3> QED
      BY <1>1, <2>3, <3>1 DEF DInv, IdentitiesAreKept, DirectoryIsKept, Kept
  <2> QED
    BY <2>6, <2>7, <2>8, <2>9, <2>10, <2>11, <2>12, <2>13 DEF DInv, IdentitiesAreKept
<1> QED
  BY <1>2, <1>3 DEF rename

(* The new number is above every one that was allocated, so returning it    *)
(* allocates none twice; the mutex keeps other allocations from having      *)
(* looked before it was returned.                                           *)
LEMMA SyncNewStep ==
    ASSUME DInv, NEW t \in Threads, sync_new(t)
    PROVE  DInv'
<1> DEFINE r == Returned(t, call[t].next)
<1>1. /\ call \in [Threads -> CallRecords] /\ ThreadOK(t)
      /\ DirTypeOK /\ Now \in States /\ Len(disk) \in DOMAIN disk
      /\ pc[t] = "sync_new" /\ disk' = Synced /\ issued' = issued \cup {r}
      /\ Return(t) /\ UNCHANGED <<made, controller>>
  BY DiskNow DEF DInv, DirTypeOK, sync_new, At
<1>2. /\ call[t].directory \in Directories /\ call[t].directory <= made
      /\ Kept(Now, call[t].next, call[t].directory)
      /\ call[t].next \in Numbers
  BY <1>1 DEF DInv, MadeIsKept, ThreadOK
<1>3. /\ r \in [number : Numbers, directory : Directories, allocated : BOOLEAN]
      /\ r.number = call[t].next /\ r.directory = call[t].directory
      /\ r.allocated = call[t].allocating
  BY <1>1, <1>2 DEF Returned, CallRecords
<1> HIDE DEF r
<1>4. OnlyThread(t) /\ pc'[t] = "idle"
  BY <1>1, ReturnOnly
<1>5. /\ disk' \in Seq(States) /\ Len(disk') >= 1
      /\ Now' = Now
      /\ \A k \in DOMAIN disk' : \E j \in DOMAIN disk : disk'[k] = disk[j]
  BY <1>1, DiskSynced
<1>6. DOMAIN disk' = {1} /\ disk'[1] = Now
  BY <1>1 DEF Synced
<1>7. DirTypeOK'
  BY <1>1, <1>3, <1>4, <1>5 DEF DInv, DirTypeOK, OnlyThread
<1>8. /\ \A u \in Threads : ThreadOK(u)'
      /\ \A u \in Threads : pc'[u] # "idle" => controller' = ProcessOf[u]
  BY <1>4, OtherThreads
<1>9. MadeIsKept'
  <2> SUFFICES ASSUME NEW u \in Threads, pc'[u] = "sync_new"
               PROVE  /\ call'[u].directory \in Directories
                      /\ call'[u].directory <= made
                      /\ Kept(Now, call'[u].next, call'[u].directory)
    BY <1>1, <1>5 DEF MadeIsKept, Kept
  <2>1. u # t /\ pc[u] = "sync_new" /\ call'[u] = call[u]
    BY <1>4 DEF OnlyThread
  <2> QED
    BY <2>1 DEF DInv, MadeIsKept
<1>10. AllAreMade'
  BY <1>1, <1>2, <1>3, <1>5 DEF DInv, AllAreMade
<1>11. ASSUME NEW u \in Threads, r.allocated, pc'[u] # "idle"
       PROVE  ~call'[u].allocating \/ pc'[u] = "mutex"
  <2>1. u # t /\ mutex = t /\ call'[u] = call[u] /\ pc'[u] = pc[u]
    BY <1>1, <1>3, <1>4, <1>11 DEF OnlyThread, ThreadOK
  <2> QED
    BY <2>1 DEF DInv, ThreadOK
<1>12. ListingsSee'
  <2> SUFFICES ASSUME NEW u \in Threads, NEW i \in issued \cup {r}, pc'[u] = "list_second",
                      i.allocated
               PROVE  i.number <= call'[u].seen \/ Now.retired[i.number] # None
    BY <1>1, <1>5 DEF ListingsSee
  <2>1. u # t /\ pc[u] = "list_second" /\ call'[u] = call[u]
    BY <1>4 DEF OnlyThread
  <2>2. i # r
    BY <1>11, <2>1 DEF DInv, ThreadOK
  <2> QED
    BY <2>1, <2>2 DEF DInv, ListingsSee
<1>13. NumberIsNew'
  <2> SUFFICES ASSUME NEW u \in Threads, NEW i \in issued \cup {r},
                      pc'[u] \in {"mkdir", "sync_new"}, call'[u].allocating, i.allocated
               PROVE  i.number < call'[u].next
    BY <1>1 DEF NumberIsNew
  <2>1. u # t /\ pc'[u] = pc[u] /\ call'[u] = call[u]
    BY <1>4 DEF OnlyThread
  <2>2. i # r
    BY <1>11
  <2> QED
    BY <2>1, <2>2 DEF DInv, NumberIsNew
<1>14. NeverAllocatedTwice'
  <2>1. ASSUME NEW i \in issued, i.allocated, r.allocated PROVE i.number # r.number
    <3>1. i.number < r.number
      BY <1>1, <1>3, <2>1 DEF DInv, NumberIsNew
    <3>2. i.number \in Nat /\ r.number \in Nat
      BY <1>1, <1>3 DEF DirTypeOK, Numbers
    <3> QED
      BY <3>1, <3>2
  <2> QED
    BY <1>1, <1>8, <2>1 DEF DInv, IdentitiesAreKept, NeverAllocatedTwice, At
<1>15. DirectoryIsKept'
  <2>1. ASSUME NEW i \in issued PROVE Kept(Now, i.number, i.directory)
    BY <1>1 DEF DInv, IdentitiesAreKept, DirectoryIsKept, Kept, Now
  <2> QED
    BY <1>1, <1>2, <1>3, <1>6, <2>1 DEF DirectoryIsKept, Kept
<1> QED
  BY <1>7, <1>8, <1>9, <1>10, <1>12, <1>13, <1>14, <1>15 DEF DInv, IdentitiesAreKept

LEMMA SyncExistsStep ==
    ASSUME DInv, NEW t \in Threads, sync_exists(t)
    PROVE  DInv'
<1>1. /\ pc \in [Threads -> Steps] /\ call \in [Threads -> CallRecords] /\ ThreadOK(t)
      /\ pc[t] = "sync_exists" /\ disk' = Synced /\ UNCHANGED <<made, controller, issued>>
  BY DEF DInv, DirTypeOK, sync_exists, At
<1>2. CASE Return(t)
  BY <1>1, <1>2, ReturnStep
<1>3. CASE /\ call[t].allocating
           /\ call' = [call EXCEPT ![t].lowest = call[t].next + 1,
                                  ![t].attempt = call[t].attempt + 1]
           /\ Goto(t, "list_first")
           /\ UNCHANGED mutex
  <2> DEFINE first == [call[t] EXCEPT !.lowest = call[t].next + 1]
             new == [first EXCEPT !.attempt = call[t].attempt + 1]
  <2>1. call[t].next + 1 \in Nat /\ call[t].attempt + 1 \in Nat /\ call[t] \in CallRecords
    BY <1>1, DirectoriesAssumption DEF CallRecords
  <2>2. first \in CallRecords /\ first.allocating = call[t].allocating
    BY <2>1 DEF CallRecords
  <2>3. new \in CallRecords /\ new.allocating = call[t].allocating
    <3> HIDE DEF first
    <3> QED
      BY <2>1, <2>2 DEF CallRecords
  <2>5. call' = [call EXCEPT ![t] = new]
    BY <1>1, <1>3
  <2> HIDE DEF new
  <2>6. /\ call' \in [Threads -> CallRecords] /\ call'[t].allocating
        /\ \A u \in Threads \ {t} : call'[u] = call[u]
    BY <1>1, <1>3, <2>3, <2>5
  <2>4. OnlyThread(t) /\ pc'[t] = "list_first"
    BY <1>1, <1>3, <2>6, GotoOnly DEF Steps
  <2> QED
    BY <1>1, <2>4, LocalStep
<1> QED
  BY <1>2, <1>3 DEF sync_exists

LEMMA OtherSteps ==
    ASSUME DInv, NEW t \in Threads,
           naming(t) \/ sync_cells(t) \/ sync_retired(t) \/ Fails(t)
    PROVE  DInv'
<1>1. /\ pc \in [Threads -> Steps] /\ call \in [Threads -> CallRecords] /\ ThreadOK(t)
      /\ UNCHANGED <<made, controller, issued>>
  BY DEF DInv, DirTypeOK, naming, sync_cells, sync_retired, Fails
<1>2. CASE Return(t) /\ (disk' = disk \/ disk' = Synced)
  BY <1>1, <1>2, ReturnStep
<1>3. CASE naming(t) /\ Goto(t, "rename") /\ UNCHANGED <<disk, call, mutex>>
  <2>1. pc[t] = "naming" /\ call[t].next \in Numbers
    BY <1>1, <1>3 DEF naming, At, ThreadOK
  <2>2. OnlyThread(t) /\ pc'[t] = "rename"
    BY <1>1, <1>3, <2>1, GotoOnly DEF Steps
  <2> QED
    BY <1>1, <1>3, <2>2, LocalStep
<1>4. CASE sync_cells(t)
  <2>1. OnlyThread(t) /\ pc'[t] = "sync_retired"
    BY <1>1, <1>4, GotoOnly DEF sync_cells, At, Steps
  <2> QED
    BY <1>1, <1>4, <2>1, LocalStep DEF sync_cells
<1> QED
  BY <1>2, <1>3, <1>4 DEF naming, sync_retired, Fails

(* The writer lock is taken while no thread is in a call, and given up so.  *)
LEMMA WriterStep ==
    ASSUME DInv, NEW p \in Processes, lock(p) \/ drop_lock(p)
    PROVE  DInv'
<1>1. /\ UNCHANGED <<disk, made, mutex, pc, call, issued>>
      /\ controller' \in Processes \cup {None}
  BY DEF lock, drop_lock
<1>2. \A t \in Threads : pc[t] = "idle"
  <2>1. CASE lock(p)
    BY <2>1, DirectoriesAssumption DEF lock, DInv, ThreadOK
  <2>2. CASE drop_lock(p)
    BY <2>2 DEF drop_lock, At, DInv, ThreadOK
  <2> QED
    BY <2>1, <2>2
<1>3. Now' = Now
  BY <1>1 DEF Now
<1>4. DirTypeOK' /\ \A t \in Threads : ThreadOK(t)'
  BY <1>1, <1>2 DEF DInv, DirTypeOK, ThreadOK
<1>5. MadeIsKept' /\ AllAreMade' /\ ListingsSee' /\ NumberIsNew'
  BY <1>1, <1>2 DEF DInv, MadeIsKept, AllAreMade, ListingsSee, NumberIsNew
<1>6. IdentitiesAreKept'
  BY <1>1, <1>2 DEF DInv, IdentitiesAreKept, NeverAllocatedTwice, DirectoryIsKept, At
<1> QED
  BY <1>4, <1>5, <1>6 DEF DInv

(* A death or a power loss ends every call; what was returned is on every   *)
(* state the disk can come back with.                                       *)
LEMMA EndStep ==
    ASSUME DInv, (\E p \in Processes : Die(p)) \/ PowerLoss
    PROVE  DInv'
<1>1. PICK processes \in SUBSET Processes :
        /\ Idle(processes)
        /\ \A t \in Threads : pc[t] # "idle" => ProcessOf[t] \in processes
        /\ UNCHANGED <<made, issued>>
        /\ disk' = disk \/ \E k \in DOMAIN disk : disk' = <<disk[k]>>
  <2>1. ASSUME NEW p \in Processes, Die(p)
        PROVE  Idle({p}) /\ \A t \in Threads : pc[t] # "idle" => ProcessOf[t] \in {p}
    BY <2>1 DEF Die, DInv, ThreadOK
  <2>2. CASE \E p \in Processes : Die(p)
    BY <2>1, <2>2 DEF Die
  <2>3. CASE PowerLoss
    BY <2>3, DirectoriesAssumption DEF PowerLoss
  <2> QED
    BY <2>2, <2>3
<1>2. /\ pc \in [Threads -> Steps] /\ call \in [Threads -> CallRecords]
      /\ mutex \in Threads \cup {None} /\ controller \in Processes \cup {None}
      /\ disk \in Seq(States) /\ Len(disk) >= 1
  BY DEF DInv, DirTypeOK
<1>3. \A t \in Threads : ThreadOK(t)
  BY DEF DInv
<1>4. \A t \in Threads : pc'[t] = "idle" /\ call'[t] = NoCall
  BY <1>1, <1>2, <1>3 DEF Idle, ThreadOK
<1>5. /\ pc' \in [Threads -> Steps] /\ call' \in [Threads -> CallRecords]
  <2>1. pc' = [t \in Threads |-> pc'[t]] /\ call' = [t \in Threads |-> call'[t]]
    BY <1>1 DEF Idle
  <2> QED
    BY <1>4, <2>1, NoCallType DEF Steps
<1>6. mutex' = None
  <2>1. mutex # None => pc[mutex] # "idle"
    BY <1>2, <1>3, NoCallType DEF ThreadOK
  <2> QED
    BY <1>1, <1>2, <2>1 DEF Idle
<1>7. controller' \in Processes \cup {None}
  BY <1>1, <1>2 DEF Idle
<1>8. /\ disk' \in Seq(States) /\ Len(disk') >= 1
      /\ \A k \in DOMAIN disk' : \E j \in DOMAIN disk : disk'[k] = disk[j]
  <2>1. CASE disk' = disk
    BY <1>2, <2>1
  <2>2. ASSUME NEW j \in DOMAIN disk, disk' = <<disk[j]>>
        PROVE  /\ disk' \in Seq(States) /\ Len(disk') >= 1
               /\ \A k \in DOMAIN disk' : disk'[k] = disk[j]
    BY <1>2, <2>2
  <2> QED
    BY <1>1, <2>1, <2>2
<1>9. DirTypeOK'
  BY <1>1, <1>5, <1>6, <1>7, <1>8 DEF DInv, DirTypeOK
<1>10. \A t \in Threads : ThreadOK(t)'
  BY <1>4, <1>6, NoCallType, DirectoriesAssumption DEF ThreadOK
<1>11. MadeIsKept' /\ ListingsSee' /\ NumberIsNew'
  BY <1>4 DEF MadeIsKept, ListingsSee, NumberIsNew
<1>12. AllAreMade'
  BY <1>1, <1>8 DEF DInv, AllAreMade
<1>13. IdentitiesAreKept'
  BY <1>1, <1>4, <1>8 DEF DInv, IdentitiesAreKept, NeverAllocatedTwice, DirectoryIsKept, At
<1> QED
  BY <1>9, <1>10, <1>11, <1>12, <1>13 DEF DInv

LEMMA DirStutter == DInv /\ UNCHANGED vars => DInv'
<1> SUFFICES ASSUME DInv, UNCHANGED vars PROVE DInv'
  OBVIOUS
<1>1. UNCHANGED <<disk, made, controller, mutex, pc, call, issued>>
  BY DEF vars
<1>2. Now' = Now
  BY <1>1 DEF Now
<1>3. DirTypeOK' /\ \A t \in Threads : ThreadOK(t)'
  BY <1>1 DEF DInv, DirTypeOK, ThreadOK
<1>4. MadeIsKept' /\ AllAreMade' /\ ListingsSee' /\ NumberIsNew'
  BY <1>1, <1>2 DEF DInv, MadeIsKept, AllAreMade, ListingsSee, NumberIsNew, Kept
<1>5. IdentitiesAreKept'
  BY <1>1 DEF DInv, IdentitiesAreKept, NeverAllocatedTwice, DirectoryIsKept, At
<1> QED
  BY <1>3, <1>4, <1>5 DEF DInv

LEMMA DirStep == DInv /\ [Next]_vars => DInv'
<1> SUFFICES ASSUME DInv, [Next]_vars PROVE DInv'
  OBVIOUS
<1>1. ASSUME NEW t \in Threads,
             \/ allocate_cell(t) \/ LockAllocation(t) \/ list_first(t) \/ list_second(t)
             \/ create_cell_dir(t) \/ make_directory(t) \/ Fails(t) \/ sync_new(t)
             \/ sync_exists(t) \/ retire(t) \/ naming(t) \/ rename(t)
             \/ sync_cells(t) \/ sync_retired(t)
      PROVE  DInv'
  BY <1>1, BeginSteps, LockAllocationStep, ListFirstStep, ListSecondStep, MakeStep, SyncNewStep,
     SyncExistsStep, RenameStep, OtherSteps
<1> QED
  BY <1>1, WriterStep, EndStep, DirStutter DEF Next

(* The inductive invariant of the cell directories.                         *)
THEOREM DirectoriesInvariant == Spec => []DInv
BY DirInit, DirStep, PTL DEF Spec

(* "its ID is not allocated again": no number is allocated twice and no     *)
(* returned directory is lost or replaced, for any number of controllers,   *)
(* threads, cells, crashes and power losses.                                *)
THEOREM IdentitiesTheorem == Spec => []IdentitiesAreKept
<1>1. DInv => IdentitiesAreKept
  BY DEF DInv
<1> QED
  BY <1>1, DirectoriesInvariant, PTL
=============================================================================
