-------------------------- MODULE PersistenceProofs -------------------------
(***************************************************************************)
(* Theorems about Persistence for every set of threads, of properties and   *)
(* of values, and every number of saves, faults and crashes.                *)
(***************************************************************************)
EXTENDS Persistence, TLAPS

-----------------------------------------------------------------------------
(* The inductive invariant.                                                *)

Locked == Steps \ {"waiting"}

(* A thread past the lock of its save holds the mutex.                      *)
MutexHeld == \A t \in Threads : thread[t].step \in Locked => mutex = t

(* What the holder of the mutex knows of the disk: until it replaces the     *)
(* file nobody else has changed it, and what it has written is there.       *)
HolderKnows == \A t \in Threads :
    /\ thread[t].step \in {"read", "opened", "written", "unrenamed"} =>
          thread[t].before = Contents(file)
    /\ thread[t].step \in {"written", "unrenamed", "copying"} => temporary = NewTable(t)
    /\ thread[t].step = "replaced" => file = NewTable(t)

(* Every property of the table is what was saved last, or what a kill cut     *)
(* off, or comes from a save that has replaced the file and has to return.  *)
Explained(table) == \A key \in Keys :
    \/ table[key] \in {saved[key]} \cup doubtful[key]
    \/ \E t \in Threads : /\ thread[t].step = "replaced" /\ thread[t].key = key
                          /\ table[key] = thread[t].value

(* Without a copy that was cut short, what is in the file, or was in it       *)
(* before the copy under way, is explained.                                *)
FileExplained == ~lost =>
    /\ Copier = {} => file # Unreadable /\ Explained(Contents(file))
    /\ \A t \in Copier : Explained(thread[t].before)

IInv == TypeOK /\ MutexHeld /\ HolderKnows /\ FileExplained

-----------------------------------------------------------------------------
(* One thread at a time.                                                   *)

LEMMA SavingFields ==
    ASSUME TypeOK, NEW t \in Threads, thread[t].step \in Steps
    PROVE  /\ thread[t] \in Saving
           /\ thread[t].key \in Keys /\ thread[t].value \in Values
           /\ thread[t].before \in Tables /\ NewTable(t) \in Tables
<1>1. thread[t] \in Saving
  BY DEF TypeOK, Idle, Steps
<1>2. /\ thread[t].key \in Keys /\ thread[t].value \in Values
      /\ thread[t].before \in Tables
  BY <1>1 DEF Saving
<1>3. NewTable(t) \in Tables
  BY <1>2 DEF NewTable, Tables
<1>4. QED BY <1>1, <1>2, <1>3

(* While a thread holds the mutex the others are idle or wait.               *)
LEMMA OthersOut ==
    ASSUME MutexHeld, NEW t \in Threads, thread[t].step \in Locked
    PROVE  \A u \in Threads : u # t => thread[u].step \notin Locked
BY DEF MutexHeld

(* The step of a thread, and nothing else of it, has changed.                *)
LEMMA GotoFields ==
    ASSUME TypeOK, NEW t \in Threads, thread[t].step \in Steps,
           NEW step \in Steps, Goto(t, step)
    PROVE  /\ thread' \in [Threads -> {Idle} \cup Saving]
           /\ thread'[t].step = step /\ thread'[t].key = thread[t].key
           /\ thread'[t].value = thread[t].value /\ thread'[t].before = thread[t].before
           /\ NewTable(t)' = NewTable(t)
           /\ \A u \in Threads : u # t => thread'[u] = thread[u] /\ NewTable(u)' = NewTable(u)
<1>1. thread[t] \in Saving /\ thread \in [Threads -> {Idle} \cup Saving]
  BY SavingFields DEF TypeOK
<1>2. thread' = [thread EXCEPT ![t] = [thread[t] EXCEPT !.step = step]]
  BY DEF Goto
<1>3. [thread[t] EXCEPT !.step = step] \in Saving
  BY <1>1 DEF Saving
<1>4. /\ thread'[t].step = step /\ thread'[t].key = thread[t].key
      /\ thread'[t].value = thread[t].value /\ thread'[t].before = thread[t].before
      /\ \A u \in Threads : u # t => thread'[u] = thread[u]
  BY <1>1, <1>2, <1>3 DEF Saving
<1>5. QED BY <1>1, <1>2, <1>3, <1>4 DEF NewTable

(* A thread has left its save.                                             *)
LEMMA LeftFields ==
    ASSUME TypeOK, NEW t \in Threads, thread' = [thread EXCEPT ![t] = Idle]
    PROVE  /\ thread' \in [Threads -> {Idle} \cup Saving]
           /\ thread'[t].step = "idle"
           /\ \A u \in Threads : u # t => thread'[u] = thread[u] /\ NewTable(u)' = NewTable(u)
<1>1. thread \in [Threads -> {Idle} \cup Saving]
  BY DEF TypeOK
<1>2. QED BY <1>1 DEF Idle, NewTable

(* While one thread holds the mutex nobody else copies.                     *)
LEMMA CopierIs ==
    ASSUME MutexHeld, NEW t \in Threads, thread[t].step \in Locked
    PROVE  Copier = IF thread[t].step = "copying" THEN {t} ELSE {}
<1>1. "copying" \in Locked
  BY DEF Locked, Steps
<1>2. \A u \in Threads : u # t => thread[u].step # "copying"
  BY <1>1, OthersOut
<1>3. QED BY <1>2 DEF Copier, At

-----------------------------------------------------------------------------
(* The steps, one lemma per action of a thread.                             *)

(* A thread moves on while it holds the mutex.                              *)
LEMMA HolderMoves ==
    ASSUME IInv, NEW t \in Threads, thread[t].step \in Locked,
           NEW step \in Locked, Goto(t, step), mutex' = mutex
    PROVE  /\ MutexHeld'
           /\ \A u \in Threads : u # t => /\ thread'[u].step \notin Locked
                                          /\ thread[u].step \notin Locked
           /\ Copier' = IF step = "copying" THEN {t} ELSE {}
<1>1. /\ mutex = t
      /\ \A u \in Threads : u # t => thread[u].step \notin Locked
  BY OthersOut DEF IInv, MutexHeld
<1>2. \A u \in Threads : u # t => thread'[u] = thread[u]
  BY GotoFields DEF IInv, Locked
<1>3. thread'[t].step = step
  BY GotoFields DEF IInv, Locked
<1>4. "copying" \in Locked
  BY DEF Locked, Steps
<1>5. Copier' = IF step = "copying" THEN {t} ELSE {}
  BY <1>1, <1>2, <1>3, <1>4 DEF Copier, At
<1>6. QED BY <1>1, <1>2, <1>5 DEF MutexHeld

(* A thread leaves its save: what it held of the invariant goes with it.     *)
LEMMA HolderThrows ==
    ASSUME IInv, NEW t \in Threads, Throw(t), thread[t].step # "replaced",
           UNCHANGED <<file, saved, doubtful>>,
           lost' = IF thread[t].step = "copying" THEN TRUE ELSE lost,
           thread[t].step \notin Locked =>
              temporary' = temporary /\ \A u \in Threads : thread[u].step \notin Locked,
           temporary' \in Tables \cup {Absent, Unreadable},
           UNCHANGED <<running, saves, crashes>>, faults' \in 0..MaxFaults
    PROVE  IInv'
<1>1. /\ thread' = [thread EXCEPT ![t] = Idle] /\ mutex' = None
  BY DEF Throw, Release
<1>2. /\ thread' \in [Threads -> {Idle} \cup Saving]
      /\ thread'[t].step = "idle"
      /\ \A u \in Threads : u # t => thread'[u] = thread[u]
  BY <1>1, LeftFields DEF IInv
<1>3. \A u \in Threads : u # t => thread[u].step \notin Locked
  BY OthersOut DEF IInv
<1>4. \A u \in Threads : thread'[u].step \notin Locked
  BY <1>2, <1>3 DEF Locked, Steps
<1>5. TypeOK'
  BY <1>1, <1>2 DEF IInv, TypeOK
<1>6. MutexHeld' /\ HolderKnows'
  BY <1>4 DEF MutexHeld, HolderKnows, Locked, Steps
<1>7. Copier' = {}
  BY <1>4 DEF Copier, At, Locked, Steps
<1>8. FileExplained'
  <2>1. SUFFICES ASSUME ~lost' PROVE file # Unreadable /\ Explained(Contents(file))'
    BY <1>7 DEF FileExplained
  <2>2. ~lost /\ thread[t].step # "copying"
    BY <2>1
  <2>3. Copier = {}
    BY <2>2, <1>3 DEF Copier, At, Locked, Steps
  <2>4. file # Unreadable /\ Explained(Contents(file))
    BY <2>2, <2>3 DEF IInv, FileExplained
  <2>5. \A u \in Threads : thread[u].step # "replaced"
    BY <1>3 DEF Locked, Steps
  <2>6. QED BY <2>4, <2>5 DEF Explained, Contents
<1>9. QED BY <1>5, <1>6, <1>8 DEF IInv

LEMMA CallIInv ==
    ASSUME IInv, NEW t \in Threads, NEW key \in Keys, NEW value \in Values,
           Call(t, key, value)
    PROVE  IInv'
<1> DEFINE fresh == [step |-> "waiting", key |-> key, value |-> value, before |-> Empty]
<1>1. /\ thread' = [thread EXCEPT ![t] = fresh] /\ thread[t].step = "idle"
      /\ UNCHANGED <<running, mutex, disk, history, faults, crashes>>
      /\ saves' \in 0..MaxSaves
  BY PersistenceAssumption DEF Call, At, IInv, TypeOK
<1>2. fresh \in Saving
  BY DEF Saving, Steps, Empty, Tables
<1>3. /\ thread' \in [Threads -> {Idle} \cup Saving]
      /\ thread'[t].step = "waiting"
      /\ \A u \in Threads : u # t => thread'[u] = thread[u] /\ NewTable(u)' = NewTable(u)
  BY <1>1, <1>2 DEF IInv, TypeOK, NewTable
<1>4. TypeOK'
  BY <1>1, <1>3 DEF IInv, TypeOK, disk, history
<1>5. MutexHeld'
  BY <1>1, <1>3 DEF IInv, MutexHeld, Locked
<1>6. HolderKnows'
  BY <1>1, <1>3 DEF IInv, HolderKnows, disk, Contents
<1>7. Copier' = Copier /\ \A u \in Copier : thread'[u].before = thread[u].before
  BY <1>1, <1>3 DEF Copier, At
<1>8. ASSUME NEW table, Explained(table) PROVE Explained(table)'
  BY <1>1, <1>3, <1>8 DEF Explained, history
<1>9. FileExplained'
  BY <1>1, <1>7, <1>8 DEF IInv, FileExplained, disk, history, Contents, Explained
<1>10. QED BY <1>4, <1>5, <1>6, <1>9 DEF IInv

LEMMA AcquireIInv ==
    ASSUME IInv, NEW t \in Threads, Acquire(t)
    PROVE  IInv'
<1>1. /\ thread[t].step = "waiting" /\ mutex = None
      /\ UNCHANGED <<running, disk, history>>
  BY DEF Acquire, At
<1>2. \A u \in Threads : thread[u].step \notin Locked
  BY <1>1, PersistenceAssumption DEF IInv, MutexHeld
<1>3. CASE Throw(t) /\ (UNCHANGED counters \/ Fault)
  <2>1. /\ temporary' = temporary /\ lost' = lost /\ file' = file
        /\ UNCHANGED <<saved, doubtful>> /\ UNCHANGED <<running, saves, crashes>>
    BY <1>1, <1>3 DEF disk, history, counters, Fault
  <2>2. temporary \in Tables \cup {Absent, Unreadable} /\ faults' \in 0..MaxFaults
    BY <1>3, PersistenceAssumption DEF IInv, TypeOK, Fault, counters
  <2>3. thread[t].step # "replaced" /\ thread[t].step # "copying"
    BY <1>1
  <2>4. QED BY <1>2, <1>3, <2>1, <2>2, <2>3, HolderThrows
<1>4. CASE /\ file # Unreadable /\ mutex' = t /\ UNCHANGED counters
           /\ thread' = [thread EXCEPT ![t].step = "read", ![t].before = Contents(file)]
  <2>1. Contents(file) \in Tables
    BY <1>4 DEF IInv, TypeOK, Contents, Empty, Tables
  <2>2. thread[t] \in Saving
    BY <1>1, SavingFields DEF IInv, Steps
  <2> DEFINE mine == [thread[t] EXCEPT !.step = "read", !.before = Contents(file)]
  <2>3. mine \in Saving /\ mine.step = "read" /\ mine.before = Contents(file)
    BY <2>1, <2>2 DEF Saving, Steps
  <2>4. thread' = [thread EXCEPT ![t] = mine]
    BY <1>4, <2>2 DEF IInv, TypeOK
  <2>5. /\ thread' \in [Threads -> {Idle} \cup Saving]
        /\ thread'[t].step = "read" /\ thread'[t].before = Contents(file)
        /\ \A u \in Threads : u # t => thread'[u] = thread[u]
    BY <2>3, <2>4 DEF IInv, TypeOK
  <2>6. TypeOK'
    BY <1>1, <1>4, <2>5 DEF IInv, TypeOK, disk, history, counters
  <2>7. MutexHeld'
    BY <1>2, <1>4, <2>5 DEF MutexHeld
  <2>8. HolderKnows'
    BY <1>1, <1>2, <2>5 DEF HolderKnows, disk, Contents, Locked, Steps
  <2>9. Copier = {} /\ Copier' = {}
    BY <1>2, <2>5 DEF Copier, At, Locked, Steps
  <2>10. FileExplained'
    BY <1>1, <1>2, <2>5, <2>9
       DEF IInv, FileExplained, Explained, disk, history, Contents, Locked, Steps
  <2>11. QED BY <2>6, <2>7, <2>8, <2>10 DEF IInv
<1>5. QED BY <1>3, <1>4 DEF Acquire

(* A thread fails before it has replaced anything.                          *)
LEMMA ThrowIInv ==
    ASSUME IInv, NEW t \in Threads, Fault, Throw(t), thread[t].step \in Locked,
           thread[t].step # "replaced", thread[t].step # "copying",
           UNCHANGED <<running, file, history>>, temporary' \in {temporary, Absent}
    PROVE  IInv'
<1>1. faults' \in 0..MaxFaults /\ UNCHANGED <<saves, crashes>>
  BY PersistenceAssumption DEF Fault, IInv, TypeOK
<1>2. temporary' \in Tables \cup {Absent, Unreadable} /\ lost' = lost
      /\ UNCHANGED <<saved, doubtful>>
  BY DEF IInv, TypeOK, history
<1>3. QED BY <1>1, <1>2, HolderThrows

(* A thread writes beside the file.                                        *)
LEMMA WritingIInv ==
    ASSUME IInv, NEW t \in Threads, thread[t].step \in {"read", "opened", "written"},
           NEW step \in {"opened", "written", "unrenamed"}, Goto(t, step),
           UNCHANGED <<running, file, history, mutex, saves, crashes>>,
           faults' \in 0..MaxFaults,
           temporary' \in Tables \cup {Unreadable},
           step # "opened" => temporary' = NewTable(t)
    PROVE  IInv'
<1>1. /\ thread[t].step \in Locked /\ thread[t].step \in Steps
      /\ step \in Locked /\ step \in Steps
  BY DEF Locked, Steps
<1>2. /\ thread' \in [Threads -> {Idle} \cup Saving]
      /\ thread'[t].step = step /\ thread'[t].before = thread[t].before
      /\ NewTable(t)' = NewTable(t)
  BY <1>1, GotoFields DEF IInv
<1>3. /\ MutexHeld' /\ Copier' = {} /\ Copier = {}
      /\ \A u \in Threads : u # t => thread'[u].step \notin Locked
                                     /\ thread[u].step \notin Locked
  BY <1>1, HolderMoves, CopierIs DEF IInv
<1>4. TypeOK'
  BY <1>2 DEF IInv, TypeOK, history
<1>5. thread[t].before = Contents(file)
  BY DEF IInv, HolderKnows
<1>6. HolderKnows'
  BY <1>2, <1>3, <1>5 DEF HolderKnows, Contents, Locked, Steps
<1>7. \A u \in Threads : thread[u].step # "replaced"
  BY <1>3 DEF Locked, Steps
<1>8. FileExplained'
  BY <1>3, <1>7 DEF IInv, FileExplained, Explained, Contents, history
<1>9. QED BY <1>3, <1>4, <1>6, <1>8 DEF IInv

(* A thread puts its table in the place of the file.                        *)
LEMMA ReplacingIInv ==
    ASSUME IInv, NEW t \in Threads, thread[t].step \in {"written", "copying"},
           Goto(t, "replaced"), file' = NewTable(t), temporary' = Absent,
           UNCHANGED <<running, history, mutex, counters>>
    PROVE  IInv'
<1>1. /\ thread[t].step \in Locked /\ thread[t].step \in Steps
      /\ "replaced" \in Locked /\ "replaced" \in Steps
  BY DEF Locked, Steps
<1>2. /\ thread' \in [Threads -> {Idle} \cup Saving]
      /\ thread'[t].step = "replaced" /\ thread'[t].key = thread[t].key
      /\ thread'[t].value = thread[t].value
      /\ NewTable(t)' = NewTable(t)
  BY <1>1, GotoFields DEF IInv
<1>3. /\ MutexHeld' /\ Copier' = {}
      /\ \A u \in Threads : u # t => thread'[u].step \notin Locked
                                     /\ thread[u].step \notin Locked
  BY <1>1, HolderMoves DEF IInv
<1>4. /\ thread[t].key \in Keys /\ thread[t].value \in Values
      /\ thread[t].before \in Tables /\ NewTable(t) \in Tables
  BY <1>1, SavingFields DEF IInv
<1>5. TypeOK'
  BY <1>2, <1>4 DEF IInv, TypeOK, history, counters
<1>6. HolderKnows'
  BY <1>2, <1>3 DEF HolderKnows, Locked, Steps
<1>7. ASSUME ~lost PROVE Explained(thread[t].before)
  <2>1. CASE thread[t].step = "copying"
    BY <1>7, <2>1 DEF IInv, FileExplained, Copier, At
  <2>2. CASE thread[t].step = "written"
    <3>1. Copier = {}
      BY <1>1, <2>2, CopierIs DEF IInv
    <3>2. QED BY <1>7, <2>2, <3>1 DEF IInv, FileExplained, HolderKnows
  <2>3. QED BY <2>1, <2>2
<1>8. Contents(file)' = NewTable(t) /\ file' # Unreadable
  BY <1>4, PersistenceAssumption DEF Contents
<1>9. ASSUME ~lost, NEW key \in Keys
      PROVE  \/ NewTable(t)[key] \in {saved[key]} \cup doubtful[key]
             \/ key = thread[t].key /\ NewTable(t)[key] = thread[t].value
  <2>1. NewTable(t)[key] = IF key = thread[t].key THEN thread[t].value ELSE thread[t].before[key]
    BY <1>4 DEF NewTable, Tables
  <2>2. \A u \in Threads : thread[u].step # "replaced"
    BY <1>3 DEF Locked, Steps
  <2>3. QED BY <1>7, <1>9, <2>1, <2>2 DEF Explained
<1>10. FileExplained'
  BY <1>2, <1>3, <1>8, <1>9 DEF FileExplained, Explained, history
<1>11. QED BY <1>3, <1>5, <1>6, <1>10 DEF IInv

LEMMA OpenIInv ==
    ASSUME IInv, NEW t \in Threads, Open(t)
    PROVE  IInv'
<1>1. thread[t].step = "read" /\ thread[t].step \in Locked /\ thread[t].step \in Steps
      /\ UNCHANGED <<running, file, history>>
  BY DEF Open, At, Locked, Steps
<1>2. CASE Goto(t, "opened") /\ temporary' = Unreadable /\ UNCHANGED <<mutex, counters>>
  <2>1. faults' \in 0..MaxFaults /\ UNCHANGED <<saves, crashes>>
    BY <1>2 DEF counters, IInv, TypeOK
  <2>2. QED BY <1>1, <1>2, <2>1, WritingIInv
<1>3. CASE Fault /\ Throw(t) /\ UNCHANGED temporary
  BY <1>1, <1>3, ThrowIInv
<1>4. QED BY <1>2, <1>3 DEF Open

LEMMA WriteIInv ==
    ASSUME IInv, NEW t \in Threads, Write(t)
    PROVE  IInv'
<1>1. thread[t].step = "opened" /\ thread[t].step \in Locked /\ thread[t].step \in Steps
      /\ UNCHANGED <<running, file, history>>
  BY DEF Write, At, Locked, Steps
<1>2. CASE Goto(t, "written") /\ temporary' = NewTable(t) /\ UNCHANGED <<mutex, counters>>
  <2>1. NewTable(t) \in Tables
    BY <1>1, SavingFields DEF IInv
  <2>2. faults' \in 0..MaxFaults /\ UNCHANGED <<saves, crashes>>
    BY <1>2 DEF counters, IInv, TypeOK
  <2>3. QED BY <1>1, <1>2, <2>1, <2>2, WritingIInv
<1>3. CASE Fault /\ Throw(t) /\ UNCHANGED temporary
  BY <1>1, <1>3, ThrowIInv
<1>4. QED BY <1>2, <1>3 DEF Write

LEMMA RenameIInv ==
    ASSUME IInv, NEW t \in Threads, Rename(t)
    PROVE  IInv'
<1>1. /\ thread[t].step = "written" /\ thread[t].step \in Locked /\ thread[t].step \in Steps
      /\ UNCHANGED <<running, mutex, history>>
  BY DEF Rename, At, Locked, Steps
<1>2. CASE Goto(t, "replaced") /\ file' = temporary /\ temporary' = Absent /\ UNCHANGED counters
  <2>1. temporary = NewTable(t)
    BY <1>1 DEF IInv, HolderKnows
  <2>2. QED BY <1>1, <1>2, <2>1, ReplacingIInv
<1>3. CASE Fault /\ Goto(t, "unrenamed") /\ UNCHANGED disk
  <2>1. temporary = NewTable(t)
    BY <1>1 DEF IInv, HolderKnows
  <2>2. /\ UNCHANGED <<file, mutex>> /\ temporary' = NewTable(t)
        /\ faults' \in 0..MaxFaults /\ UNCHANGED <<saves, crashes>>
    BY <1>1, <1>3, <2>1, PersistenceAssumption DEF disk, Fault, IInv, TypeOK
  <2>3. NewTable(t) \in Tables
    BY <1>1, SavingFields DEF IInv
  <2>4. QED BY <1>1, <1>3, <2>2, <2>3, WritingIInv DEF Locked, Steps
<1>4. QED BY <1>2, <1>3 DEF Rename

LEMMA BeginCopyIInv ==
    ASSUME IInv, NEW t \in Threads, BeginCopy(t)
    PROVE  IInv'
<1>1. /\ thread[t].step = "unrenamed" /\ thread[t].step \in Locked /\ thread[t].step \in Steps
      /\ UNCHANGED <<running, history>>
  BY DEF BeginCopy, At, Locked, Steps
<1>2. CASE /\ Goto(t, "copying") /\ file' \in Pieces(temporary)
           /\ UNCHANGED <<mutex, temporary, counters>>
  <2>1. /\ NewTable(t) \in Tables /\ temporary = NewTable(t)
        /\ thread[t].before = Contents(file)
    BY <1>1, SavingFields DEF IInv, HolderKnows
  <2>2. file' \in Tables \cup {Unreadable}
    BY <1>2, <2>1 DEF Pieces, Tables
  <2>3. /\ thread' \in [Threads -> {Idle} \cup Saving]
        /\ thread'[t].step = "copying" /\ thread'[t].before = Contents(file)
        /\ NewTable(t)' = NewTable(t)
    BY <1>1, <1>2, <2>1, GotoFields DEF IInv, Steps
  <2>4. /\ MutexHeld' /\ Copier' = {t} /\ Copier = {}
        /\ \A u \in Threads : u # t => thread'[u].step \notin Locked
                                       /\ thread[u].step \notin Locked
    BY <1>1, <1>2, HolderMoves, CopierIs DEF IInv, Locked, Steps
  <2>5. TypeOK'
    BY <1>1, <1>2, <2>2, <2>3 DEF IInv, TypeOK, history, counters
  <2>6. HolderKnows'
    BY <1>2, <2>1, <2>3, <2>4 DEF HolderKnows, Locked, Steps
  <2>7. ~lost => Explained(Contents(file))
    BY <2>4 DEF IInv, FileExplained
  <2>8. ASSUME Explained(Contents(file)) PROVE Explained(Contents(file))'
               \/ Explained(thread[t].before)'
    BY <1>1, <2>3, <2>4, <2>8 DEF Explained, history, Locked, Steps
  <2>9. FileExplained'
    BY <1>1, <2>3, <2>4, <2>7 DEF FileExplained, Explained, history, Locked, Steps
  <2>10. QED BY <2>4, <2>5, <2>6, <2>9 DEF IInv
<1>3. CASE Fault /\ Throw(t) /\ temporary' = Absent /\ UNCHANGED file
  BY <1>1, <1>3, ThrowIInv
<1>4. QED BY <1>2, <1>3 DEF BeginCopy

LEMMA EndCopyIInv ==
    ASSUME IInv, NEW t \in Threads, EndCopy(t)
    PROVE  IInv'
<1>1. /\ thread[t].step = "copying" /\ thread[t].step \in Locked /\ thread[t].step \in Steps
      /\ UNCHANGED <<running, saved, doubtful>> /\ temporary' = Absent
  BY DEF EndCopy, At, Locked, Steps
<1>2. CASE Goto(t, "replaced") /\ file' = temporary /\ UNCHANGED <<mutex, lost, counters>>
  <2>1. temporary = NewTable(t)
    BY <1>1 DEF IInv, HolderKnows
  <2>2. QED BY <1>1, <1>2, <2>1, ReplacingIInv DEF history
<1>3. CASE Fault /\ Throw(t) /\ lost' = TRUE /\ UNCHANGED file
  <2>1. faults' \in 0..MaxFaults /\ UNCHANGED <<saves, crashes>>
    BY <1>3, PersistenceAssumption DEF Fault, IInv, TypeOK
  <2>2. QED BY <1>1, <1>3, <2>1, HolderThrows
<1>4. QED BY <1>2, <1>3 DEF EndCopy

LEMMA ReturnIInv ==
    ASSUME IInv, NEW t \in Threads, Return(t)
    PROVE  IInv'
<1>1. /\ thread[t].step = "replaced" /\ thread[t].step \in Locked /\ thread[t].step \in Steps
      /\ mutex' = None /\ thread' = [thread EXCEPT ![t] = Idle]
      /\ saved' = [saved EXCEPT ![thread[t].key] = thread[t].value]
      /\ doubtful' = [doubtful EXCEPT ![thread[t].key] = {}]
      /\ UNCHANGED <<running, disk, lost, counters>>
  BY DEF Return, At, Release, Locked, Steps
<1>2. /\ thread' \in [Threads -> {Idle} \cup Saving]
      /\ thread'[t].step = "idle"
      /\ \A u \in Threads : u # t => thread'[u] = thread[u]
  BY <1>1, LeftFields DEF IInv
<1>3. /\ thread[t].key \in Keys /\ thread[t].value \in Values
      /\ thread[t].before \in Tables /\ NewTable(t) \in Tables
  BY <1>1, SavingFields DEF IInv
<1>4. /\ \A u \in Threads : u # t => thread[u].step \notin Locked
      /\ \A u \in Threads : thread'[u].step \notin Locked
  BY <1>1, <1>2, OthersOut DEF IInv, Locked, Steps
<1>5. TypeOK'
  BY <1>1, <1>2, <1>3 DEF IInv, TypeOK, Tables, disk, counters
<1>6. MutexHeld' /\ HolderKnows'
  BY <1>4 DEF MutexHeld, HolderKnows, Locked, Steps
<1>7. Copier' = {} /\ Copier = {}
  BY <1>1, <1>4 DEF Copier, At, Locked, Steps
<1>8. file = NewTable(t) /\ Contents(file) = NewTable(t)
  BY <1>1, <1>3, PersistenceAssumption DEF IInv, HolderKnows, Contents
<1>9. ASSUME ~lost PROVE file # Unreadable /\ Explained(Contents(file))'
  <2>1. file # Unreadable /\ Explained(Contents(file))
    BY <1>7, <1>9 DEF IInv, FileExplained
  <2>2. saved'[thread[t].key] = thread[t].value
    BY <1>1, <1>3 DEF IInv, TypeOK, Tables
  <2>3. NewTable(t)[thread[t].key] = thread[t].value
    BY <1>3 DEF NewTable, Tables
  <2>4. ASSUME NEW key \in Keys, key # thread[t].key
        PROVE  saved'[key] = saved[key] /\ doubtful'[key] = doubtful[key]
    BY <1>1, <1>3, <2>4 DEF IInv, TypeOK, Tables
  <2>5. ASSUME NEW key \in Keys, key # thread[t].key
        PROVE  Contents(file)[key] \in {saved[key]} \cup doubtful[key]
    BY <1>4, <2>1, <2>5 DEF Explained, Locked, Steps
  <2>6. Contents(file)' = Contents(file)
    BY <1>1 DEF disk, Contents
  <2>7. ASSUME NEW key \in Keys
        PROVE  Contents(file)[key] \in {saved'[key]} \cup doubtful'[key]
    BY <1>8, <2>2, <2>3, <2>4, <2>5
  <2>8. QED BY <2>1, <2>6, <2>7 DEF Explained
<1>10. FileExplained'
  BY <1>1, <1>7, <1>9 DEF FileExplained, disk
<1>11. QED BY <1>5, <1>6, <1>10 DEF IInv

-----------------------------------------------------------------------------
(* Kills, restarts, and the theorems.                                      *)

LEMMA CrashIInv ==
    ASSUME IInv, Crash
    PROVE  IInv'
<1>1. /\ running' = FALSE /\ mutex' = None /\ thread' = [t \in Threads |-> Idle]
      /\ doubtful' = [key \in Keys |-> doubtful[key] \cup InFlight(key)]
      /\ lost' = (lost \/ \E t \in Threads : thread[t].step = "copying")
      /\ UNCHANGED <<disk, saved, saves, faults>> /\ crashes' \in 0..MaxCrashes
  BY PersistenceAssumption DEF Crash, At, IInv, TypeOK
<1>2. \A t \in Threads : thread'[t].step = "idle"
  BY <1>1 DEF Idle
<1>3. \A key \in Keys : InFlight(key) \subseteq Values
  <2>1. ASSUME NEW t \in Threads, thread[t] # Idle PROVE thread[t].value \in Values
    BY <2>1 DEF IInv, TypeOK, Saving
  <2>2. QED BY <2>1 DEF InFlight
<1>4. TypeOK'
  BY <1>1, <1>3 DEF IInv, TypeOK, disk
<1>5. MutexHeld' /\ HolderKnows'
  BY <1>2 DEF MutexHeld, HolderKnows, Locked, Steps
<1>6. Copier' = {}
  BY <1>2 DEF Copier, At
<1>7. ASSUME ~lost' PROVE file # Unreadable /\ Explained(Contents(file))'
  <2>1. ~lost /\ Copier = {}
    BY <1>1, <1>7 DEF Copier, At
  <2>2. file # Unreadable /\ Explained(Contents(file))
    BY <2>1 DEF IInv, FileExplained
  <2>3. Contents(file)' = Contents(file)
    BY <1>1 DEF disk, Contents
  <2>4. ASSUME NEW key \in Keys
        PROVE  Contents(file)[key] \in {saved'[key]} \cup doubtful'[key]
    <3>1. CASE Contents(file)[key] \in {saved[key]} \cup doubtful[key]
      BY <1>1, <3>1
    <3>2. ASSUME NEW t \in Threads, thread[t].step = "replaced", thread[t].key = key,
                 Contents(file)[key] = thread[t].value
          PROVE  Contents(file)[key] \in doubtful'[key]
      <4>1. thread[t] # Idle
        BY <3>2 DEF Idle
      <4>2. thread[t].value \in InFlight(key)
        BY <3>2, <4>1 DEF InFlight
      <4>3. QED BY <1>1, <3>2, <4>2
    <3>3. QED BY <2>2, <3>1, <3>2 DEF Explained
  <2>5. QED BY <2>2, <2>3, <2>4 DEF Explained
<1>8. FileExplained'
  BY <1>1, <1>6, <1>7 DEF FileExplained, disk
<1>9. QED BY <1>4, <1>5, <1>8 DEF IInv

LEMMA InitIInv == Init => IInv
<1> SUFFICES ASSUME Init PROVE IInv
  OBVIOUS
<1>2. /\ thread \in [Threads -> {Idle} \cup Saving]
      /\ \A t \in Threads : thread[t].step = "idle"
  BY DEF Init, Idle
<1>3. Empty \in Tables /\ Contents(Absent) = Empty
  BY DEF Empty, Tables, Contents
<1>4. TypeOK
  <2>1. saves \in 0..MaxSaves /\ faults \in 0..MaxFaults /\ crashes \in 0..MaxCrashes
    BY PersistenceAssumption DEF Init
  <2>2. saved \in Tables /\ doubtful \in [Keys -> SUBSET Values]
    BY <1>3 DEF Init
  <2>3. QED BY <1>2, <2>1, <2>2 DEF Init, TypeOK
<1>5. MutexHeld /\ HolderKnows /\ Copier = {}
  BY <1>2 DEF MutexHeld, HolderKnows, Copier, At, Locked, Steps
<1>6. FileExplained
  BY <1>3, <1>5, PersistenceAssumption DEF Init, FileExplained, Explained
<1>7. QED BY <1>4, <1>5, <1>6 DEF IInv

LEMMA ProceedIInv ==
    ASSUME IInv, NEW t \in Threads, Proceed(t)
    PROVE  IInv'
BY AcquireIInv, OpenIInv, WriteIInv, RenameIInv, BeginCopyIInv, EndCopyIInv, ReturnIInv
   DEF Proceed

LEMMA NextIInv == IInv /\ [Next]_vars => IInv'
<1> SUFFICES ASSUME IInv, [Next]_vars PROVE IInv'
  OBVIOUS
<1>2. CASE Crash
  BY <1>2, CrashIInv
<1>3. CASE StartUp
  <2>1. running' = TRUE /\ UNCHANGED <<mutex, thread, disk, history, counters>>
    BY <1>3 DEF StartUp
  <2>2. QED BY <2>1 DEF IInv, TypeOK, MutexHeld, HolderKnows, FileExplained, Explained,
                        Copier, At, NewTable, Contents, disk, history, counters
<1>4. ASSUME NEW t \in Threads, Proceed(t) PROVE IInv'
  BY <1>4, ProceedIInv
<1>5. ASSUME NEW t \in Threads, NEW key \in Keys, NEW value \in Values, Call(t, key, value)
      PROVE  IInv'
  BY <1>5, CallIInv
<1>6. CASE UNCHANGED vars
  BY <1>6 DEF vars, IInv, TypeOK, MutexHeld, HolderKnows, FileExplained, Explained,
              Copier, At, NewTable, Contents, disk, history, counters
<1>7. QED BY <1>2, <1>3, <1>4, <1>5, <1>6 DEF Next

(* The invariant of all steps: whoever saves, fails or is killed.            *)
THEOREM Invariance == Spec => []IInv
BY InitIInv, NextIInv, PTL DEF Spec

(* No other save, failure or kill brings an older value of a property back   *)
(* or takes it away, unless a copy was cut short (Persistence.cpp, save).    *)
THEOREM SavedPropertiesStay == Spec => []SavedStays
<1>1. IInv => SavedStays
  <2>1. SUFFICES ASSUME IInv, ~lost, Copier = {}, NEW key \in Keys
                 PROVE  Contents(file)[key] \in {saved[key]} \cup InFlight(key) \cup doubtful[key]
    BY DEF IInv, SavedStays, FileExplained
  <2>2. Explained(Contents(file))
    BY <2>1 DEF IInv, FileExplained
  <2>3. ASSUME NEW t \in Threads, thread[t].step = "replaced", thread[t].key = key
        PROVE  thread[t].value \in InFlight(key)
    <3>1. thread[t] # Idle
      BY <2>3 DEF Idle
    <3>2. QED BY <2>3, <3>1 DEF InFlight
  <2>4. QED BY <2>2, <2>3 DEF Explained
<1>2. QED BY <1>1, Invariance, PTL

-----------------------------------------------------------------------------
(* Every step is a step of the abstract store, or changes nothing of it.     *)

LEMMA StoredIs ==
    ASSUME IInv
    PROVE  /\ Copier = {} => Stored = Contents(file)
           /\ \A t \in Copier : Copier = {t} /\ Stored = thread[t].before
<1>1. Copier = {} => Stored = Contents(file)
  BY DEF Stored
<1>2. ASSUME NEW t \in Copier PROVE Copier = {t} /\ Stored = thread[t].before
  <2>1. t \in Threads /\ thread[t].step = "copying" /\ thread[t].step \in Locked
    BY DEF Copier, At, Locked, Steps
  <2>2. Copier = {t}
    BY <2>1, CopierIs DEF IInv
  <2>3. (CHOOSE u \in {t} : TRUE) = t
    OBVIOUS
  <2>4. QED BY <2>2, <2>3 DEF Stored
<1>3. QED BY <1>1, <1>2

(* The steps that neither begin nor end a replacement of the file.           *)
LEMMA StoreStutters ==
    ASSUME IInv, IInv', Copier = {}, Copier' = {}, file' = file
    PROVE  UNCHANGED <<Stored, Copier # {}>>
BY StoredIs DEF Stored, Contents

LEMMA ReplacingSaves ==
    ASSUME IInv, IInv', NEW t \in Threads, thread[t].step \in {"written", "copying"},
           Goto(t, "replaced"), file' = NewTable(t), mutex' = mutex
    PROVE  Store!Save(thread[t].key, thread[t].value)
<1>1. /\ thread[t].step \in Locked /\ thread[t].step \in Steps
      /\ "replaced" \in Locked /\ "replaced" \in Steps
  BY DEF Locked, Steps
<1>2. /\ thread[t].key \in Keys /\ thread[t].value \in Values
      /\ thread[t].before \in Tables /\ NewTable(t) \in Tables
  BY <1>1, SavingFields DEF IInv
<1>3. Stored = thread[t].before
  <2>1. CASE thread[t].step = "copying"
    BY <2>1, StoredIs DEF Copier, At
  <2>2. CASE thread[t].step = "written"
    BY <1>1, <2>2, CopierIs, StoredIs DEF IInv, HolderKnows
  <2>3. QED BY <2>1, <2>2
<1>4. Copier' = {}
  BY <1>1, HolderMoves
<1>5. Stored' = [Stored EXCEPT ![thread[t].key] = thread[t].value]
  BY <1>2, <1>3, <1>4, PersistenceAssumption DEF Stored, Contents, NewTable
<1>6. QED BY <1>2, <1>3, <1>4, <1>5 DEF Store!Save, Store!Tables, Tables

(* A copy that is cut short, by an error or by a kill, may lose anything.     *)
LEMMA CutShortLoses ==
    ASSUME IInv, IInv', Copier # {}, Copier' = {}, file' = file
    PROVE  Store!Lose
<1>1. Stored' = Contents(file)
  BY DEF Stored, Contents
<1>2. PICK t \in Threads : thread[t].step = "copying"
  BY DEF Copier, At
<1>3. Contents(file) \in Tables \cup {Unreadable}
  <2>1. file \in Tables \cup {Absent, Unreadable}
    BY DEF IInv, TypeOK
  <2>2. Empty \in Tables
    BY DEF Empty, Tables
  <2>3. QED BY <2>1, <2>2 DEF Contents
<1>4. QED BY <1>1, <1>3 DEF Store!Lose, Store!Tables, Tables

LEMMA ThrowsOrLoses ==
    ASSUME IInv, IInv', NEW t \in Threads, Throw(t), file' = file,
           thread[t].step = "waiting" => Copier = {}, thread[t].step \in Steps
    PROVE  Store!Lose \/ UNCHANGED <<Stored, Copier # {}>>
<1>1. /\ \A u \in Threads : u # t => thread'[u] = thread[u]
      /\ thread'[t].step = "idle"
  BY LeftFields DEF Throw, IInv
<1>2. Copier' = {}
  <2>1. CASE thread[t].step = "waiting"
    BY <1>1, <2>1 DEF Copier, At
  <2>2. CASE thread[t].step \in Locked
    <3>1. \A u \in Threads : u # t => thread[u].step \notin Locked
      BY <2>2, OthersOut DEF IInv
    <3>2. QED BY <1>1, <3>1 DEF Copier, At, Locked, Steps
  <2>3. QED BY <2>1, <2>2 DEF Locked
<1>3. QED BY <1>2, StoreStutters, CutShortLoses

LEMMA AcquireStore ==
    ASSUME IInv, IInv', NEW t \in Threads, Acquire(t)
    PROVE  Store!Lose \/ UNCHANGED <<Stored, Copier # {}>>
<1>1. thread[t].step = "waiting" /\ mutex = None /\ file' = file /\ thread[t].step \in Steps
  BY DEF Acquire, At, disk, Steps
<1>2. \A u \in Threads : thread[u].step \notin Locked
  BY <1>1, PersistenceAssumption DEF IInv, MutexHeld
<1>3. Copier = {}
  BY <1>2 DEF Copier, At, Locked, Steps
<1>4. CASE Throw(t)
  BY <1>1, <1>3, <1>4, ThrowsOrLoses
<1>5. CASE thread' = [thread EXCEPT ![t].step = "read", ![t].before = Contents(file)]
  <2>1. thread[t] \in Saving /\ thread \in [Threads -> {Idle} \cup Saving]
    BY <1>1, SavingFields DEF IInv, TypeOK
  <2>2. thread'[t].step = "read" /\ \A u \in Threads : u # t => thread'[u] = thread[u]
    BY <1>5, <2>1 DEF Saving
  <2>3. Copier' = {}
    BY <1>3, <2>2 DEF Copier, At
  <2>4. QED BY <1>1, <1>3, <2>3, StoreStutters
<1>6. QED BY <1>4, <1>5 DEF Acquire

LEMMA ProceedStore ==
    ASSUME IInv, IInv', NEW t \in Threads, Proceed(t)
    PROVE  Store!Next \/ UNCHANGED <<Stored, Copier # {}>>
<1>1. CASE Acquire(t)
  BY <1>1, AcquireStore DEF Store!Next
<1>2. CASE Open(t) \/ Write(t)
  <2>1. /\ thread[t].step \in Locked /\ thread[t].step \in Steps
        /\ thread[t].step # "copying" /\ file' = file
    BY <1>2 DEF Open, Write, At, Locked, Steps
  <2>2. Copier = {}
    BY <2>1, CopierIs DEF IInv
  <2>3. CASE Throw(t)
    BY <2>1, <2>3, ThrowsOrLoses DEF Locked, Store!Next
  <2>4. ASSUME NEW step \in {"opened", "written"}, Goto(t, step), mutex' = mutex
        PROVE  UNCHANGED <<Stored, Copier # {}>>
    <3>1. step \in Locked /\ step # "copying"
      BY DEF Locked, Steps
    <3>2. Copier' = {}
      BY <2>1, <2>4, <3>1, HolderMoves
    <3>3. QED BY <2>1, <2>2, <3>2, StoreStutters
  <2>5. QED BY <1>2, <2>3, <2>4 DEF Open, Write
<1>3. CASE Rename(t)
  <2>1. /\ thread[t].step = "written" /\ thread[t].step \in Locked /\ mutex' = mutex
        /\ temporary = NewTable(t) /\ thread[t].step \in Steps
    BY <1>3 DEF Rename, At, Locked, Steps, IInv, HolderKnows
  <2>2. CASE Goto(t, "replaced") /\ file' = temporary
    <3>1. Store!Save(thread[t].key, thread[t].value)
      BY <2>1, <2>2, ReplacingSaves
    <3>2. thread[t].key \in Keys /\ thread[t].value \in Values
      BY <2>1, SavingFields DEF IInv
    <3>3. QED BY <3>1, <3>2 DEF Store!Next
  <2>3. CASE Goto(t, "unrenamed") /\ UNCHANGED disk
    <3>1. "unrenamed" \in Locked
      BY DEF Locked, Steps
    <3>2. Copier = {} /\ Copier' = {}
      BY <2>1, <2>3, <3>1, HolderMoves, CopierIs DEF IInv
    <3>3. QED BY <2>3, <3>2, StoreStutters DEF disk
  <2>4. QED BY <1>3, <2>2, <2>3 DEF Rename
<1>4. CASE BeginCopy(t)
  <2>1. /\ thread[t].step = "unrenamed" /\ thread[t].step \in Locked
        /\ thread[t].step \in Steps /\ thread[t].before = Contents(file)
    BY <1>4 DEF BeginCopy, At, Locked, Steps, IInv, HolderKnows
  <2>2. Copier = {} /\ Stored = Contents(file)
    BY <2>1, CopierIs, StoredIs DEF IInv
  <2>3. CASE Goto(t, "copying") /\ mutex' = mutex
    <3>1. "copying" \in Locked /\ "copying" \in Steps
      BY DEF Locked, Steps
    <3>2. Copier' = {t} /\ thread'[t].before = Contents(file)
      BY <2>1, <2>3, <3>1, HolderMoves, GotoFields DEF IInv
    <3>3. (CHOOSE u \in {t} : TRUE) = t
      OBVIOUS
    <3>4. Stored' = Contents(file)
      BY <3>2, <3>3 DEF Stored
    <3>5. QED BY <2>2, <3>2, <3>4 DEF Store!Next, Store!BeginCopy
  <2>4. CASE Throw(t) /\ file' = file
    BY <2>1, <2>4, ThrowsOrLoses DEF Store!Next
  <2>5. QED BY <1>4, <2>3, <2>4 DEF BeginCopy
<1>5. CASE EndCopy(t)
  <2>1. /\ thread[t].step = "copying" /\ thread[t].step \in Locked
        /\ temporary = NewTable(t) /\ thread[t].step \in Steps
    BY <1>5 DEF EndCopy, At, Locked, Steps, IInv, HolderKnows
  <2>2. CASE Goto(t, "replaced") /\ file' = temporary /\ mutex' = mutex
    <3>1. Store!Save(thread[t].key, thread[t].value)
      BY <2>1, <2>2, ReplacingSaves
    <3>2. thread[t].key \in Keys /\ thread[t].value \in Values
      BY <2>1, SavingFields DEF IInv
    <3>3. QED BY <3>1, <3>2 DEF Store!Next
  <2>3. CASE Throw(t) /\ file' = file
    BY <2>1, <2>3, ThrowsOrLoses DEF Store!Next
  <2>4. QED BY <1>5, <2>2, <2>3 DEF EndCopy
<1>6. CASE Return(t)
  <2>1. /\ thread[t].step \in Steps /\ thread[t].step # "waiting" /\ Throw(t) /\ file' = file
    BY <1>6 DEF Return, At, Throw, disk, Steps
  <2>2. QED BY <2>1, ThrowsOrLoses DEF Store!Next
<1>7. QED BY <1>1, <1>2, <1>3, <1>4, <1>5, <1>6 DEF Proceed

LEMMA NextStore ==
    IInv /\ IInv' /\ [Next]_vars => [Store!Next]_<<Stored, Copier # {}>>
<1> SUFFICES ASSUME IInv, IInv', [Next]_vars
             PROVE  Store!Next \/ UNCHANGED <<Stored, Copier # {}>>
  OBVIOUS
<1>1. CASE Crash
  <2>1. file' = file /\ thread' = [t \in Threads |-> Idle]
    BY <1>1 DEF Crash, disk
  <2>2. Copier' = {}
    BY <2>1 DEF Copier, At, Idle
  <2>3. QED BY <2>1, <2>2, StoreStutters, CutShortLoses DEF Store!Next
<1>2. CASE StartUp
  BY <1>2 DEF StartUp, disk, Stored, Copier, At, Contents
<1>3. ASSUME NEW t \in Threads, Proceed(t)
      PROVE  Store!Next \/ UNCHANGED <<Stored, Copier # {}>>
  BY <1>3, ProceedStore
<1>4. ASSUME NEW t \in Threads, NEW key \in Keys, NEW value \in Values, Call(t, key, value)
      PROVE  UNCHANGED <<Stored, Copier # {}>>
  <2>1. /\ thread[t].step = "idle" /\ file' = file
        /\ \A u \in Threads : u # t => thread'[u] = thread[u]
        /\ thread'[t].step = "waiting"
    BY <1>4 DEF Call, At, disk, IInv, TypeOK
  <2>2. Copier' = Copier /\ \A u \in Copier : thread'[u] = thread[u]
    BY <2>1 DEF Copier, At
  <2>3. CASE Copier = {}
    BY <2>1, <2>2, <2>3, StoreStutters
  <2>4. CASE Copier # {}
    <3>1. PICK u \in Copier : Copier = {u} /\ Stored = thread[u].before
      BY <2>4, StoredIs
    <3>2. (CHOOSE v \in {u} : TRUE) = u
      OBVIOUS
    <3>3. Stored' = thread[u].before
      BY <2>2, <3>1, <3>2 DEF Stored
    <3>4. QED BY <2>2, <3>1, <3>3
  <2>5. QED BY <2>3, <2>4
<1>5. CASE UNCHANGED vars
  BY <1>5 DEF vars, disk, Stored, Copier, At, Contents
<1>6. QED BY <1>1, <1>2, <1>3, <1>4, <1>5 DEF Next

(* Every change of the file is one save of one property, and contents are    *)
(* lost only by a copy that is cut short (Persistence.cpp, writeFile).       *)
THEOREM StoreImplemented == Spec => ImplementsStore
<1>1. Init => Store!Init
  <2>1. SUFFICES ASSUME Init PROVE Stored = Empty /\ Copier = {}
    BY DEF Store!Init, Store!Tables, Empty
  <2>2. Copier = {}
    BY <2>1 DEF Init, Copier, At, Idle
  <2>3. QED BY <2>1, <2>2 DEF Init, Stored, Contents
<1>2. QED BY <1>1, Invariance, NextStore, PTL DEF Spec, ImplementsStore, Store!Spec
=============================================================================
