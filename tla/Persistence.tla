----------------------------- MODULE Persistence ----------------------------
(***************************************************************************)
(* Persistence (src/common/Persistence.cpp): properties and names of things *)
(* in one file, each save a read-modify-write of the whole file under a     *)
(* mutex, with the new contents written beside the file and renamed over    *)
(* it, or copied where renaming fails.  The program may be killed between   *)
(* any two steps, and any step that touches the disk may fail.  It starts   *)
(* again as long as ConfigRepository can read its intervals                 *)
(* (src/common/ConfigRepository.cpp); otherwise the constructor throws.     *)
(*                                                                         *)
(* A thread calls save() or saveThingName(): both are a key and a value.    *)
(* What was flushed before a kill is on the disk (the machine stays up).    *)
(***************************************************************************)
EXTENDS Naturals

CONSTANTS Threads,           (* callers of one Persistence object          *)
          Keys, Values,
          Missing, Unreadable, Absent, None,
          MaxSaves,          (* calls of save(); a bound                   *)
          MaxFaults,         (* steps that fail; a bound                   *)
          MaxCrashes         (* times the program is killed; a bound       *)

Tables == [Keys -> Values \cup {Missing}]

ASSUME PersistenceAssumption ==
    /\ Missing \notin Values /\ None \notin Threads
    /\ Absent # Unreadable /\ {Absent, Unreadable} \cap Tables = {}
    /\ {MaxSaves, MaxFaults, MaxCrashes} \subseteq Nat

VARIABLES
    running,     (* the program runs                                       *)
    mutex,       (* the thread that holds State::mutex, or None            *)
    thread,      (* how far each thread is: its step, what it saves, and   *)
                 (* the properties it has read                             *)
    file,        (* the contents at State::path                            *)
    temporary,   (* the contents beside it                                 *)
    saved,       (* the value of each property saved last, as its caller   *)
                 (* was told                                               *)
    doubtful,    (* values whose save was cut off by a kill                *)
    lost,        (* a copy was cut short                                   *)
    saves, faults, crashes   (* what is bounded, so far                    *)

disk == <<file, temporary>>
history == <<saved, doubtful, lost>>
counters == <<saves, faults, crashes>>
vars == <<running, mutex, thread, disk, history, counters>>

Empty == [key \in Keys |-> Missing]

Steps == {"waiting", "read", "opened", "written", "unrenamed", "copying", "replaced"}
Idle == [step |-> "idle"]
Saving == [step : Steps, key : Keys, value : Values, before : Tables]

TypeOK ==
    /\ {running, lost} \subseteq BOOLEAN /\ mutex \in Threads \cup {None}
    /\ thread \in [Threads -> {Idle} \cup Saving]
    /\ file \in Tables \cup {Absent, Unreadable}
    /\ temporary \in Tables \cup {Absent, Unreadable}
    /\ saved \in Tables /\ doubtful \in [Keys -> SUBSET Values]
    /\ saves \in 0..MaxSaves /\ faults \in 0..MaxFaults /\ crashes \in 0..MaxCrashes

Init ==
    /\ running = TRUE /\ mutex = None /\ thread = [t \in Threads |-> Idle]
    /\ file = Absent /\ temporary = Absent
    /\ saved = Empty /\ doubtful = [key \in Keys |-> {}] /\ lost = FALSE
    /\ saves = 0 /\ faults = 0 /\ crashes = 0

-----------------------------------------------------------------------------
(* The steps of a save.                                                    *)

(* readProperties: a file that is not there holds nothing.                  *)
Contents(c) == IF c = Absent THEN Empty ELSE c

At(t, step) == thread[t].step = step

Goto(t, step) == thread' = [thread EXCEPT ![t].step = step]

(* What a thread is about to write.                                        *)
NewTable(t) == [thread[t].before EXCEPT ![thread[t].key] = thread[t].value]

(* A file whose writing was cut short: part of its lines, or no TOML.       *)
Pieces(table) == {Unreadable} \cup
    {[key \in Keys |-> IF key \in kept THEN table[key] ELSE Missing] : kept \in SUBSET Keys}

Fault == faults < MaxFaults /\ faults' = faults + 1 /\ UNCHANGED <<saves, crashes>>

Release == mutex' = None

(* Faulty: an exception leaves the mutex locked.                            *)
ThrowLocked(t) == UNCHANGED mutex /\ thread' = [thread EXCEPT ![t] = Idle]

(* An exception leaves the save, and releases the mutex.                    *)
Throw(t) == Release /\ thread' = [thread EXCEPT ![t] = Idle]

Call(t, key, value) ==
    /\ running /\ At(t, "idle") /\ saves < MaxSaves
    /\ thread' = [thread EXCEPT ![t] = [step |-> "waiting", key |-> key, value |-> value,
                                        before |-> Empty]]
    /\ saves' = saves + 1
    /\ UNCHANGED <<running, mutex, disk, history, faults, crashes>>

(* Faulty: the mutex is taken only for the writing.                         *)
AcquireUnlocked(t) ==
    /\ At(t, "waiting")
    /\ mutex' = t
    /\ IF file = Unreadable
       THEN thread' = [thread EXCEPT ![t] = Idle]
       ELSE thread' = [thread EXCEPT ![t].step = "read", ![t].before = Contents(file)]
    /\ UNCHANGED <<running, disk, history, counters>>

(* Lock and read; a file that cannot be parsed, or not be read this time,    *)
(* ends the save there.                                                    *)
Acquire(t) ==
    /\ At(t, "waiting") /\ mutex = None
    /\ \/ file = Unreadable /\ Throw(t) /\ UNCHANGED counters
       \/ Fault /\ Throw(t)
       \/ /\ file # Unreadable
          /\ mutex' = t
          /\ thread' = [thread EXCEPT ![t].step = "read", ![t].before = Contents(file)]
          /\ UNCHANGED counters
    /\ UNCHANGED <<running, disk, history>>

(* Faulty: the file itself is opened for writing.                           *)
OpenInPlace(t) ==
    /\ At(t, "read")
    /\ \/ Goto(t, "opened") /\ file' \in Pieces(NewTable(t)) /\ UNCHANGED <<mutex, counters>>
       \/ Fault /\ Throw(t) /\ UNCHANGED file
    /\ UNCHANGED <<running, temporary, history>>

(* The temporary file is truncated, whatever an earlier save left in it.    *)
Open(t) ==
    /\ At(t, "read")
    /\ \/ Goto(t, "opened") /\ temporary' = Unreadable /\ UNCHANGED <<mutex, counters>>
       \/ Fault /\ Throw(t) /\ UNCHANGED temporary
    /\ UNCHANGED <<running, file, history>>

Write(t) ==
    /\ At(t, "opened")
    /\ \/ Goto(t, "written") /\ temporary' = NewTable(t) /\ UNCHANGED <<mutex, counters>>
       \/ Fault /\ Throw(t) /\ UNCHANGED temporary
    /\ UNCHANGED <<running, file, history>>

Rename(t) ==
    /\ At(t, "written")
    /\ \/ /\ Goto(t, "replaced")
          /\ file' = temporary /\ temporary' = Absent
          /\ UNCHANGED counters
       \/ Fault /\ Goto(t, "unrenamed") /\ UNCHANGED disk
    /\ UNCHANGED <<running, mutex, history>>

(* copy_file opens and truncates the file, or fails before it does.         *)
BeginCopy(t) ==
    /\ At(t, "unrenamed")
    /\ \/ /\ Goto(t, "copying") /\ file' \in Pieces(temporary)
          /\ UNCHANGED <<mutex, temporary, counters>>
       \/ Fault /\ Throw(t) /\ temporary' = Absent /\ UNCHANGED file
    /\ UNCHANGED <<running, history>>

EndCopy(t) ==
    /\ At(t, "copying")
    /\ temporary' = Absent
    /\ \/ Goto(t, "replaced") /\ file' = temporary /\ UNCHANGED <<mutex, lost, counters>>
       \/ Fault /\ Throw(t) /\ lost' = TRUE /\ UNCHANGED file
    /\ UNCHANGED <<running, saved, doubtful>>

Return(t) ==
    /\ At(t, "replaced")
    /\ Release /\ thread' = [thread EXCEPT ![t] = Idle]
    /\ saved' = [saved EXCEPT ![thread[t].key] = thread[t].value]
    /\ doubtful' = [doubtful EXCEPT ![thread[t].key] = {}]
    /\ UNCHANGED <<running, disk, lost, counters>>

Proceed(t) == \/ Acquire(t) \/ Open(t) \/ Write(t) \/ Rename(t)
              \/ BeginCopy(t) \/ EndCopy(t) \/ Return(t)

-----------------------------------------------------------------------------
(* The program is killed, and started again.                               *)

InFlight(key) == {thread[t].value : t \in {u \in Threads : thread[u] # Idle /\ thread[u].key = key}}

Crash ==
    /\ running /\ crashes < MaxCrashes
    /\ crashes' = crashes + 1
    /\ running' = FALSE /\ mutex' = None /\ thread' = [t \in Threads |-> Idle]
    /\ doubtful' = [key \in Keys |-> doubtful[key] \cup InFlight(key)]
    /\ lost' = (lost \/ \E t \in Threads : At(t, "copying"))
    /\ UNCHANGED <<disk, saved, saves, faults>>

(* ConfigRepository restores the intervals, or main() ends.                 *)
StartUp ==
    /\ ~running /\ file # Unreadable
    /\ running' = TRUE
    /\ UNCHANGED <<mutex, thread, disk, history, counters>>

Next == \/ Crash \/ StartUp
        \/ \E t \in Threads : \/ Proceed(t)
                              \/ \E key \in Keys, value \in Values : Call(t, key, value)

Spec == Init /\ [][Next]_vars

(* A thread that is in a save goes on with it.                              *)
FairSpec == Spec /\ \A t \in Threads : WF_vars(Proceed(t))

-----------------------------------------------------------------------------
(* Properties.                                                             *)

Copier == {t \in Threads : At(t, "copying")}

(* A property has the value that was saved last, or one whose save has not   *)
(* returned: no other save, failure or kill brings an older one back or     *)
(* takes it away, unless a copy was cut short.                              *)
SavedStays ==
    /\ TypeOK
    /\ ~lost /\ Copier = {} =>
         /\ file # Unreadable
         /\ \A key \in Keys :
               Contents(file)[key] \in {saved[key]} \cup InFlight(key) \cup doubtful[key]

(* The properties as they are, or were until the copy under way.            *)
Stored == IF Copier # {} THEN thread[CHOOSE t \in Copier : TRUE].before ELSE Contents(file)

Store == INSTANCE PropertyStore WITH copying <- Copier # {}, store <- Stored

(* Every change of the file is one save of one property, whoever saves what *)
(* at the same time and wherever the program is killed; contents are lost   *)
(* only by a copy that is cut short.                                        *)
ImplementsStore == Store!Spec

(* Every save returns, throws or is killed.                                 *)
SavesEnd == \A t \in Threads : thread[t] # Idle ~> thread[t] = Idle
=============================================================================
