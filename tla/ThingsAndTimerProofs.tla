----------------------- MODULE ThingsAndTimerProofs -------------------------
(***************************************************************************)
(* Theorems about what main() keeps for the life of the process: the list   *)
(* of things, for every set of devices, with IDs of their own or not, of    *)
(* Shellys, and any number of scans and faults; and the timer, for every    *)
(* set of intervals, all units of time and any number of changes.           *)
(***************************************************************************)
EXTENDS ThingDirectory, Timer, SequenceTheorems, FiniteSetTheorems, TLAPS

-----------------------------------------------------------------------------
(* The inductive invariant.                                                *)

(* PollingService knows the list as it is.                                  *)
AllWatched == watched = things

(* As long as it is asked, the factory has heard all that Shellys announce,  *)
(* and those it has created have announced themselves whole.                *)
FactoryHears ==
    /\ listening /\ mdnsAlive => merged = announced
    /\ \A k \in created : merged[k] = Parts
    /\ \A k \in Shellys : announced[k] = Parts => ShellyThing(k) \in seen

(* A thing is in the repository only after a factory was given its candidate; *)
(* of those a chain has reported this is known as long as there was one only. *)
ThingsHaveOrigin ==
    /\ \A k \in Shellys : Contains(things, ShellyThing(k)) => k \in created
    /\ scans <= 1 => \A d \in Devices :
          /\ Contains(things, ModbusThing(d)) => <<"unit", d>> \in reported
          /\ Contains(things, SunspecThing(d)) =>
                \E e \in Devices : SunspecId[e] = SunspecId[d] /\ <<"sunspec", e>> \in reported
    /\ scans = 0 => ~chain /\ reported = {}

IInv == /\ ThingsAccounted /\ FoundWhileListening /\ KeepsListening
        /\ AllWatched /\ FactoryHears /\ ThingsHaveOrigin

-----------------------------------------------------------------------------
(* Lists without repetition.                                               *)

LEMMA ContainsAppend ==
    ASSUME NEW S, NEW s \in Seq(S), NEW e \in S
    PROVE  /\ Append(s, e) \in Seq(S)
           /\ \A x : Contains(Append(s, e), x) <=> Contains(s, x) \/ x = e
           /\ IsInjective(s) /\ ~Contains(s, e) => IsInjective(Append(s, e))
<1>1. /\ Append(s, e) \in Seq(S) /\ Len(Append(s, e)) = Len(s) + 1 /\ Len(s) \in Nat
      /\ \A i \in 1..Len(s) : Append(s, e)[i] = s[i]
      /\ Append(s, e)[Len(s) + 1] = e
  BY AppendProperties, LenProperties
<1>2. ASSUME NEW x PROVE Contains(Append(s, e), x) <=> Contains(s, x) \/ x = e
  <2>1. Contains(s, x) => Contains(Append(s, e), x)
    BY <1>1 DEF Contains
  <2>2. Contains(Append(s, e), e)
    BY <1>1 DEF Contains
  <2>3. ASSUME Contains(Append(s, e), x) PROVE Contains(s, x) \/ x = e
    <3>1. PICK i \in 1..(Len(s) + 1) : Append(s, e)[i] = x
      BY <1>1, <2>3 DEF Contains
    <3>2. i \in 1..Len(s) \/ i = Len(s) + 1
      BY <1>1
    <3>3. QED BY <1>1, <3>1, <3>2 DEF Contains
  <2>4. QED BY <2>1, <2>2, <2>3
<1>3. ASSUME IsInjective(s), ~Contains(s, e) PROVE IsInjective(Append(s, e))
  <2>1. DOMAIN s = 1..Len(s) /\ DOMAIN Append(s, e) = 1..(Len(s) + 1)
    BY <1>1, LenProperties
  <2>2. \A i \in 1..(Len(s) + 1) : i \in 1..Len(s) \/ i = Len(s) + 1
    BY <1>1
  <2>3. QED BY <1>1, <1>3, <2>1, <2>2 DEF IsInjective, Contains
<1>4. QED BY <1>1, <1>2, <1>3

(* What is erased from a list without repetition is gone, all else stays.    *)
LEMMA ContainsRemoveAt ==
    ASSUME NEW S, NEW s \in Seq(S), NEW i \in DOMAIN s, IsInjective(s)
    PROVE  /\ RemoveAt(s, i) \in Seq(S)
           /\ \A x : Contains(RemoveAt(s, i), x) <=> Contains(s, x) /\ x # s[i]
           /\ IsInjective(RemoveAt(s, i))
<1> DEFINE n == Len(s)
           front == SubSeq(s, 1, i - 1)
           back == SubSeq(s, i + 1, n)
           r == RemoveAt(s, i)
<1>1. n \in Nat /\ DOMAIN s = 1..n /\ i \in 1..n
  BY LenProperties
<1>2. /\ front \in Seq(S) /\ Len(front) = i - 1 /\ \A j \in 1..(i - 1) : front[j] = s[j]
  <2>1. \A j \in 1..(i - 1) : s[j] \in S
    BY <1>1, ElementOfSeq
  <2>2. QED BY <1>1, <2>1, SubSeqProperties
<1>3. /\ back \in Seq(S) /\ Len(back) = n - i /\ \A j \in 1..(n - i) : back[j] = s[i + j]
  <2>1. \A j \in i + 1..n : s[j] \in S
    BY <1>1, ElementOfSeq
  <2>2. QED BY <1>1, <2>1, SubSeqProperties
<1>4. /\ r \in Seq(S) /\ Len(r) = n - 1
      /\ \A j \in 1..(n - 1) : r[j] = IF j < i THEN s[j] ELSE s[j + 1]
  <2>1. r = front \o back
    BY DEF RemoveAt
  <2>2. r \in Seq(S) /\ Len(r) = Len(front) + Len(back)
        /\ \A j \in 1..(Len(front) + Len(back)) :
              r[j] = IF j <= Len(front) THEN front[j] ELSE back[j - Len(front)]
    <3>1. ASSUME NEW f \in Seq(S), NEW b \in Seq(S)
          PROVE  /\ f \o b \in Seq(S) /\ Len(f \o b) = Len(f) + Len(b)
                 /\ \A j \in 1..(Len(f) + Len(b)) :
                       (f \o b)[j] = IF j <= Len(f) THEN f[j] ELSE b[j - Len(f)]
      BY ConcatProperties
    <3> HIDE DEF front, back, r, n
    <3>2. QED BY <1>2, <1>3, <2>1, <3>1
  <2>3. ASSUME NEW j \in 1..(n - 1) PROVE r[j] = IF j < i THEN s[j] ELSE s[j + 1]
    <3> HIDE DEF front, back, r, n
    <3>1. CASE j < i
      BY <1>1, <1>2, <1>3, <2>2, <3>1
    <3>2. CASE ~(j < i)
      <4>1. j - (i - 1) \in 1..(n - i) /\ ~(j <= i - 1) /\ i + (j - (i - 1)) = j + 1
        BY <1>1, <3>2
      <4>2. j \in 1..(Len(front) + Len(back))
        BY <1>1, <1>2, <1>3
      <4>3. r[j] = back[j - (i - 1)]
        BY <1>2, <2>2, <4>1, <4>2
      <4>4. back[j - (i - 1)] = s[i + (j - (i - 1))]
        BY <1>3, <4>1
      <4>5. QED BY <3>2, <4>1, <4>3, <4>4
    <3>3. QED BY <3>1, <3>2
  <2>4. QED
    <3> HIDE DEF front, back, r
    <3>1. QED BY <1>1, <1>2, <1>3, <2>2, <2>3
<1> HIDE DEF front, back, r, n
<1>5. \A j, k \in 1..n : s[j] = s[k] => j = k
  BY <1>1 DEF IsInjective
<1>6. ASSUME NEW x PROVE Contains(r, x) <=> Contains(s, x) /\ x # s[i]
  <2>1. ASSUME Contains(r, x) PROVE Contains(s, x) /\ x # s[i]
    <3>1. PICK j \in 1..(n - 1) : r[j] = x
      BY <1>4, <2>1 DEF Contains
    <3>2. CASE j < i
      <4>1. j \in 1..n /\ j # i /\ s[j] = x
        BY <1>1, <1>4, <3>1, <3>2
      <4>2. QED BY <1>1, <1>5, <4>1 DEF Contains, n
    <3>3. CASE ~(j < i)
      <4>1. j + 1 \in 1..n /\ j + 1 # i /\ s[j + 1] = x
        BY <1>1, <1>4, <3>1, <3>3
      <4>2. QED BY <1>1, <1>5, <4>1 DEF Contains, n
    <3>4. QED BY <3>2, <3>3
  <2>2. ASSUME Contains(s, x), x # s[i] PROVE Contains(r, x)
    <3>1. PICK j \in 1..n : s[j] = x /\ j # i
      BY <1>1, <2>2 DEF Contains, n
    <3>2. CASE j < i
      <4>1. j \in 1..(n - 1) /\ r[j] = x
        BY <1>1, <1>4, <3>1, <3>2
      <4>2. QED BY <1>4, <4>1 DEF Contains
    <3>3. CASE ~(j < i)
      <4>1. j - 1 \in 1..(n - 1) /\ ~(j - 1 < i) /\ (j - 1) + 1 = j
        BY <1>1, <3>1, <3>3
      <4>2. r[j - 1] = x
        BY <1>4, <3>1, <4>1
      <4>3. QED BY <1>4, <4>1, <4>2 DEF Contains
    <3>4. QED BY <3>2, <3>3
  <2>3. QED BY <2>1, <2>2
<1>7. IsInjective(r)
  <2>1. SUFFICES ASSUME NEW j \in 1..(n - 1), NEW k \in 1..(n - 1), r[j] = r[k] PROVE j = k
    BY <1>4, LenProperties DEF IsInjective
  <2> DEFINE place(m) == IF m < i THEN m ELSE m + 1
  <2>2. r[j] = s[place(j)] /\ r[k] = s[place(k)]
    BY <1>4
  <2>3. place(j) \in 1..n /\ place(k) \in 1..n
    BY <1>1
  <2>4. place(j) = place(k)
    BY <1>5, <2>1, <2>2, <2>3
  <2>5. QED BY <1>1, <2>4
<1>8. QED BY <1>4, <1>6, <1>7 DEF r

-----------------------------------------------------------------------------
(* The actions.                                                            *)

(* What add does, whichever way it ends: the list stays as it was or gets    *)
(* the new thing, and who still listens afterwards has it.                  *)
LEMMA AddKeeps ==
    ASSUME IInv, NEW id \in Ids, Add(id)
    PROVE  /\ things' \in Seq(Ids) /\ watched' = things' /\ failures' \in [Ids -> 0..MaxFailures]
           /\ nameFaults' \in 0..MaxNameFaults /\ nameFaults' >= nameFaults
           /\ listening' \in BOOLEAN /\ UniqueThings' /\ ExpiryHeard'
           /\ \A x : Contains(things, x) => Contains(things', x)
           /\ \A x : Contains(things', x) => Contains(things, x) \/ x = id
           /\ listening' => listening /\ Contains(things', id)
           /\ listening /\ ~listening' => Contains(things, id) \/ nameFaults' > 0
<1>1. /\ things \in Seq(Ids) /\ watched = things /\ failures \in [Ids -> 0..MaxFailures]
      /\ nameFaults \in 0..MaxNameFaults /\ listening \in BOOLEAN
      /\ IsInjective(things) /\ ExpiryHeard
  BY DEF IInv, ThingsAccounted, TypeOK, UniqueThings, AllWatched
<1>2. MaxNameFaults \in Nat /\ MaxFailures \in Nat \ {0}
  BY DirectoryAssumption
<1>3. CASE /\ UNCHANGED <<things, watched, failures>>
           /\ \/ ~listening /\ UNCHANGED <<listening, nameFaults>>
              \/ /\ listening /\ Contains(things, id)
                 /\ listening' = FALSE /\ nameFaults' = nameFaults
              \/ /\ listening /\ nameFaults < MaxNameFaults
                 /\ nameFaults' = nameFaults + 1 /\ listening' = FALSE
  <2>1. UniqueThings' /\ ExpiryHeard'
    BY <1>1, <1>3 DEF UniqueThings, ExpiryHeard
  <2>2. /\ nameFaults' \in 0..MaxNameFaults /\ nameFaults' >= nameFaults
        /\ listening' \in BOOLEAN
    <3>1. nameFaults' = nameFaults \/ (nameFaults < MaxNameFaults /\ nameFaults' = nameFaults + 1)
      BY <1>3
    <3>2. listening' = listening \/ listening' = FALSE
      BY <1>3
    <3>3. nameFaults' \in 0..MaxNameFaults /\ nameFaults' >= nameFaults
      BY <1>1, <1>2, <3>1
    <3>4. QED BY <1>1, <3>2, <3>3
  <2>3. listening' => listening /\ Contains(things', id)
    BY <1>3
  <2>4. listening /\ ~listening' => Contains(things, id) \/ nameFaults' > 0
    BY <1>1, <1>2, <1>3
  <2>5. QED BY <1>1, <1>3, <2>1, <2>2, <2>3, <2>4
<1>4. CASE /\ listening /\ ~Contains(things, id)
           /\ Publish(Append(things, id))
           /\ failures' = [failures EXCEPT ![id] = 0]
           /\ UNCHANGED <<listening, nameFaults>>
  <2>1. things' = Append(things, id) /\ watched' = things'
    BY <1>4 DEF Publish
  <2>2. /\ things' \in Seq(Ids)
        /\ \A x : Contains(things', x) <=> Contains(things, x) \/ x = id
        /\ IsInjective(things')
    BY <1>1, <1>4, <2>1, ContainsAppend
  <2>3. failures' \in [Ids -> 0..MaxFailures] /\ ExpiryHeard'
    BY <1>1, <1>2, <1>4, <2>2 DEF ExpiryHeard
  <2>4. QED BY <1>1, <1>2, <1>4, <2>1, <2>2, <2>3 DEF UniqueThings
<1>5. QED BY <1>3, <1>4 DEF Add, repository

LEMMA InitIInv == Init => IInv
<1> SUFFICES ASSUME Init PROVE IInv
  OBVIOUS
<1>1. \A id : ~Contains(things, id)
  BY DEF Init, Contains
<1>2. TypeOK
  <2>1. things \in Seq(Ids) /\ watched \in Seq(Ids)
    BY DEF Init
  <2>2. failures \in [Ids -> 0..MaxFailures] /\ nameFaults \in 0..MaxNameFaults
        /\ queryFaults \in 0..MaxQueryFaults /\ scans \in 0..MaxScans
    BY DirectoryAssumption DEF Init
  <2>3. merged \in [Shellys -> SUBSET Parts] /\ announced \in [Shellys -> SUBSET Parts] /\ nameless \subseteq Shellys
    BY DEF Init
  <2>4. /\ {listening, mdnsAlive, chain} \subseteq BOOLEAN /\ reported \subseteq {"unit", "sunspec"} \X Devices
        /\ created \subseteq Shellys /\ seen \subseteq Ids /\ lost \subseteq Ids
    BY DEF Init
  <2>5. QED BY <2>1, <2>2, <2>3, <2>4 DEF TypeOK
<1>3. UniqueThings
  BY DEF Init, UniqueThings, IsInjective
<1>4. Parts # {}
  BY DEF Parts
<1>5. QED
  BY <1>1, <1>2, <1>3, <1>4
  DEF Init, IInv, ThingsAccounted, FoundWhileListening, KeepsListening, ExpiryHeard,
      AllWatched, FactoryHears, ThingsHaveOrigin

LEMMA DiscoverIInv == IInv /\ Discover => IInv'
<1> SUFFICES ASSUME IInv, Discover PROVE IInv'
  OBVIOUS
<1> USE DEF Discover, factory, repository, history
<1>1. TypeOK'
  <2>1. TypeOK /\ MaxScans \in Nat /\ MaxQueryFaults \in Nat
    BY DirectoryAssumption DEF IInv, ThingsAccounted
  <2>2. scans' \in 0..MaxScans /\ queryFaults' \in 0..MaxQueryFaults
    BY <2>1 DEF TypeOK
  <2>3. {listening', mdnsAlive', chain'} \subseteq BOOLEAN /\ reported' \subseteq {"unit", "sunspec"} \X Devices
    BY <2>1 DEF TypeOK
  <2>4. QED BY <2>1, <2>2, <2>3 DEF TypeOK
<1>2. UniqueThings' /\ ExpiryHeard' /\ AllWatched'
  BY DEF IInv, ThingsAccounted, UniqueThings, ExpiryHeard, AllWatched
<1>3. scans \in Nat /\ scans' = scans + 1
  BY DEF IInv, ThingsAccounted, TypeOK
<1>4. FoundWhileListening' /\ FactoryHears'
  BY DEF IInv, ThingsAccounted, TypeOK, FoundWhileListening, FactoryHears
<1>5. KeepsListening'
  BY <1>3 DEF IInv, KeepsListening
<1>6. ThingsHaveOrigin'
  <2>1. \A k \in Shellys : Contains(things', ShellyThing(k)) => k \in created'
    BY DEF IInv, ThingsHaveOrigin
  <2>2. scans' <= 1 => scans = 0
    BY <1>3
  <2>3. scans = 0 => \A d \in Devices : ~Contains(things', ModbusThing(d)) /\ ~Contains(things', SunspecThing(d))
    <3>1. scans = 0 => \A d \in Devices : ~Contains(things, ModbusThing(d)) /\ ~Contains(things, SunspecThing(d))
      <4>1. scans = 0 => scans <= 1 /\ \A p : p \notin reported
        BY DEF IInv, ThingsHaveOrigin
      <4>2. QED BY <4>1 DEF IInv, ThingsHaveOrigin
    <3>2. QED BY <3>1
  <2>4. scans' # 0
    BY <1>3
  <2>5. QED BY <2>1, <2>2, <2>3, <2>4 DEF ThingsHaveOrigin
<1>7. QED BY <1>1, <1>2, <1>4, <1>5, <1>6 DEF IInv, ThingsAccounted

(* The three kinds of IDs do not meet.                                      *)
LEMMA IdsApart ==
    ASSUME NEW k \in Shellys
    PROVE  /\ ShellyThing(k) \in Ids /\ ShellyThing(k) \notin ScannedThings
           /\ \A j \in Shellys : ShellyThing(j) = ShellyThing(k) => j = k
           /\ \A d \in Devices : ModbusThing(d) # ShellyThing(k) /\ SunspecThing(d) # ShellyThing(k)
  BY DEF Ids, ScannedThings, ShellyThing, ModbusThing, SunspecThing

LEMMA ScannedApart ==
    ASSUME NEW d \in Devices
    PROVE  /\ ModbusThing(d) \in Ids /\ SunspecThing(d) \in Ids
           /\ \A e \in Devices : ModbusThing(e) = ModbusThing(d) => e = d
           /\ \A e \in Devices : SunspecThing(e) = SunspecThing(d) => SunspecId[e] = SunspecId[d]
           /\ \A e \in Devices : ModbusThing(e) # SunspecThing(d)
  BY DEF Ids, ScannedThings, ModbusThing, SunspecThing

LEMMA ModbusReportsIInv == ASSUME NEW d \in Devices, IInv, ModbusReports(d) PROVE IInv'
<1> DEFINE id == ModbusThing(d)
<1>1. id \in Ids /\ Add(id)
  BY ScannedApart DEF ModbusReports
<1>2. /\ things' \in Seq(Ids) /\ watched' = things' /\ failures' \in [Ids -> 0..MaxFailures]
      /\ nameFaults' \in 0..MaxNameFaults /\ nameFaults' >= nameFaults
      /\ listening' \in BOOLEAN /\ UniqueThings' /\ ExpiryHeard'
      /\ \A x : Contains(things, x) => Contains(things', x)
      /\ \A x : Contains(things', x) => Contains(things, x) \/ x = id
      /\ listening' => listening /\ Contains(things', id)
      /\ listening /\ ~listening' => Contains(things, id) \/ nameFaults' > 0
  BY <1>1, AddKeeps
<1>3. /\ chain /\ <<"unit", d>> \notin reported /\ reported' = reported \cup {<<"unit", d>>}
      /\ seen' = seen \cup {id} /\ lost' = lost \ {id}
      /\ UNCHANGED <<mdnsAlive, scans, chain, queryFaults, merged, created, announced, nameless>>
  BY DEF ModbusReports, factory
<1>4. scans \in Nat /\ nameFaults \in Nat /\ MaxNameFaults \in Nat
  BY DirectoryAssumption DEF IInv, ThingsAccounted, TypeOK
<1> HIDE DEF id
<1>5. TypeOK'
  BY <1>1, <1>2, <1>3 DEF IInv, ThingsAccounted, TypeOK
<1>6. FoundWhileListening'
  BY <1>2, <1>3 DEF IInv, FoundWhileListening
<1>7. KeepsListening'
  <2>1. CASE ~listening
    BY <1>2, <1>3, <1>4, <2>1 DEF IInv, KeepsListening
  <2>2. CASE listening /\ Contains(things, id)
    <3>1. ~(scans <= 1)
      BY <1>3, <2>2 DEF IInv, ThingsHaveOrigin, id
    <3>2. QED BY <1>3, <1>4, <3>1 DEF KeepsListening
  <2>3. QED BY <1>2, <2>1, <2>2 DEF KeepsListening
<1>8. FactoryHears'
  BY <1>2, <1>3 DEF IInv, FactoryHears
<1>9. ThingsHaveOrigin'
  <2>1. \A k \in Shellys : Contains(things', ShellyThing(k)) => k \in created'
    BY <1>2, <1>3, IdsApart DEF IInv, ThingsHaveOrigin, id
  <2>2. scans # 0
    BY <1>3 DEF IInv, ThingsHaveOrigin
  <2>3. ASSUME scans <= 1, NEW e \in Devices
        PROVE  /\ Contains(things', ModbusThing(e)) => <<"unit", e>> \in reported'
               /\ Contains(things', SunspecThing(e)) =>
                     \E f \in Devices : SunspecId[f] = SunspecId[e] /\ <<"sunspec", f>> \in reported'
    <3>1. ModbusThing(e) = id => e = d
      BY ScannedApart DEF id
    <3>2. SunspecThing(e) # id
      BY ScannedApart DEF id
    <3>3. QED BY <1>2, <1>3, <2>3, <3>1, <3>2 DEF IInv, ThingsHaveOrigin
  <2>4. QED BY <1>3, <2>1, <2>2, <2>3 DEF ThingsHaveOrigin
<1>10. QED BY <1>2, <1>5, <1>6, <1>7, <1>8, <1>9 DEF IInv, ThingsAccounted, AllWatched

LEMMA SunspecReportsIInv == ASSUME NEW d \in Devices, IInv, SunspecReports(d) PROVE IInv'
<1> DEFINE id == SunspecThing(d)
<1>1. id \in Ids /\ Add(id)
  BY ScannedApart DEF SunspecReports
<1>2. /\ things' \in Seq(Ids) /\ watched' = things' /\ failures' \in [Ids -> 0..MaxFailures]
      /\ nameFaults' \in 0..MaxNameFaults /\ nameFaults' >= nameFaults
      /\ listening' \in BOOLEAN /\ UniqueThings' /\ ExpiryHeard'
      /\ \A x : Contains(things, x) => Contains(things', x)
      /\ \A x : Contains(things', x) => Contains(things, x) \/ x = id
      /\ listening' => listening /\ Contains(things', id)
      /\ listening /\ ~listening' => Contains(things, id) \/ nameFaults' > 0
  BY <1>1, AddKeeps
<1>3. /\ chain /\ <<"sunspec", d>> \notin reported /\ reported' = reported \cup {<<"sunspec", d>>}
      /\ seen' = seen \cup {id} /\ lost' = lost \ {id}
      /\ UNCHANGED <<mdnsAlive, scans, chain, queryFaults, merged, created, announced, nameless>>
  BY DEF SunspecReports, factory
<1>4. scans \in Nat /\ nameFaults \in Nat /\ MaxNameFaults \in Nat
  BY DirectoryAssumption DEF IInv, ThingsAccounted, TypeOK
<1> HIDE DEF id
<1>5. TypeOK'
  BY <1>1, <1>2, <1>3 DEF IInv, ThingsAccounted, TypeOK
<1>6. FoundWhileListening'
  BY <1>2, <1>3 DEF IInv, FoundWhileListening
<1>7. KeepsListening'
  <2>1. CASE ~listening
    BY <1>2, <1>3, <1>4, <2>1 DEF IInv, KeepsListening
  <2>2. CASE listening /\ Contains(things, id) /\ scans <= 1
    <3>1. PICK e \in Devices : SunspecId[e] = SunspecId[d] /\ <<"sunspec", e>> \in reported
      BY <2>2 DEF IInv, ThingsHaveOrigin, id
    <3>2. e # d
      BY <1>3, <3>1
    <3>3. QED BY <3>1, <3>2 DEF KeepsListening
  <2>3. CASE ~(scans <= 1)
    BY <1>3, <1>4, <2>3 DEF KeepsListening
  <2>4. QED BY <1>2, <2>1, <2>2, <2>3 DEF KeepsListening
<1>8. FactoryHears'
  BY <1>2, <1>3 DEF IInv, FactoryHears
<1>9. ThingsHaveOrigin'
  <2>1. \A k \in Shellys : Contains(things', ShellyThing(k)) => k \in created'
    BY <1>2, <1>3, IdsApart DEF IInv, ThingsHaveOrigin, id
  <2>2. scans # 0
    BY <1>3 DEF IInv, ThingsHaveOrigin
  <2>3. ASSUME scans <= 1, NEW e \in Devices
        PROVE  /\ Contains(things', ModbusThing(e)) => <<"unit", e>> \in reported'
               /\ Contains(things', SunspecThing(e)) =>
                     \E f \in Devices : SunspecId[f] = SunspecId[e] /\ <<"sunspec", f>> \in reported'
    <3>1. ModbusThing(e) # id
      BY ScannedApart DEF id
    <3>2. SunspecThing(e) = id => SunspecId[e] = SunspecId[d]
      BY ScannedApart DEF id
    <3>3. QED BY <1>2, <1>3, <2>3, <3>1, <3>2 DEF IInv, ThingsHaveOrigin
  <2>4. QED BY <1>3, <2>1, <2>2, <2>3 DEF ThingsHaveOrigin
<1>10. QED BY <1>2, <1>5, <1>6, <1>7, <1>8, <1>9 DEF IInv, ThingsAccounted, AllWatched

(* A Shelly that was created has been seen: the second announcement, or one   *)
(* under the other service type, creates nothing.                           *)
LEMMA ShellyAnnouncesIInv ==
    ASSUME NEW k \in Shellys, NEW parts \in SUBSET Parts, IInv, ShellyAnnounces(k, parts)
    PROVE  IInv'
<1> DEFINE id == ShellyThing(k)
<1>1. id \in Ids /\ id \notin ScannedThings /\ \A j \in Shellys : ShellyThing(j) = id => j = k
  BY IdsApart
<1>2. \A d \in Devices : ModbusThing(d) # id /\ SunspecThing(d) # id
  BY IdsApart
<1>3. /\ announced' = [announced EXCEPT ![k] = @ \cup parts]
      /\ seen' = IF announced'[k] = Parts THEN seen \cup {id} ELSE seen
      /\ UNCHANGED <<mdnsAlive, scans, chain, reported, queryFaults, nameless, lost>>
  BY DEF ShellyAnnounces, discovery
<1>4. scans \in Nat /\ nameFaults \in Nat /\ MaxNameFaults \in Nat
  BY DirectoryAssumption DEF IInv, ThingsAccounted, TypeOK
<1>5. TypeOK
  BY DEF IInv, ThingsAccounted
<1> HIDE DEF id
<1>6. announced' \in [Shellys -> SUBSET Parts] /\ seen' \subseteq Ids
      /\ announced'[k] = announced[k] \cup parts
      /\ \A j \in Shellys \ {k} : announced'[j] = announced[j]
  BY <1>1, <1>3, <1>5 DEF TypeOK
<1>7. \A j \in Shellys : announced'[j] = Parts => ShellyThing(j) \in seen'
  BY <1>3, <1>6 DEF IInv, FactoryHears, id
<1>8. CASE UNCHANGED <<listening, repository>> /\ ~(mdnsAlive /\ listening)
  <2>1. UNCHANGED <<merged, created, listening, things, watched, failures, nameFaults>>
    BY <1>8 DEF ShellyAnnounces, factory, repository
  <2>2. TypeOK'
    BY <1>3, <1>5, <1>6, <2>1 DEF TypeOK
  <2>3. UniqueThings' /\ ExpiryHeard' /\ KeepsListening' /\ AllWatched'
    BY <1>3, <2>1
    DEF IInv, ThingsAccounted, UniqueThings, ExpiryHeard, KeepsListening, AllWatched
  <2>4. FoundWhileListening'
    BY <1>1, <1>3, <1>8, <2>1 DEF IInv, FoundWhileListening
  <2>5. FactoryHears'
    BY <1>3, <1>7, <1>8, <2>1 DEF IInv, FactoryHears
  <2>6. ThingsHaveOrigin'
    BY <1>3, <2>1 DEF IInv, ThingsHaveOrigin
  <2>7. QED BY <2>2, <2>3, <2>4, <2>5, <2>6 DEF IInv, ThingsAccounted
<1>9. CASE mdnsAlive /\ listening
  <2>1. merged' = [merged EXCEPT ![k] = @ \cup parts] /\ merged = announced /\ merged' = announced'
    BY <1>3, <1>9 DEF ShellyAnnounces, IInv, FactoryHears
  <2>2. merged' \in [Shellys -> SUBSET Parts] /\ \A j \in created : merged'[j] = Parts
    <3>1. created \subseteq Shellys /\ \A j \in created : merged[j] = Parts
      BY <1>5 DEF TypeOK, IInv, FactoryHears
    <3>2. QED BY <1>6, <2>1, <3>1
  <2>3. CASE (k \in created \/ merged'[k] # Parts) /\ UNCHANGED <<created, listening, repository>>
    <3>1. UNCHANGED <<created, listening, things, watched, failures, nameFaults>>
      BY <2>3 DEF repository
    <3>2. seen' = seen
      <4>1. CASE k \in created
        <5>1. announced[k] = Parts
          BY <2>1, <4>1 DEF IInv, FactoryHears
        <5>2. id \in seen
          BY <5>1 DEF IInv, FactoryHears, id
        <5>3. QED BY <1>3, <5>2
      <4>2. CASE merged'[k] # Parts
        BY <1>3, <2>1, <4>2
      <4>3. QED BY <2>3, <4>1, <4>2
    <3>3. TypeOK'
      BY <1>3, <1>5, <1>6, <2>2, <3>1 DEF TypeOK
    <3>4. UniqueThings' /\ ExpiryHeard' /\ KeepsListening' /\ AllWatched'
      BY <1>3, <3>1
      DEF IInv, ThingsAccounted, UniqueThings, ExpiryHeard, KeepsListening, AllWatched
    <3>5. FoundWhileListening'
      BY <1>3, <3>1, <3>2 DEF IInv, FoundWhileListening
    <3>6. FactoryHears'
      BY <1>7, <2>1, <2>2, <3>1 DEF FactoryHears
    <3>7. ThingsHaveOrigin'
      BY <1>3, <3>1 DEF IInv, ThingsHaveOrigin
    <3>8. QED BY <3>3, <3>4, <3>5, <3>6, <3>7 DEF IInv, ThingsAccounted
  <2>4. CASE k \notin created /\ merged'[k] = Parts /\ created' = created \cup {k} /\ Add(id)
    <3>1. /\ things' \in Seq(Ids) /\ watched' = things' /\ failures' \in [Ids -> 0..MaxFailures]
          /\ nameFaults' \in 0..MaxNameFaults /\ nameFaults' >= nameFaults
          /\ listening' \in BOOLEAN /\ UniqueThings' /\ ExpiryHeard'
          /\ \A x : Contains(things, x) => Contains(things', x)
          /\ \A x : Contains(things', x) => Contains(things, x) \/ x = id
          /\ listening' => listening /\ Contains(things', id)
          /\ listening /\ ~listening' => Contains(things, id) \/ nameFaults' > 0
      BY <1>1, <2>4, AddKeeps
    <3>2. ~Contains(things, id)
      BY <2>4 DEF IInv, ThingsHaveOrigin, id
    <3>3. TypeOK'
      BY <1>3, <1>5, <1>6, <2>2, <2>4, <3>1 DEF TypeOK
    <3>4. FoundWhileListening'
      BY <1>3, <3>1 DEF IInv, FoundWhileListening
    <3>5. KeepsListening'
      BY <1>9, <3>1, <3>2 DEF KeepsListening
    <3>6. FactoryHears'
      BY <1>7, <2>1, <2>2, <2>4 DEF FactoryHears
    <3>7. ThingsHaveOrigin'
      <4>1. \A j \in Shellys : Contains(things', ShellyThing(j)) => j \in created'
        BY <1>1, <2>4, <3>1 DEF IInv, ThingsHaveOrigin
      <4>2. QED BY <1>2, <1>3, <3>1, <4>1 DEF IInv, ThingsHaveOrigin
    <3>8. QED BY <3>1, <3>3, <3>4, <3>5, <3>6, <3>7 DEF IInv, ThingsAccounted, AllWatched
  <2>5. CASE /\ k \notin created /\ merged'[k] = Parts /\ created' = created \cup {k}
             /\ k \in nameless /\ listening' = FALSE /\ UNCHANGED repository
    <3>1. UNCHANGED <<things, watched, failures, nameFaults>>
      BY <2>5 DEF repository
    <3>2. TypeOK'
      BY <1>3, <1>5, <1>6, <2>2, <2>5, <3>1 DEF TypeOK
    <3>3. UniqueThings' /\ ExpiryHeard' /\ AllWatched'
      BY <3>1 DEF IInv, ThingsAccounted, UniqueThings, ExpiryHeard, AllWatched
    <3>4. FoundWhileListening' /\ KeepsListening'
      BY <1>3, <2>1, <2>5 DEF FoundWhileListening, KeepsListening
    <3>5. FactoryHears'
      BY <1>7, <2>1, <2>2, <2>5 DEF FactoryHears
    <3>6. ThingsHaveOrigin'
      BY <1>3, <2>5, <3>1 DEF IInv, ThingsHaveOrigin
    <3>7. QED BY <3>2, <3>3, <3>4, <3>5, <3>6 DEF IInv, ThingsAccounted
  <2>6. QED BY <1>9, <2>3, <2>4, <2>5 DEF ShellyAnnounces, id
<1>10. QED BY <1>8, <1>9 DEF ShellyAnnounces

LEMMA PollSucceedsIInv == ASSUME NEW id \in Ids, IInv, PollSucceeds(id) PROVE IInv'
<1> USE DEF PollSucceeds, discovery, factory, history
<1>1. failures \in [Ids -> 0..MaxFailures] /\ failures' = [failures EXCEPT ![id] = 0]
      /\ MaxFailures \in Nat \ {0}
  BY DirectoryAssumption DEF IInv, ThingsAccounted, TypeOK
<1>2. TypeOK'
  BY <1>1 DEF IInv, ThingsAccounted, TypeOK
<1>3. ExpiryHeard'
  BY <1>1 DEF IInv, ThingsAccounted, ExpiryHeard
<1>4. QED
  BY <1>2, <1>3
  DEF IInv, ThingsAccounted, UniqueThings, FoundWhileListening, KeepsListening, AllWatched,
      FactoryHears, ThingsHaveOrigin

(* A thing that fails its last poll goes, since it is watched.               *)
LEMMA PollFailsIInv == ASSUME NEW id \in Ids, IInv, PollFails(id) PROVE IInv'
<1> DEFINE count == failures[id] + 1
<1>1. /\ things \in Seq(Ids) /\ watched = things /\ IsInjective(things)
      /\ failures \in [Ids -> 0..MaxFailures] /\ MaxFailures \in Nat \ {0}
      /\ Contains(things, id) /\ failures[id] < MaxFailures /\ ExpiryHeard
  BY DirectoryAssumption
  DEF PollFails, IInv, ThingsAccounted, TypeOK, AllWatched, UniqueThings, ExpiryHeard
<1>2. UNCHANGED <<listening, mdnsAlive, scans, chain, reported, queryFaults, nameless, merged, created,
                  nameFaults, seen, announced>>
  BY DEF PollFails, discovery, factory
<1>3. CASE count >= MaxFailures
  <2>1. Erase(id) /\ failures' = [failures EXCEPT ![id] = 0] /\ lost' = lost \cup {id}
    BY <1>1, <1>3 DEF PollFails
  <2>2. PICK i \in DOMAIN things : things[i] = id /\ things' = RemoveAt(things, i) /\ watched' = things'
    BY <2>1 DEF Erase, Publish
  <2>3. /\ things' \in Seq(Ids) /\ IsInjective(things')
        /\ \A x : Contains(things', x) <=> Contains(things, x) /\ x # id
    BY <1>1, <2>2, ContainsRemoveAt
  <2>4. TypeOK'
    BY <1>1, <1>2, <2>1, <2>2, <2>3 DEF IInv, ThingsAccounted, TypeOK
  <2>5. ExpiryHeard'
    BY <1>1, <2>1, <2>3 DEF ExpiryHeard
  <2>6. FoundWhileListening' /\ KeepsListening'
    BY <1>2, <2>1, <2>3 DEF IInv, FoundWhileListening, KeepsListening
  <2>7. FactoryHears' /\ ThingsHaveOrigin'
    BY <1>2, <2>3 DEF IInv, FactoryHears, ThingsHaveOrigin
  <2>8. QED
    BY <2>2, <2>3, <2>4, <2>5, <2>6, <2>7 DEF IInv, ThingsAccounted, UniqueThings, AllWatched
<1>4. CASE ~(count >= MaxFailures)
  <2>1. failures' = [failures EXCEPT ![id] = count] /\ UNCHANGED <<things, watched, lost>>
    BY <1>1, <1>4 DEF PollFails
  <2>2. failures' \in [Ids -> 0..MaxFailures] /\ count < MaxFailures
    BY <1>1, <1>4, <2>1
  <2>3. TypeOK'
    BY <1>2, <2>1, <2>2 DEF IInv, ThingsAccounted, TypeOK
  <2>4. ExpiryHeard'
    BY <1>1, <2>1, <2>2 DEF ExpiryHeard
  <2>5. QED
    BY <1>2, <2>1, <2>3, <2>4
    DEF IInv, ThingsAccounted, UniqueThings, FoundWhileListening, KeepsListening, AllWatched,
        FactoryHears, ThingsHaveOrigin
<1>5. QED BY <1>3, <1>4

LEMMA NextIInv == IInv /\ [Next]_vars => IInv'
<1> SUFFICES ASSUME IInv, [Next]_vars PROVE IInv'
  OBVIOUS
<1>1. CASE UNCHANGED vars
  BY <1>1
  DEF vars, discovery, factory, repository, history, IInv, ThingsAccounted, TypeOK, UniqueThings,
      ExpiryHeard, FoundWhileListening, KeepsListening, AllWatched, FactoryHears, ThingsHaveOrigin
<1>2. QED
  BY <1>1, DiscoverIInv, ModbusReportsIInv, SunspecReportsIInv, ShellyAnnouncesIInv,
     PollSucceedsIInv, PollFailsIInv
  DEF Next

-----------------------------------------------------------------------------
(* The theorems.                                                           *)

(* The invariant, for every number of devices, scans and faults.             *)
THEOREM Invariance == Spec => []IInv
<1>1. QED BY InitIInv, NextIInv, PTL DEF Spec

(* No ID is twice in the repository, and a thing that has failed its last    *)
(* poll in a row is not in it (ThingRepository::add, remove,                *)
(* PollingService::onThingsChanged).                                       *)
THEOREM EveryThingAccounted == Spec => []ThingsAccounted
<1>1. IInv => ThingsAccounted
  BY DEF IInv
<1>2. QED BY <1>1, Invariance, PTL

(* As long as main listens no thing that was shown gets lost on its way to   *)
(* the repository (main, ThingFactoryService, ShellyThingFactory).           *)
THEOREM NothingIsMissed == Spec => []FoundWhileListening
<1>1. IInv => FoundWhileListening
  BY DEF IInv
<1>2. QED BY <1>1, Invariance, PTL

(* Only a repeated scan, a shared ID, a name that cannot be restored or a    *)
(* Shelly without a name ends the subscription of main.                     *)
THEOREM SubscriptionLives == Spec => []KeepsListening
<1>1. IInv => KeepsListening
  BY DEF IInv
<1>2. QED BY <1>1, Invariance, PTL

-----------------------------------------------------------------------------
(* The timer, which has nothing in common with the list of things but the    *)
(* process: its inductive invariant.                                       *)

EndsIn(q) == {k \in DOMAIN q : q[k].op # "set"}

(* A Scheduler has been asked for by a change, and those that wait in the    *)
(* queue, where there is at most one end, are still to come.                *)
ChangesCounted ==
    /\ made + Len(tasks) <= changes + (IF EndsIn(tasks) = {} THEN 0 ELSE 1)
    /\ \A j, k \in EndsIn(tasks) : j = k
    /\ IsFiniteSet(timeouts)

(* A timeout whose tick has been announced already is due after that tick,   *)
(* and it was announced once, if its interval fits the delay of the loop;    *)
(* who was never made has announced nothing.                                *)
RepeatsOnce ==
    /\ \A t \in timeouts : t.at > 0
    /\ \A t \in timeouts : Fits(t.interval) /\ t.at = last[t.scheduler].at =>
                            last[t.scheduler].times <= 1 /\ t.due > t.at
    /\ \A s \in Schedulers : s > made => last[s].at = 0 /\ last[s].times = 0

TimerIInv == /\ ChannelsAccounted /\ AnnouncedTwiceAtMost
        /\ ChangesCounted /\ RepeatsOnce

-----------------------------------------------------------------------------
(* Arithmetic of ticks.                                                    *)

LEMMA DivMod ==
    ASSUME NEW x \in Nat, NEW y \in Nat \ {0}
    PROVE  x \div y \in Nat /\ x % y \in 0..(y - 1) /\ x = (x \div y) * y + (x % y)
  OBVIOUS

LEMMA ProductGrows ==
    ASSUME NEW a \in Nat, NEW b \in Nat, NEW c \in Nat, a >= b
    PROVE  a * c >= b * c
  OBVIOUS

(* The next tick is strictly after now, and at most an interval ahead        *)
(* (nextEpochAlignedTickAfter).                                             *)
LEMMA TickIsAhead ==
    ASSUME TimerAssumption, NEW time \in Nat, NEW i \in Intervals
    PROVE  /\ NextTick(time, i) \in Nat /\ NextTick(time, i) > time
           /\ NextTick(time, i) <= time + i * Second
<1> DEFINE e == time \div Second
           r == e % i
           k == e + (i - r)
<1>1. Second \in Nat \ {0} /\ i \in Nat \ {0}
  BY DEF TimerAssumption
<1>2. e \in Nat /\ time % Second \in 0..(Second - 1) /\ time = e * Second + (time % Second)
  BY <1>1, DivMod
<1>3. r \in 0..(i - 1)
  BY <1>1, <1>2, DivMod
<1>4. NextTick(time, i) = k * Second
  BY DEF NextTick
<1> HIDE DEF e, r
<1>5. k \in Nat /\ k >= e + 1 /\ k <= e + i
  BY <1>1, <1>2, <1>3
<1> HIDE DEF k
<1>6. k * Second >= (e + 1) * Second /\ k * Second <= (e + i) * Second
  BY <1>1, <1>2, <1>5, ProductGrows
<1>7. (e + 1) * Second = e * Second + Second /\ (e + i) * Second = e * Second + i * Second
  BY <1>1, <1>2
<1>8. e * Second \in Nat /\ k * Second \in Nat /\ i * Second \in Nat
  BY <1>1, <1>2, <1>5
<1>9. QED BY <1>1, <1>2, <1>4, <1>6, <1>7, <1>8

(* A delay that the loop can tell from others is less than a millisecond     *)
(* short, and at least one millisecond.                                     *)
LEMMA DelayIsClose ==
    ASSUME TimerAssumption, NEW wait \in Nat \ {0}
    PROVE  /\ Delay(wait) \in Nat
           /\ wait < Milli => Delay(wait) = Milli
           /\ wait \div Milli < DelayRange => Delay(wait) + Milli > wait
<1>1. Milli \in Nat \ {0} /\ DelayRange \in Nat \ {0, 1}
  BY DEF TimerAssumption
<1>2. CASE wait < Milli
  <2>1. Delay(wait) = (1 % DelayRange) * Milli
    BY <1>2 DEF Delay
  <2>2. 1 % DelayRange = 1
    BY <1>1
  <2>3. QED BY <1>1, <1>2, <2>1, <2>2
<1>3. CASE ~(wait < Milli)
  <2> DEFINE d == wait \div Milli
             r == wait % Milli
             n == d % DelayRange
  <2>1. d \in Nat /\ r \in 0..(Milli - 1) /\ wait = d * Milli + r
    BY <1>1, DivMod
  <2>2. Delay(wait) = n * Milli
    BY <1>3 DEF Delay
  <2> HIDE DEF r
  <2>3. n \in Nat /\ (d < DelayRange => n = d)
    <3> HIDE DEF d
    <3>1. QED BY <1>1, <2>1
  <2> HIDE DEF n
  <2>4. n * Milli \in Nat
    BY <1>1, <2>3
  <2>5. ASSUME d < DelayRange PROVE Delay(wait) + Milli > wait
    <3>1. Delay(wait) = d * Milli
      BY <2>2, <2>3, <2>5
    <3> HIDE DEF d
    <3>2. d * Milli \in Nat
      BY <1>1, <2>1
    <3>3. QED BY <1>1, <2>1, <3>1, <3>2
  <2>6. QED BY <1>3, <2>2, <2>4, <2>5
<1>4. QED BY <1>2, <1>3

(* Nobody waits longer than the interval, so the wait fits if the interval    *)
(* does.                                                                   *)
LEMMA WaitFits ==
    ASSUME TimerAssumption, NEW i \in Intervals, Fits(i), NEW wait \in Nat, wait <= i * Second
    PROVE  wait \div Milli < DelayRange
<1> DEFINE m == Second \div Milli
           d == wait \div Milli
<1>1. Milli \in Nat \ {0} /\ Second \in Nat \ {0} /\ Second % Milli = 0 /\ DelayRange \in Nat /\ i \in Nat
  BY DEF TimerAssumption
<1>2. m \in Nat /\ Second = m * Milli
  <2>1. m \in Nat /\ Second = m * Milli + (Second % Milli) /\ m * Milli \in Nat
    BY <1>1, DivMod
  <2>2. QED BY <1>1, <2>1
<1>3. d \in Nat /\ d * Milli <= wait
  <2>1. d \in Nat /\ wait % Milli \in Nat /\ wait = d * Milli + (wait % Milli) /\ d * Milli \in Nat
    BY <1>1, DivMod
  <2>2. QED BY <2>1
<1>4. i * m < DelayRange
  BY DEF Fits
<1> HIDE DEF d, m
<1>5. i * Second = (i * m) * Milli /\ i * m \in Nat
  BY <1>1, <1>2
<1>6. d <= i * m
  <2>1. SUFFICES ASSUME d >= i * m + 1 PROVE FALSE
    BY <1>3, <1>5
  <2>2. d * Milli >= (i * m + 1) * Milli
    BY <1>1, <1>3, <1>5, <2>1, ProductGrows
  <2>3. (i * m + 1) * Milli = (i * m) * Milli + Milli
    BY <1>1, <1>5
  <2>4. (i * m) * Milli \in Nat /\ d * Milli \in Nat
    BY <1>1, <1>3, <1>5
  <2>5. QED BY <1>1, <1>3, <1>5, <2>2, <2>3, <2>4
<1>7. QED BY <1>1, <1>3, <1>4, <1>5, <1>6 DEF d

LEMMA ScheduleIsSound ==
    ASSUME TimerAssumption, now \in Nat, NEW s, NEW i \in Intervals
    PROVE  /\ Schedule(s, i).scheduler = s /\ Schedule(s, i).interval = i
           /\ Schedule(s, i).at \in Nat /\ Schedule(s, i).due \in Nat
           /\ Schedule(s, i).at > now
           /\ Fits(i) => Schedule(s, i).due + Milli > Schedule(s, i).at
           /\ Schedule(s, i).at < now + Milli => Schedule(s, i).due = now + Milli
<1> DEFINE at == NextTick(now, i)
<1>1. at \in Nat /\ at > now /\ at <= now + i * Second /\ i * Second \in Nat
  BY TickIsAhead DEF TimerAssumption
<1>2. Schedule(s, i) = [scheduler |-> s, interval |-> i, at |-> at, due |-> now + Delay(at - now)]
  BY DEF Schedule, Timeout
<1> HIDE DEF at
<1>3. at - now \in Nat \ {0} /\ at - now \in Nat /\ at - now <= i * Second
  BY <1>1
<1>4. /\ Delay(at - now) \in Nat
      /\ at - now < Milli => Delay(at - now) = Milli
      /\ Fits(i) => Delay(at - now) + Milli > at - now
  <2>1. Fits(i) => (at - now) \div Milli < DelayRange
    BY <1>3, WaitFits
  <2>2. QED BY <1>3, <2>1, DelayIsClose
<1>5. Milli \in Nat
  BY DEF TimerAssumption
<1>6. QED BY <1>1, <1>2, <1>4, <1>5

-----------------------------------------------------------------------------
(* The queue.                                                              *)

LEMMA EndsOfTail ==
    ASSUME NEW S, NEW q \in Seq(S), q # <<>>, \A j, k \in EndsIn(q) : j = k
    PROVE  /\ Tail(q) \in Seq(S) /\ Len(Tail(q)) = Len(q) - 1 /\ Len(q) \in Nat \ {0}
           /\ \A j, k \in EndsIn(Tail(q)) : j = k
           /\ Head(q).op = "set" => (EndsIn(Tail(q)) = {} <=> EndsIn(q) = {})
           /\ Head(q).op # "set" => EndsIn(Tail(q)) = {} /\ EndsIn(q) # {}
<1>1. /\ Tail(q) \in Seq(S) /\ Len(Tail(q)) = Len(q) - 1 /\ Len(q) \in Nat \ {0} /\ Head(q) = q[1]
      /\ DOMAIN q = 1..Len(q) /\ DOMAIN Tail(q) = 1..(Len(q) - 1)
      /\ \A k \in 1..(Len(q) - 1) : Tail(q)[k] = q[k + 1]
  BY HeadTailProperties, LenProperties, EmptySeq
<1>2. \A k : k \in EndsIn(Tail(q)) => k \in 1..(Len(q) - 1) /\ k + 1 \in EndsIn(q)
  BY <1>1 DEF EndsIn
<1>3. \A j, k \in EndsIn(Tail(q)) : j = k
  <2>1. SUFFICES ASSUME NEW j \in EndsIn(Tail(q)), NEW k \in EndsIn(Tail(q)) PROVE j = k
    OBVIOUS
  <2>2. j + 1 = k + 1 /\ j \in Nat /\ k \in Nat
    BY <1>1, <1>2
  <2>3. QED BY <2>2
<1>4. ASSUME Head(q).op = "set" PROVE EndsIn(Tail(q)) = {} <=> EndsIn(q) = {}
  <2>1. ASSUME NEW k \in EndsIn(q) PROVE EndsIn(Tail(q)) # {}
    <3>1. k \in 1..Len(q) /\ k # 1
      BY <1>1, <1>4 DEF EndsIn
    <3>2. k - 1 \in 1..(Len(q) - 1) /\ (k - 1) + 1 = k
      BY <1>1, <3>1
    <3>3. k - 1 \in EndsIn(Tail(q))
      BY <1>1, <3>2 DEF EndsIn
    <3>4. QED BY <3>3
  <2>2. QED BY <1>2, <2>1
<1>5. ASSUME Head(q).op # "set" PROVE EndsIn(Tail(q)) = {} /\ EndsIn(q) # {}
  <2>1. 1 \in EndsIn(q)
    BY <1>1, <1>5 DEF EndsIn
  <2>2. ASSUME NEW k \in EndsIn(Tail(q)) PROVE FALSE
    <3>1. k + 1 = 1 /\ k \in 1..(Len(q) - 1)
      BY <1>2, <2>1
    <3>2. QED BY <1>1, <3>1
  <2>3. QED BY <2>1, <2>2
<1>6. QED BY <1>1, <1>3, <1>4, <1>5

LEMMA EndsOfAppend ==
    ASSUME NEW S, NEW q \in Seq(S), NEW t \in S
    PROVE  /\ Append(q, t) \in Seq(S) /\ Len(Append(q, t)) = Len(q) + 1 /\ Len(q) \in Nat
           /\ EndsIn(Append(q, t)) = EndsIn(q) \cup (IF t.op # "set" THEN {Len(q) + 1} ELSE {})
<1>1. /\ Append(q, t) \in Seq(S) /\ Len(Append(q, t)) = Len(q) + 1 /\ Len(q) \in Nat
      /\ DOMAIN q = 1..Len(q) /\ DOMAIN Append(q, t) = 1..(Len(q) + 1)
      /\ \A k \in 1..Len(q) : Append(q, t)[k] = q[k]
      /\ Append(q, t)[Len(q) + 1] = t
  BY AppendProperties, LenProperties
<1>2. \A k : k \in 1..(Len(q) + 1) <=> k \in 1..Len(q) \/ k = Len(q) + 1
  BY <1>1
<1>3. QED BY <1>1, <1>2 DEF EndsIn

-----------------------------------------------------------------------------
(* The actions.                                                            *)

LEMMA TimerInitIInv == TimerAssumption /\ TimerInit => TimerIInv
<1> SUFFICES ASSUME TimerAssumption, TimerInit PROVE TimerIInv
  OBVIOUS
<1>1. /\ MaxTime \in Nat /\ MaxChanges \in Nat /\ Second \in Nat /\ Second - 1 <= MaxTime
      /\ Intervals \subseteq Nat \ {0}
  BY DEF TimerAssumption
<1>2. TimerTypeOK
  <2>1. now \in 0..MaxTime /\ changes \in 0..MaxChanges /\ made \in 0..MaxChanges
    BY <1>1 DEF TimerInit
  <2>2. interval \in [Channels -> Intervals \cup {Unset}] /\ schedulers \in [Intervals -> 0..made]
    BY DEF TimerInit, NoScheduler
  <2>3. last \in [Schedulers -> [at : Nat, times : Nat]]
    BY DEF TimerInit
  <2>4. tasks \in Seq([op : {"set", "fail", "stop"}, channel : Channels, seconds : Intervals \cup {Invalid}])
    BY EmptySeq DEF TimerInit
  <2>5. timeouts = {} /\ stopped \in BOOLEAN /\ told \in {"ticking", "completed", "failed"}
    BY DEF TimerInit
  <2>6. QED BY <2>1, <2>2, <2>3, <2>4, <2>5 DEF TimerTypeOK
<1>3. ChannelsServed
  BY DEF TimerInit, ChannelsServed, Current
<1>4. SchedulersInUse
  BY DEF TimerInit, SchedulersInUse
<1>5. ChangesCounted
  <2>1. Len(tasks) = 0 /\ EndsIn(tasks) = {}
    BY DEF TimerInit, EndsIn
  <2>2. QED BY <2>1, FS_EmptySet DEF TimerInit, ChangesCounted
<1>6. AnnouncedTwiceAtMost /\ RepeatsOnce
  BY DEF TimerInit, AnnouncedTwiceAtMost, BarelyEarly, RepeatsOnce, Fits
<1>7. QED BY <1>2, <1>3, <1>4, <1>5, <1>6 DEF TimerIInv, ChannelsAccounted

(* Whatever leaves the Schedulers and their timeouts alone.                  *)
LEMMA StateKept ==
    ASSUME TimerIInv, UNCHANGED <<state, last>>, TimerTypeOK', ChangesCounted'
    PROVE  TimerIInv'
<1>1. UNCHANGED <<interval, schedulers, made, timeouts, stopped, told, last>>
  BY DEF state
<1>2. ChannelsServed' /\ SchedulersInUse'
  <2>1. ChannelsServed'
    BY <1>1 DEF TimerIInv, ChannelsAccounted, ChannelsServed, Current
  <2>2. SchedulersInUse'
    BY <1>1 DEF TimerIInv, ChannelsAccounted, SchedulersInUse, Uses
  <2>3. QED BY <2>1, <2>2
<1>3. AnnouncedTwiceAtMost' /\ RepeatsOnce'
  BY <1>1 DEF TimerIInv, AnnouncedTwiceAtMost, BarelyEarly, RepeatsOnce, Fits
<1>4. QED BY <1>2, <1>3 DEF TimerIInv, ChannelsAccounted

LEMMA PassesIInv == TimerAssumption /\ TimerIInv /\ Passes => TimerIInv'
<1> SUFFICES ASSUME TimerAssumption, TimerIInv, Passes PROVE TimerIInv'
  OBVIOUS
<1>1. UNCHANGED <<tasks, changes, interval, schedulers, made, timeouts, stopped, told, last>>
  BY DEF Passes, state
<1>2. now' \in 0..MaxTime
  BY DEF Passes, TimerAssumption, TimerIInv, ChannelsAccounted, TimerTypeOK
<1>3. TimerTypeOK'
  BY <1>1, <1>2 DEF TimerIInv, ChannelsAccounted, TimerTypeOK
<1>4. ChangesCounted'
  BY <1>1 DEF TimerIInv, ChangesCounted, EndsIn
<1>5. QED BY <1>3, <1>4, StateKept DEF Passes

TimerQueue == [op : {"set", "fail", "stop"}, channel : Channels, seconds : Intervals \cup {Invalid}]

LEMMA SetIntervalIInv ==
    ASSUME TimerAssumption, NEW c \in Channels, NEW i \in Intervals \cup {Invalid},
           TimerIInv, SetInterval(c, i)
    PROVE  TimerIInv'
<1> DEFINE t == Task("set", c, i)
<1>1. t \in TimerQueue /\ t.op = "set"
  BY DEF Task, TimerQueue
<1>2. tasks' = Append(tasks, t) /\ tasks \in Seq(TimerQueue) /\ changes' = changes + 1 /\ changes < MaxChanges
      /\ UNCHANGED <<now, state, last>>
  BY DEF SetInterval, TimerIInv, ChannelsAccounted, TimerTypeOK, TimerQueue
<1> HIDE DEF t
<1>3. /\ tasks' \in Seq(TimerQueue) /\ Len(tasks') = Len(tasks) + 1 /\ Len(tasks) \in Nat
      /\ EndsIn(tasks') = EndsIn(tasks)
  <2>1. (IF t.op # "set" THEN {Len(tasks) + 1} ELSE {}) = {}
    BY <1>1
  <2>2. /\ Append(tasks, t) \in Seq(TimerQueue) /\ Len(Append(tasks, t)) = Len(tasks) + 1 /\ Len(tasks) \in Nat
        /\ EndsIn(Append(tasks, t)) = EndsIn(tasks) \cup (IF t.op # "set" THEN {Len(tasks) + 1} ELSE {})
    BY <1>1, <1>2, EndsOfAppend
  <2>3. QED BY <1>2, <2>1, <2>2
<1>4. changes \in Nat /\ changes' \in 0..MaxChanges /\ made \in Nat
  BY <1>2 DEF TimerAssumption, TimerIInv, ChannelsAccounted, TimerTypeOK
<1>5. UNCHANGED <<interval, schedulers, made, timeouts, stopped, told>>
  BY <1>2 DEF state
<1>6. TimerTypeOK'
  BY <1>2, <1>3, <1>4, <1>5 DEF TimerIInv, ChannelsAccounted, TimerTypeOK, TimerQueue
<1>7. ChangesCounted'
  BY <1>2, <1>3, <1>4, <1>5 DEF TimerIInv, ChangesCounted
<1>8. QED BY <1>2, <1>6, <1>7, StateKept

LEMMA PostEndIInv ==
    ASSUME TimerAssumption, NEW op \in {"fail", "stop"}, TimerIInv, PostEnd(op)
    PROVE  TimerIInv'
<1> DEFINE t == Task(op, "discovery", Invalid)
<1>1. t \in TimerQueue /\ t.op # "set"
  BY DEF Task, TimerQueue, Channels
<1>2. tasks' = Append(tasks, t) /\ tasks \in Seq(TimerQueue) /\ EndsIn(tasks) = {}
      /\ UNCHANGED <<now, changes, state, last>>
  BY DEF PostEnd, TimerIInv, ChannelsAccounted, TimerTypeOK, TimerQueue, EndsIn
<1> HIDE DEF t
<1>3. /\ tasks' \in Seq(TimerQueue) /\ Len(tasks') = Len(tasks) + 1 /\ Len(tasks) \in Nat
      /\ EndsIn(tasks') = {Len(tasks) + 1}
  BY <1>1, <1>2, EndsOfAppend
<1>4. changes \in Nat /\ made \in Nat
  BY <1>2 DEF TimerAssumption, TimerIInv, ChannelsAccounted, TimerTypeOK
<1>5. UNCHANGED <<interval, schedulers, made, timeouts, stopped, told>>
  BY <1>2 DEF state
<1>6. TimerTypeOK'
  BY <1>2, <1>3, <1>4, <1>5 DEF TimerIInv, ChannelsAccounted, TimerTypeOK, TimerQueue
<1>7. ChangesCounted'
  <2>1. made + Len(tasks) <= changes
    BY <1>2, <1>3, <1>4 DEF TimerIInv, ChangesCounted
  <2>2. QED BY <1>2, <1>3, <1>4, <1>5, <2>1 DEF TimerIInv, ChangesCounted
<1>8. QED BY <1>2, <1>6, <1>7, StateKept

(* The flows end: no Scheduler is left, so nothing has to be served.         *)
LEMMA EndFlowsKeeps ==
    ASSUME TimerIInv, NEW how \in {"completed", "failed"}, EndFlows(how), UNCHANGED last
    PROVE  /\ interval' = interval /\ made' = made /\ timeouts' = timeouts
           /\ schedulers' \in [Intervals -> 0..made] /\ stopped' \in BOOLEAN
           /\ told' \in {"ticking", "completed", "failed"}
           /\ ChannelsServed' /\ SchedulersInUse' /\ AnnouncedTwiceAtMost' /\ RepeatsOnce'
<1>1. CASE stopped
  <2>1. UNCHANGED <<interval, schedulers, made, timeouts, stopped, told, last>>
    BY <1>1 DEF EndFlows, state
  <2>2. ChannelsServed' /\ SchedulersInUse'
    BY <2>1 DEF TimerIInv, ChannelsAccounted, ChannelsServed, SchedulersInUse, Current, Uses
  <2>3. AnnouncedTwiceAtMost' /\ RepeatsOnce'
    BY <2>1 DEF TimerIInv, AnnouncedTwiceAtMost, BarelyEarly, RepeatsOnce, Fits
  <2>4. QED BY <2>1, <2>2, <2>3 DEF TimerIInv, ChannelsAccounted, TimerTypeOK
<1>2. CASE ~stopped
  <2>1. stopped' = TRUE /\ told' = how /\ schedulers' = [i \in Intervals |-> NoScheduler]
        /\ UNCHANGED <<interval, made, timeouts, last>>
    BY <1>2 DEF EndFlows
  <2>2. ChannelsServed'
    BY <2>1 DEF ChannelsServed
  <2>3. SchedulersInUse'
    <3>1. \A t \in timeouts : t.scheduler # NoScheduler
      BY DEF TimerIInv, ChannelsAccounted, TimerTypeOK, NoScheduler
    <3>2. QED BY <2>1, <3>1 DEF SchedulersInUse
  <2>4. AnnouncedTwiceAtMost' /\ RepeatsOnce'
    BY <2>1 DEF TimerIInv, AnnouncedTwiceAtMost, BarelyEarly, RepeatsOnce, Fits
  <2>5. schedulers' \in [Intervals -> 0..made] /\ made \in Nat
    BY <2>1 DEF TimerIInv, ChannelsAccounted, TimerTypeOK, NoScheduler
  <2>6. QED BY <2>1, <2>2, <2>3, <2>4, <2>5
<1>3. QED BY <1>1, <1>2

(* A channel gets its interval: it joins the Scheduler that is there, or a    *)
(* new one with one timeout; the other channel keeps its own.               *)
LEMMA ConfigureKeeps ==
    ASSUME TimerAssumption, TimerIInv, NEW c \in Channels, NEW i \in Intervals, ~stopped,
           made < MaxChanges, Configure(c, i), UNCHANGED <<now, last>>
    PROVE  /\ made' \in {made, made + 1} /\ stopped' = stopped /\ told' = told /\ IsFiniteSet(timeouts')
           /\ interval' \in [Channels -> Intervals \cup {Unset}] /\ schedulers' \in [Intervals -> 0..made']
           /\ \A t \in timeouts' : /\ t.scheduler \in 1..made' /\ t.interval \in Intervals
                                   /\ t.at \in Nat /\ t.due \in Nat
           /\ ChannelsServed' /\ SchedulersInUse' /\ AnnouncedTwiceAtMost' /\ RepeatsOnce'
<1> DEFINE configured == [interval EXCEPT ![c] = i]
           kept == [j \in Intervals |-> IF j = interval[c] /\ ~Uses(configured, j)
                                        THEN NoScheduler ELSE schedulers[j]]
<1>1. /\ interval \in [Channels -> Intervals \cup {Unset}] /\ schedulers \in [Intervals -> 0..made]
      /\ made \in Nat /\ MaxChanges \in Nat /\ now \in Nat /\ Intervals \subseteq Nat \ {0}
      /\ \A t \in timeouts : /\ t.scheduler \in 1..made /\ t.interval \in Intervals
                             /\ t.at \in Nat /\ t.due \in Nat
      /\ IsFiniteSet(timeouts) /\ last \in [Schedulers -> [at : Nat, times : Nat]]
  BY DEF TimerAssumption, TimerIInv, ChannelsAccounted, TimerTypeOK, ChangesCounted
<1>2. interval' = configured /\ stopped' = stopped /\ told' = told
      /\ \/ /\ kept[i] # NoScheduler
            /\ schedulers' = kept /\ made' = made /\ timeouts' = timeouts
         \/ /\ kept[i] = NoScheduler
            /\ made' = made + 1
            /\ schedulers' = [kept EXCEPT ![i] = made']
            /\ timeouts' = timeouts \cup {Schedule(made', i)}
  BY DEF Configure
<1>3. configured \in [Channels -> Intervals \cup {Unset}] /\ configured[c] = i
      /\ \A d \in Channels \ {c} : configured[d] = interval[d]
  BY <1>1
<1>4. \A j \in Intervals : kept[j] \in {schedulers[j], NoScheduler}
  OBVIOUS
<1>5. kept \in [Intervals -> 0..made]
  BY <1>1 DEF NoScheduler
(* What is kept is in use, and what is in use and was there is kept.          *)
<1>6. \A j \in Intervals : kept[j] # NoScheduler => Uses(configured, j)
  <2>1. SUFFICES ASSUME NEW j \in Intervals, kept[j] # NoScheduler PROVE Uses(configured, j)
    OBVIOUS
  <2>2. CASE j = interval[c]
    BY <2>1, <2>2
  <2>3. CASE j # interval[c]
    <3>1. schedulers[j] # NoScheduler
      BY <2>1, <2>3
    <3>2. PICK d \in Channels : interval[d] = j
      BY <3>1 DEF TimerIInv, ChannelsAccounted, SchedulersInUse, Uses
    <3>3. configured[d] = j
      BY <1>3, <2>3, <3>2
    <3>4. QED BY <3>3 DEF Uses
  <2>4. QED BY <2>2, <2>3
<1>7. \A d \in Channels \ {c} : interval[d] # Unset => kept[interval[d]] = schedulers[interval[d]]
                                                    /\ kept[interval[d]] # NoScheduler
  <2>1. SUFFICES ASSUME NEW d \in Channels \ {c}, interval[d] # Unset
                 PROVE  kept[interval[d]] = schedulers[interval[d]] /\ kept[interval[d]] # NoScheduler
    OBVIOUS
  <2>2. interval[d] \in Intervals /\ Uses(configured, interval[d])
    BY <1>1, <1>3, <2>1 DEF Uses
  <2>3. schedulers[interval[d]] # NoScheduler
    BY <2>1 DEF TimerIInv, ChannelsAccounted, ChannelsServed
  <2>4. QED BY <2>2, <2>3
<1>8. \A j, k \in Intervals : kept[j] = kept[k] /\ kept[j] # NoScheduler => j = k
  BY <1>4 DEF TimerIInv, ChannelsAccounted, SchedulersInUse
<1>9. \A j \in Intervals : \A t \in timeouts : t.scheduler = kept[j] => t.interval = j
  <2>1. \A t \in timeouts : t.scheduler # NoScheduler
    BY <1>1 DEF NoScheduler
  <2>2. QED BY <1>4, <2>1 DEF TimerIInv, ChannelsAccounted, SchedulersInUse
<1>10. \A j \in Intervals : kept[j] # NoScheduler =>
           /\ kept[j] = schedulers[j] /\ kept[j] \in Current
           /\ Cardinality({t \in timeouts : t.scheduler = kept[j]}) = 1
  <2>1. SUFFICES ASSUME NEW j \in Intervals, kept[j] # NoScheduler
                 PROVE  /\ kept[j] = schedulers[j] /\ kept[j] \in Current
                        /\ Cardinality({t \in timeouts : t.scheduler = kept[j]}) = 1
    OBVIOUS
  <2> HIDE DEF kept
  <2>2. kept[j] = schedulers[j]
    BY <1>4, <2>1
  <2>3. kept[j] \in Current
    BY <2>1, <2>2 DEF Current
  <2>4. QED BY <2>2, <2>3 DEF TimerIInv, ChannelsAccounted, ChannelsServed
<1>11. i # Unset
  BY <1>1 DEF Unset
<1> HIDE DEF configured, kept
<1>12. CASE /\ kept[i] # NoScheduler
            /\ schedulers' = kept /\ made' = made /\ timeouts' = timeouts
  <2>1. ChannelsServed'
    <3>1. \A d \in Channels : interval'[d] # Unset => schedulers'[interval'[d]] # NoScheduler
      BY <1>2, <1>3, <1>7, <1>12
    <3>2. \A s \in Current' : Cardinality({t \in timeouts' : t.scheduler = s}) = 1
      BY <1>10, <1>12 DEF Current
    <3>3. QED BY <3>1, <3>2 DEF ChannelsServed
  <2>2. SchedulersInUse'
    BY <1>2, <1>6, <1>8, <1>9, <1>12 DEF SchedulersInUse, Uses
  <2>3. AnnouncedTwiceAtMost' /\ RepeatsOnce'
    BY <1>12 DEF TimerIInv, AnnouncedTwiceAtMost, BarelyEarly, RepeatsOnce, Fits
  <2>4. QED BY <1>1, <1>2, <1>3, <1>5, <1>12, <2>1, <2>2, <2>3
<1>13. CASE /\ kept[i] = NoScheduler
            /\ made' = made + 1
            /\ schedulers' = [kept EXCEPT ![i] = made']
            /\ timeouts' = timeouts \cup {Schedule(made', i)}
  <2> DEFINE new == Schedule(made', i)
  <2>1. /\ new.scheduler = made' /\ new.interval = i /\ new.at \in Nat /\ new.due \in Nat
        /\ new.at > now /\ (Fits(i) => new.due + Milli > new.at)
    BY <1>1, ScheduleIsSound
  <2> HIDE DEF new
  <2>2. /\ timeouts' = timeouts \cup {new} /\ made' = made + 1 /\ made' \in Nat /\ made' \in 1..MaxChanges
        /\ schedulers'[i] = made' /\ \A j \in Intervals \ {i} : schedulers'[j] = kept[j]
        /\ schedulers' \in [Intervals -> 0..made']
    BY <1>1, <1>5, <1>13 DEF new
  <2>3. \A j \in Intervals : kept[j] # made'
    BY <1>1, <1>5, <2>2
  <2>4. \A t \in timeouts' : /\ t.scheduler \in 1..made' /\ t.interval \in Intervals
                             /\ t.at \in Nat /\ t.due \in Nat
    BY <1>1, <2>1, <2>2
  <2>5. IsFiniteSet(timeouts')
    BY <1>1, <2>2, FS_AddElement
  <2>6. ChannelsServed'
    <3>1. \A d \in Channels : interval'[d] # Unset => schedulers'[interval'[d]] # NoScheduler
      <4>1. made' # NoScheduler
        BY <1>1, <2>2 DEF NoScheduler
      <4>2. ASSUME NEW d \in Channels \ {c}, interval[d] # Unset
            PROVE  schedulers'[interval[d]] # NoScheduler
        <5>1. interval[d] \in Intervals
          BY <1>1, <4>2
        <5>2. QED BY <1>7, <2>2, <4>1, <4>2, <5>1
      <4>3. QED BY <1>2, <1>3, <2>2, <4>1, <4>2
    <3>2. ASSUME NEW s \in Current' PROVE Cardinality({t \in timeouts' : t.scheduler = s}) = 1
      <4>1. PICK j \in Intervals : s = schedulers'[j] /\ s # NoScheduler
        BY <3>2 DEF Current
      <4>2. CASE j = i
        <5>1. s = made' /\ \A t \in timeouts : t.scheduler # made'
          BY <1>1, <2>2, <4>1, <4>2
        <5>2. {t \in timeouts' : t.scheduler = s} = {new}
          BY <2>1, <2>2, <5>1
        <5>3. QED BY <5>2, FS_Singleton
      <4>3. CASE j # i
        <5>1. s = kept[j] /\ s # made'
          BY <2>2, <2>3, <4>1, <4>3
        <5>2. {t \in timeouts' : t.scheduler = s} = {t \in timeouts : t.scheduler = s}
          BY <2>1, <2>2, <5>1
        <5>3. QED BY <1>10, <4>1, <5>1, <5>2
      <4>4. QED BY <4>2, <4>3
    <3>3. QED BY <3>1, <3>2 DEF ChannelsServed
  <2>7. SchedulersInUse'
    <3>1. \A j \in Intervals : schedulers'[j] # NoScheduler => Uses(interval', j)
      BY <1>2, <1>3, <1>6, <2>2 DEF Uses
    <3>2. \A j, k \in Intervals : schedulers'[j] = schedulers'[k] /\ schedulers'[j] # NoScheduler => j = k
      BY <1>8, <2>2, <2>3
    <3>3. \A j \in Intervals : \A t \in timeouts' : t.scheduler = schedulers'[j] => t.interval = j
      <4>1. \A t \in timeouts : t.scheduler # made'
        BY <1>1, <2>2
      <4>2. QED BY <1>9, <2>1, <2>2, <2>3, <4>1
    <3>4. QED BY <3>1, <3>2, <3>3 DEF SchedulersInUse
  <2>8. AnnouncedTwiceAtMost'
    <3>1. last' = last
      OBVIOUS
    <3>2. last[made'].times = 0
      <4>1. made' \in Schedulers /\ made' > made
        BY <1>1, <2>2 DEF Schedulers
      <4>2. QED BY <4>1 DEF TimerIInv, RepeatsOnce
    <3>3. BarelyEarly'
      BY <2>1, <2>2 DEF TimerIInv, AnnouncedTwiceAtMost, BarelyEarly, Fits
    <3>4. \A t \in timeouts' : Fits(t.interval) => last'[t.scheduler].times <= 2
      BY <2>1, <2>2, <3>1, <3>2 DEF TimerIInv, AnnouncedTwiceAtMost
    <3>5. QED BY <3>3, <3>4 DEF AnnouncedTwiceAtMost, Fits
  <2>9. RepeatsOnce'
    <3>1. made' \in Schedulers /\ made' > made
      BY <1>1, <2>2 DEF Schedulers
    <3>2. last[made'].at = 0 /\ last[made'].times = 0
      BY <3>1 DEF TimerIInv, RepeatsOnce
    <3>3. new.at > 0 /\ new.at # last[new.scheduler].at
      BY <1>1, <2>1, <3>2
    <3>4. \A s \in Schedulers : s > made' => s > made
      BY <1>1, <2>2 DEF Schedulers
    <3>5. QED BY <2>2, <3>3, <3>4 DEF TimerIInv, RepeatsOnce, Fits
  <2>10. QED BY <1>1, <1>2, <1>3, <2>2, <2>4, <2>5, <2>6, <2>7, <2>8, <2>9
<1>14. QED BY <1>2, <1>12, <1>13

LEMMA SetIntervalInLoopIInv == TimerAssumption /\ TimerIInv /\ SetIntervalInLoop => TimerIInv'
<1> SUFFICES ASSUME TimerAssumption, TimerIInv, SetIntervalInLoop PROVE TimerIInv'
  OBVIOUS
<1>1. /\ tasks \in Seq(TimerQueue) /\ tasks # <<>> /\ Head(tasks).op = "set" /\ tasks' = Tail(tasks)
      /\ \A j, k \in EndsIn(tasks) : j = k
      /\ UNCHANGED <<now, changes, last>>
  BY DEF SetIntervalInLoop, TimerIInv, ChannelsAccounted, TimerTypeOK, TimerQueue, ChangesCounted
<1>2. /\ tasks' \in Seq(TimerQueue) /\ Len(tasks') = Len(tasks) - 1 /\ Len(tasks) \in Nat \ {0}
      /\ \A j, k \in EndsIn(tasks') : j = k
      /\ EndsIn(tasks') = {} <=> EndsIn(tasks) = {}
  BY <1>1, EndsOfTail
<1>3. Head(tasks) \in TimerQueue
  BY <1>1, HeadTailProperties
<1>4. Head(tasks).channel \in Channels /\ Head(tasks).seconds \in Intervals \cup {Invalid}
  BY <1>3 DEF TimerQueue
<1>5. made \in Nat /\ changes \in 0..MaxChanges /\ MaxChanges \in Nat /\ made + Len(tasks) <= changes + 1
      /\ (EndsIn(tasks) = {} => made + Len(tasks) <= changes) /\ IsFiniteSet(timeouts)
      /\ made + Len(tasks) <= changes + (IF EndsIn(tasks) = {} THEN 0 ELSE 1)
  BY DEF TimerAssumption, TimerIInv, ChannelsAccounted, TimerTypeOK, ChangesCounted
<1>6. made < MaxChanges
  <2>1. CASE EndsIn(tasks) = {}
    BY <1>2, <1>5, <2>1
  <2>2. CASE EndsIn(tasks) # {}
    <3>1. PICK k \in EndsIn(tasks) : TRUE
      BY <2>2
    <3>2. k \in 1..Len(tasks) /\ k # 1
      BY <1>1, <1>2, HeadTailProperties, LenProperties DEF EndsIn
    <3>3. QED BY <1>2, <1>5, <3>2
  <2>3. QED BY <2>1, <2>2
<1>7. ASSUME made' = made \/ made' = made + 1, IsFiniteSet(timeouts')
      PROVE  ChangesCounted'
  <2>1. made' + Len(tasks') <= changes + (IF EndsIn(tasks') = {} THEN 0 ELSE 1)
    BY <1>2, <1>5, <1>7
  <2>2. QED BY <1>1, <1>2, <1>7, <2>1 DEF ChangesCounted
<1>8. CASE EndFlows("failed")
  <2>1. /\ interval' = interval /\ made' = made /\ timeouts' = timeouts
        /\ schedulers' \in [Intervals -> 0..made] /\ stopped' \in BOOLEAN
        /\ told' \in {"ticking", "completed", "failed"}
        /\ ChannelsServed' /\ SchedulersInUse' /\ AnnouncedTwiceAtMost' /\ RepeatsOnce'
    BY <1>1, <1>8, EndFlowsKeeps
  <2>2. TimerTypeOK'
    BY <1>1, <1>2, <2>1 DEF TimerIInv, ChannelsAccounted, TimerTypeOK, TimerQueue
  <2>3. QED BY <1>5, <1>7, <2>1, <2>2 DEF TimerIInv, ChannelsAccounted
<1>9. CASE UNCHANGED state
  <2>1. UNCHANGED <<interval, schedulers, made, timeouts, stopped, told>>
    BY <1>9 DEF state
  <2>2. TimerTypeOK'
    BY <1>1, <1>2, <2>1 DEF TimerIInv, ChannelsAccounted, TimerTypeOK, TimerQueue
  <2>3. QED BY <1>1, <1>5, <1>7, <1>9, <2>1, <2>2, StateKept
<1>10. CASE ~stopped /\ Head(tasks).seconds # Invalid /\ Configure(Head(tasks).channel, Head(tasks).seconds)
  <2>1. Head(tasks).seconds \in Intervals
    BY <1>4, <1>10
  <2>2. /\ made' \in {made, made + 1} /\ stopped' = stopped /\ told' = told /\ IsFiniteSet(timeouts')
        /\ interval' \in [Channels -> Intervals \cup {Unset}] /\ schedulers' \in [Intervals -> 0..made']
        /\ \A t \in timeouts' : /\ t.scheduler \in 1..made' /\ t.interval \in Intervals
                                /\ t.at \in Nat /\ t.due \in Nat
        /\ ChannelsServed' /\ SchedulersInUse' /\ AnnouncedTwiceAtMost' /\ RepeatsOnce'
    BY <1>1, <1>4, <1>6, <1>10, <2>1, ConfigureKeeps
  <2>3. made' \in 0..MaxChanges
    BY <1>5, <1>6, <2>2
  <2>4. TimerTypeOK'
    BY <1>1, <1>2, <2>2, <2>3 DEF TimerIInv, ChannelsAccounted, TimerTypeOK, TimerQueue
  <2>5. QED BY <1>7, <2>2, <2>4 DEF TimerIInv, ChannelsAccounted
<1>11. QED BY <1>8, <1>9, <1>10 DEF SetIntervalInLoop

LEMMA EndInLoopIInv == TimerAssumption /\ TimerIInv /\ EndInLoop => TimerIInv'
<1> SUFFICES ASSUME TimerAssumption, TimerIInv, EndInLoop PROVE TimerIInv'
  OBVIOUS
<1> DEFINE how == IF Head(tasks).op = "stop" THEN "completed" ELSE "failed"
<1>1. /\ tasks \in Seq(TimerQueue) /\ tasks # <<>> /\ Head(tasks).op # "set" /\ tasks' = Tail(tasks)
      /\ \A j, k \in EndsIn(tasks) : j = k
      /\ EndFlows(how) /\ how \in {"completed", "failed"}
      /\ UNCHANGED <<now, changes, last>>
  BY DEF EndInLoop, TimerIInv, ChannelsAccounted, TimerTypeOK, TimerQueue, ChangesCounted
<1> HIDE DEF how
<1>2. /\ tasks' \in Seq(TimerQueue) /\ Len(tasks') = Len(tasks) - 1 /\ Len(tasks) \in Nat \ {0}
      /\ EndsIn(tasks') = {} /\ EndsIn(tasks) # {}
  BY <1>1, EndsOfTail
<1>3. /\ interval' = interval /\ made' = made /\ timeouts' = timeouts
      /\ schedulers' \in [Intervals -> 0..made] /\ stopped' \in BOOLEAN
      /\ told' \in {"ticking", "completed", "failed"}
      /\ ChannelsServed' /\ SchedulersInUse' /\ AnnouncedTwiceAtMost' /\ RepeatsOnce'
  BY <1>1, EndFlowsKeeps
<1>4. TimerTypeOK'
  BY <1>1, <1>2, <1>3 DEF TimerIInv, ChannelsAccounted, TimerTypeOK, TimerQueue
<1>5. ChangesCounted'
  <2>1. made \in Nat /\ changes \in Nat /\ made + Len(tasks) <= changes + 1 /\ IsFiniteSet(timeouts)
    BY <1>2 DEF TimerAssumption, TimerIInv, ChannelsAccounted, TimerTypeOK, ChangesCounted
  <2>2. made' + Len(tasks') <= changes'
    BY <1>1, <1>2, <1>3, <2>1
  <2>3. changes' \in Nat /\ changes' + 0 = changes'
    BY <1>1, <2>1
  <2>4. QED BY <1>2, <1>3, <2>1, <2>2, <2>3 DEF ChangesCounted
<1>6. QED BY <1>3, <1>4, <1>5 DEF TimerIInv, ChannelsAccounted

(* A tick that is announced early is announced again, but the second          *)
(* timeout is due after the boundary.                                      *)
LEMMA FireIInv == ASSUME TimerAssumption, TimerIInv, NEW t \in timeouts, Fire(t) PROVE TimerIInv'
<1> DEFINE s == t.scheduler
           new == Schedule(s, t.interval)
<1>1. /\ now \in Nat /\ now >= t.due /\ t.at \in Nat /\ t.due \in Nat
      /\ s \in 1..made /\ t.interval \in Intervals
      /\ made \in 0..MaxChanges /\ MaxChanges \in Nat /\ IsFiniteSet(timeouts) /\ Milli \in Nat
      /\ last \in [Schedulers -> [at : Nat, times : Nat]]
      /\ (Fits(t.interval) => t.due + Milli > t.at) /\ t.at > 0
      /\ UNCHANGED <<now, tasks, changes, interval, schedulers, made, stopped, told>>
  BY DEF TimerAssumption, TimerIInv, ChannelsAccounted, TimerTypeOK, ChangesCounted,
         AnnouncedTwiceAtMost, BarelyEarly, RepeatsOnce, Fire
<1>2. s \in Schedulers
  BY <1>1 DEF Schedulers
<1>3. CASE ~IsCurrent(s, t.interval)
  <2>1. timeouts' = timeouts \ {t} /\ last' = last
    BY <1>3 DEF Fire
  <2>2. TimerTypeOK'
    BY <1>1, <2>1 DEF TimerIInv, ChannelsAccounted, TimerTypeOK
  <2>3. ChannelsServed'
    <3>1. ASSUME ~stopped, NEW r \in Current
          PROVE  {u \in timeouts' : u.scheduler = r} = {u \in timeouts : u.scheduler = r}
      <4>1. PICK j \in Intervals : r = schedulers[j]
        BY <3>1 DEF Current
      <4>2. s # r
        BY <1>1, <1>3, <3>1, <4>1 DEF TimerIInv, ChannelsAccounted, SchedulersInUse, IsCurrent
      <4>3. QED BY <2>1, <4>2
    <3>2. Current' = Current /\ stopped' = stopped /\ interval' = interval /\ schedulers' = schedulers
      BY <1>1 DEF Current
    <3>3. ASSUME ~stopped, NEW r \in Current PROVE Cardinality({u \in timeouts' : u.scheduler = r}) = 1
      BY <3>1, <3>3 DEF TimerIInv, ChannelsAccounted, ChannelsServed
    <3>4. QED BY <3>2, <3>3 DEF TimerIInv, ChannelsAccounted, ChannelsServed
  <2>4. SchedulersInUse'
    BY <1>1, <2>1 DEF TimerIInv, ChannelsAccounted, SchedulersInUse, Uses
  <2>5. AnnouncedTwiceAtMost' /\ RepeatsOnce'
    BY <1>1, <2>1 DEF TimerIInv, AnnouncedTwiceAtMost, BarelyEarly, RepeatsOnce, Fits
  <2>6. ChangesCounted'
    BY <1>1, <2>1, FS_RemoveElement DEF TimerIInv, ChangesCounted
  <2>7. QED BY <2>2, <2>3, <2>4, <2>5, <2>6 DEF TimerIInv, ChannelsAccounted
<1>4. CASE IsCurrent(s, t.interval)
  <2>1. /\ timeouts' = (timeouts \ {t}) \cup {new}
        /\ last' = [last EXCEPT ![s] = [at |-> t.at,
                                         times |-> IF last[s].at = t.at THEN last[s].times + 1 ELSE 1]]
    BY <1>4 DEF Fire
  <2>2. /\ new.scheduler = s /\ new.interval = t.interval /\ new.at \in Nat /\ new.due \in Nat /\ new.at > now
        /\ Fits(t.interval) => new.due + Milli > new.at
        /\ new.at < now + Milli => new.due = now + Milli
    <3> DEFINE i == t.interval
    <3>1. now \in Nat /\ i \in Intervals
      BY <1>1
    <3> HIDE DEF s, i
    <3>2. /\ Schedule(s, i).scheduler = s /\ Schedule(s, i).interval = i
          /\ Schedule(s, i).at \in Nat /\ Schedule(s, i).due \in Nat
          /\ Schedule(s, i).at > now
          /\ Fits(i) => Schedule(s, i).due + Milli > Schedule(s, i).at
          /\ Schedule(s, i).at < now + Milli => Schedule(s, i).due = now + Milli
      BY <3>1, ScheduleIsSound
    <3>3. QED BY <3>2 DEF i
  <2> HIDE DEF new, s
  <2>3. last[s].at \in Nat /\ last[s].times \in Nat
    BY <1>1, <1>2
  <2>4. /\ last'[s].at = t.at /\ last'[s].times = IF last[s].at = t.at THEN last[s].times + 1 ELSE 1
        /\ \A r \in Schedulers \ {s} : last'[r] = last[r]
        /\ last' \in [Schedulers -> [at : Nat, times : Nat]]
    BY <1>1, <1>2, <2>1, <2>3
  <2>5. ~stopped /\ schedulers[t.interval] = s /\ s # NoScheduler
    BY <1>1, <1>4 DEF IsCurrent, NoScheduler
  <2>6. \A u \in timeouts : u.scheduler = s => u = t
    <3>1. s \in Current
      BY <1>1, <2>5 DEF Current
    <3>2. Cardinality({u \in timeouts : u.scheduler = s}) = 1
      BY <2>5, <3>1 DEF TimerIInv, ChannelsAccounted, ChannelsServed
    <3>3. IsFiniteSet({u \in timeouts : u.scheduler = s})
      BY <1>1, FS_Subset
    <3>4. PICK x : {u \in timeouts : u.scheduler = s} = {x}
      BY <3>2, <3>3, FS_Singleton
    <3>5. QED BY <3>4 DEF s
  <2>7. TimerTypeOK'
    BY <1>1, <2>1, <2>2, <2>4 DEF TimerIInv, ChannelsAccounted, TimerTypeOK
  <2>8. ChannelsServed'
    <3>1. ASSUME NEW r \in Current PROVE Cardinality({u \in timeouts' : u.scheduler = r}) = 1
      <4>1. CASE r = s
        <5>1. {u \in timeouts' : u.scheduler = r} = {new}
          BY <2>1, <2>2, <2>6, <4>1
        <5>2. QED BY <5>1, FS_Singleton
      <4>2. CASE r # s
        <5>1. {u \in timeouts' : u.scheduler = r} = {u \in timeouts : u.scheduler = r}
          BY <2>1, <2>2, <4>2 DEF s
        <5>2. QED BY <2>5, <5>1 DEF TimerIInv, ChannelsAccounted, ChannelsServed
      <4>3. QED BY <4>1, <4>2
    <3>2. UNCHANGED <<interval, schedulers, stopped>> /\ Current' = Current
      BY <1>1 DEF Current
    <3>3. ~stopped => \A c \in Channels : interval[c] # Unset => schedulers[interval[c]] # NoScheduler
      BY DEF TimerIInv, ChannelsAccounted, ChannelsServed
    <3>4. QED BY <3>1, <3>2, <3>3 DEF ChannelsServed
  <2>9. SchedulersInUse'
    <3>1. \A j \in Intervals : new.scheduler = schedulers[j] => new.interval = j
      BY <1>1, <2>2 DEF TimerIInv, ChannelsAccounted, SchedulersInUse, s
    <3>2. QED BY <1>1, <2>1, <3>1 DEF TimerIInv, ChannelsAccounted, SchedulersInUse, Uses
  <2>10. Fits(t.interval) /\ last[s].at = t.at => last[s].times <= 1 /\ t.due > t.at
    BY DEF TimerIInv, RepeatsOnce, s
  <2>11. Fits(t.interval) => last'[s].times \in {1, 2}
    BY <2>3, <2>4, <2>10
  <2>12. AnnouncedTwiceAtMost'
    <3>1. BarelyEarly'
      BY <2>1, <2>2 DEF TimerIInv, AnnouncedTwiceAtMost, BarelyEarly, Fits
    <3>2. ASSUME NEW u \in timeouts', Fits(u.interval) PROVE last'[u.scheduler].times <= 2
      <4>1. CASE u = new
        BY <2>2, <2>11, <3>2, <4>1
      <4>2. CASE u # new
        <5>1. u \in timeouts /\ u.scheduler # s
          BY <2>1, <2>6, <3>2, <4>2
        <5>2. u.scheduler \in Schedulers
          BY <1>1, <5>1 DEF TimerIInv, ChannelsAccounted, TimerTypeOK, Schedulers
        <5>3. QED BY <2>4, <3>2, <5>1, <5>2 DEF TimerIInv, AnnouncedTwiceAtMost
      <4>3. QED BY <4>1, <4>2
    <3>3. QED BY <3>1, <3>2 DEF AnnouncedTwiceAtMost, Fits
  <2>13. Fits(t.interval) /\ new.at = t.at => last'[s].times = 1 /\ new.due > new.at
    BY <1>1, <2>2, <2>3, <2>4, <2>10
  <2>14. RepeatsOnce'
    <3>1. \A u \in timeouts' : u.at > 0
      BY <1>1, <2>1, <2>2 DEF TimerIInv, RepeatsOnce
    <3>2. \A u \in timeouts' : Fits(u.interval) /\ u.at = last'[u.scheduler].at =>
                                last'[u.scheduler].times <= 1 /\ u.due > u.at
      <4>1. SUFFICES ASSUME NEW u \in timeouts', Fits(u.interval), u.at = last'[u.scheduler].at
                     PROVE  last'[u.scheduler].times <= 1 /\ u.due > u.at
        OBVIOUS
      <4>2. CASE u = new
        BY <2>2, <2>4, <2>13, <4>1, <4>2
      <4>3. CASE u # new
        <5>1. u \in timeouts /\ u.scheduler # s
          BY <2>1, <2>6, <4>1, <4>3
        <5>2. u.scheduler \in Schedulers
          BY <1>1, <5>1 DEF TimerIInv, ChannelsAccounted, TimerTypeOK, Schedulers
        <5>3. QED BY <2>4, <4>1, <5>1, <5>2 DEF TimerIInv, RepeatsOnce
      <4>4. QED BY <4>2, <4>3
    <3>3. \A r \in Schedulers : r > made' => last'[r].at = 0 /\ last'[r].times = 0
      <4>1. s <= made /\ s \in Nat /\ made \in Nat
        BY <1>1 DEF s
      <4>2. \A r \in Schedulers : r > made => r # s
        BY <4>1 DEF Schedulers
      <4>3. QED BY <1>1, <2>4, <4>2 DEF TimerIInv, RepeatsOnce
    <3>4. QED BY <3>1, <3>2, <3>3 DEF RepeatsOnce, Fits
  <2>15. ChangesCounted'
    <3>1. IsFiniteSet(timeouts')
      BY <1>1, <2>1, FS_RemoveElement, FS_AddElement
    <3>2. QED BY <1>1, <3>1 DEF TimerIInv, ChangesCounted
  <2>16. QED BY <2>7, <2>8, <2>9, <2>12, <2>14, <2>15 DEF TimerIInv, ChannelsAccounted
<1>5. QED BY <1>3, <1>4

LEMMA TimerNextIInv == TimerAssumption /\ TimerIInv /\ [TimerNext]_timerVars => TimerIInv'
<1> SUFFICES ASSUME TimerAssumption, TimerIInv, [TimerNext]_timerVars PROVE TimerIInv'
  OBVIOUS
<1>1. CASE UNCHANGED timerVars
  <2>1. UNCHANGED <<now, tasks, changes, state, last>>
    BY <1>1 DEF timerVars
  <2>2. UNCHANGED <<interval, schedulers, made, timeouts, stopped, told>>
    BY <2>1 DEF state
  <2>3. TimerTypeOK' /\ ChangesCounted'
    BY <2>1, <2>2 DEF TimerIInv, ChannelsAccounted, TimerTypeOK, ChangesCounted, EndsIn
  <2>4. QED BY <2>1, <2>3, StateKept
<1>2. QED
  BY <1>1, PassesIInv, SetIntervalIInv, PostEndIInv, SetIntervalInLoopIInv, EndInLoopIInv, FireIInv
  DEF TimerNext, RunTask, FireAny

LEMMA StoppedStep == [TimerNext]_timerVars => (stopped => told' = told /\ last' = last)
<1> SUFFICES ASSUME [TimerNext]_timerVars, stopped PROVE told' = told /\ last' = last
  OBVIOUS
<1>1. CASE UNCHANGED timerVars
  BY <1>1 DEF timerVars, state
<1>2. CASE Passes \/ (\E c \in Channels, i \in Intervals \cup {Invalid} : SetInterval(c, i))
           \/ (\E op \in {"fail", "stop"} : PostEnd(op))
  BY <1>2 DEF Passes, SetInterval, PostEnd, state
<1>3. CASE RunTask
  BY <1>3 DEF RunTask, SetIntervalInLoop, EndInLoop, EndFlows, state
<1>4. CASE FireAny
  BY <1>4 DEF FireAny, Fire, IsCurrent
<1>5. QED BY <1>1, <1>2, <1>3, <1>4 DEF TimerNext

-----------------------------------------------------------------------------
(* What the timer has promised holds at every moment.                       *)
THEOREM TimerInvariance == TimerSpec => []TimerIInv
<1>1. TimerInit => TimerIInv
  BY TimerAssumption, TimerInitIInv
<1>2. TimerIInv /\ [TimerNext]_timerVars => TimerIInv'
  BY TimerAssumption, TimerNextIInv
<1>3. QED BY <1>1, <1>2, PTL DEF TimerSpec

(* Every channel that has an interval is served by the one Scheduler of that  *)
(* interval, which has one timeout, and no Scheduler is kept for nobody, in   *)
(* whatever order setInterval is called and its tasks run (Timer.cpp).        *)
THEOREM ChannelsAreServed == TimerSpec => []ChannelsAccounted
<1>1. TimerIInv => ChannelsAccounted
  BY DEF TimerIInv
<1>2. TimerSpec => []TimerIInv
  BY TimerInvariance
<1>3. QED BY <1>1, <1>2, PTL

(* The timer rounds its delays down to milliseconds, so a tick may come       *)
(* before its boundary and be announced again: by less than a millisecond,    *)
(* and never a third time, for the intervals whose milliseconds the loop's    *)
(* delay can hold.                                                          *)
THEOREM TicksTwiceAtMost == TimerSpec => []AnnouncedTwiceAtMost
<1>1. TimerIInv => AnnouncedTwiceAtMost
  BY DEF TimerIInv
<1>2. TimerSpec => []TimerIInv
  BY TimerInvariance
<1>3. QED BY <1>1, <1>2, PTL

(* After its flows have ended the timer announces nothing, although timeouts  *)
(* are still pending, and the end it has reported stays what it was.          *)
THEOREM TimerFallsSilent == TimerSpec => SilentOnceStopped
<1>1. QED BY StoppedStep, PTL DEF TimerSpec, SilentOnceStopped
=============================================================================
