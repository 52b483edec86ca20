------------------------- MODULE SunspecScannerProofs ------------------------
(***************************************************************************)
(* Theorems about SunspecScanner for every address space, every span and    *)
(* number of models that the options allow, and whatever models, lengths    *)
(* and failures a device answers with.                                     *)
(***************************************************************************)
EXTENDS SunspecScanner, SequenceTheorems, FiniteSetTheorems, TLAPS

-----------------------------------------------------------------------------
(* The inductive invariant.                                                *)

(* The first address behind the models of s.                                *)
EndOf(s) == s[Len(s)].address + s[Len(s)].length

(* What is being read is what comes next in the chain.                      *)
ReaderOnChain ==
    /\ locations # <<>> => locations[1].id = Common
    /\ emitted # <<>> => scan = "finished"
    /\ scan \in {"idle", "posted", "probing"} => purpose = "none" /\ locations = <<>>
    /\ scan = "reading" =>
          \/ /\ purpose = "common" /\ locations = <<>>
             /\ nextAddress >= Base + 4
             /\ nextAddress + remaining - (Base + 4) \in CommonLengths
          \/ /\ purpose = "header" /\ locations # <<>>
             /\ nextAddress = currentAddress /\ remaining = 2
             /\ currentAddress = EndOf(locations)
          \/ /\ purpose = "payload" /\ locations # <<>>
             /\ nextAddress + remaining = EndOf(locations)

(* A unit is probed a second time only for a session that closed.           *)
ProbedInOrder ==
    /\ scan \in {"idle", "posted"} => unitIndex = 1 /\ probes[1] = 0 /\ ~retry
    /\ scan = "probing" => /\ unitIndex \in Units /\ probes[unitIndex] \in {1, 2}
                           /\ retry => probes[unitIndex] = 1

(* A scan is over when its subscriber has been told so.                      *)
EndedOnce == scan = "finished" <=> outcome # "none"

IInv == /\ ChainWellFormed /\ EmittedWhole /\ SweepInOrder
        /\ ReaderOnChain /\ ProbedInOrder /\ EndedOnce

-----------------------------------------------------------------------------
(* Chains of models.                                                       *)

Numbers == /\ Base \in Nat /\ Limit \in Nat /\ MaxRegisterSpan \in Nat /\ MaxModels \in Nat \ {0}
           /\ Chunk \in Nat /\ Chunk >= 2 /\ CommonLengths \subseteq Nat \ {0} /\ Lengths \subseteq Nat
           /\ UnitCount \in Nat \ {0}

LEMMA ConstantNumbers == Numbers
BY ScanAssumption DEF Numbers

(* The indices at which s holds a model with this identifier.               *)
At(s, id) == {i \in DOMAIN s : s[i].id = id}

Contiguous(s) ==
    \A i \in DOMAIN s : s[i].address = IF i = 1 THEN Base + 4 ELSE s[i - 1].address + s[i - 1].length + 2

Before(s, i) == {j \in 1..i - 1 : s[j].id = s[i].id}

Numbered(s) == Len(s) <= MaxModels /\ \A i \in DOMAIN s : s[i].instance = Cardinality(Before(s, i))

Chain(s) == /\ s \in Seq(Locations) /\ Contiguous(s) /\ Numbered(s)
            /\ s # <<>> => s[1].id = Common

LEMMA SeqFacts ==
    ASSUME NEW s \in Seq(Locations)
    PROVE  /\ Len(s) \in Nat /\ DOMAIN s = 1..Len(s)
           /\ s # <<>> => Len(s) \in 1..Len(s) /\ Len(s) > 0 /\ s[Len(s)] \in Locations
           /\ s = <<>> => Len(s) = 0
<1>1. Len(s) \in Nat /\ DOMAIN s = 1..Len(s)
  BY LenProperties
<1>2. (s # <<>> => Len(s) > 0) /\ (s = <<>> => Len(s) = 0)
  BY EmptySeq, <1>1
<1>3. s # <<>> => Len(s) \in 1..Len(s)
  BY <1>1, <1>2
<1>4. \A i \in 1..Len(s) : s[i] \in Locations
  BY ElementOfSeq
<1>5. QED BY <1>1, <1>2, <1>3, <1>4

(* A model that is counted has a number that the options allow.               *)
LEMMA AtFacts ==
    ASSUME NEW s \in Seq(Locations), NEW id
    PROVE  Cardinality(At(s, id)) \in 0..Len(s)
<1>1. Len(s) \in Nat /\ DOMAIN s = 1..Len(s)
  BY SeqFacts
<1>2. IsFiniteSet(1..Len(s)) /\ Cardinality(1..Len(s)) = Len(s)
  BY <1>1, FS_Interval
<1>3. At(s, id) \subseteq 1..Len(s)
  BY <1>1 DEF At
<1>4. IsFiniteSet(At(s, id)) /\ Cardinality(At(s, id)) <= Len(s)
  BY <1>2, <1>3, FS_Subset
<1>5. Cardinality(At(s, id)) \in Nat
  BY <1>4, FS_CardinalityType
<1>6. QED BY <1>1, <1>4, <1>5

(* A model behind the others, or the common model, prolongs the chain.        *)
LEMMA Prolong ==
    ASSUME NEW s, Chain(s), Len(s) < MaxModels, NEW m \in Locations,
           m.instance = Cardinality(At(s, m.id)),
           s = <<>> => m.id = Common /\ m.address = Base + 4,
           s # <<>> => m.address = EndOf(s) + 2
    PROVE  /\ Chain(Append(s, m)) /\ Append(s, m) # <<>>
           /\ EndOf(Append(s, m)) = m.address + m.length
<1> DEFINE t == Append(s, m)
           n == Len(s)
<1>1. /\ s \in Seq(Locations) /\ n \in Nat /\ DOMAIN s = 1..n
      /\ s # <<>> => n > 0
      /\ s = <<>> => n = 0
  BY SeqFacts DEF Chain
<1>2. /\ t \in Seq(Locations) /\ Len(t) = n + 1 /\ DOMAIN t = 1..(n + 1)
      /\ \A i \in 1..n : t[i] = s[i]
      /\ t[n + 1] = m /\ t # <<>>
  <2>1. /\ t \in Seq(Locations) /\ Len(t) = n + 1
        /\ \A i \in 1..n : t[i] = s[i]
        /\ t[n + 1] = m /\ t # <<>>
    BY <1>1, AppendProperties
  <2>2. QED BY <2>1, LenProperties
<1> HIDE DEF t, n
<1>3. Contiguous(t)
  <2>1. ASSUME NEW i \in 1..(n + 1)
        PROVE  t[i].address = IF i = 1 THEN Base + 4 ELSE t[i - 1].address + t[i - 1].length + 2
    <3>1. CASE i \in 1..n
      <4>1. t[i] = s[i] /\ (i # 1 => i - 1 \in 1..n /\ t[i - 1] = s[i - 1])
        BY <1>1, <1>2, <3>1
      <4>2. s[i].address = IF i = 1 THEN Base + 4 ELSE s[i - 1].address + s[i - 1].length + 2
        BY <1>1, <3>1 DEF Chain, Contiguous
      <4>3. QED BY <4>1, <4>2
    <3>2. CASE i \notin 1..n
      <4>1. i = n + 1 /\ t[i] = m
        BY <1>1, <1>2, <2>1, <3>2
      <4>2. CASE s = <<>>
        BY <1>1, <4>1, <4>2
      <4>3. CASE s # <<>>
        <5>1. i # 1 /\ i - 1 = n /\ t[i - 1] = s[n]
          BY <1>1, <1>2, <4>1, <4>3
        <5>2. m.address = s[n].address + s[n].length + 2
          BY <4>3 DEF EndOf, n
        <5>3. QED BY <4>1, <5>1, <5>2
      <4>4. QED BY <4>2, <4>3
    <3>3. QED BY <3>1, <3>2
  <2>2. QED BY <1>2, <2>1 DEF Contiguous
<1>4. Numbered(t)
  <2>1. ASSUME NEW i \in 1..(n + 1) PROVE t[i].instance = Cardinality(Before(t, i))
    <3>1. CASE i \in 1..n
      <4>1. t[i] = s[i] /\ \A j \in 1..i - 1 : t[j] = s[j]
        BY <1>1, <1>2, <3>1
      <4>2. Before(t, i) = Before(s, i)
        BY <4>1 DEF Before
      <4>3. QED BY <1>1, <3>1, <4>1, <4>2 DEF Chain, Numbered
    <3>2. CASE i \notin 1..n
      <4>1. i = n + 1 /\ i - 1 = n /\ t[i] = m
        BY <1>1, <1>2, <2>1, <3>2
      <4>2. Before(t, i) = At(s, m.id)
        BY <1>1, <1>2, <4>1 DEF Before, At
      <4>3. QED BY <4>1, <4>2
    <3>3. QED BY <3>1, <3>2
  <2>2. n + 1 <= MaxModels
    BY <1>1, ConstantNumbers DEF Numbers, n
  <2>3. QED BY <1>2, <2>1, <2>2 DEF Numbered
<1>5. t[1].id = Common
  <2>1. CASE s = <<>>
    BY <1>1, <1>2, <2>1
  <2>2. CASE s # <<>>
    BY <1>1, <1>2, <2>2 DEF Chain
  <2>3. QED BY <2>1, <2>2
<1>6. EndOf(t) = m.address + m.length
  BY <1>2 DEF EndOf
<1>7. QED BY <1>2, <1>3, <1>4, <1>5, <1>6 DEF Chain, t

-----------------------------------------------------------------------------
(* The invariant in three parts: the walk, the sweep and the end.            *)

WalkTypes == /\ purpose \in {"none", "common", "header", "payload"}
             /\ nextAddress \in 0..Limit /\ remaining \in Nat /\ currentAddress \in 0..Limit
             /\ Chain(locations) /\ emitted \in Seq(Locations)

WalkSound == WalkTypes /\ ReadsInSpan /\ EmittedWhole /\ ReaderOnChain

SweepTypes == /\ fixedUnit \in BOOLEAN /\ unitIndex \in 1..UnitCount + 1 /\ retry \in BOOLEAN
              /\ probes \in [Units -> Nat]

SweepSound == SweepTypes /\ SweepInOrder /\ ProbedInOrder

EndSound == /\ scan \in {"idle", "posted", "probing", "reading", "finished"}
            /\ cancelled \in BOOLEAN /\ outcome \in {"none", "completed", "failed"}
            /\ EndedOnce

LEMMA ChainOfLocations ==
    Chain(locations) <=> /\ locations \in Seq(Locations) /\ ChainContiguous /\ InstancesNumbered
                         /\ locations # <<>> => locations[1].id = Common
BY DEF Chain, Contiguous, Numbered, Before, ChainContiguous, InstancesNumbered

LEMMA Parts == IInv <=> WalkSound /\ SweepSound /\ EndSound
<1>1. IInv => WalkSound
  BY ChainOfLocations DEF IInv, ChainWellFormed, TypeOK, WalkSound, WalkTypes, ReaderOnChain
<1>2. IInv => SweepSound /\ EndSound
  BY DEF IInv, ChainWellFormed, TypeOK, SweepSound, SweepTypes, EndSound
<1>3. ASSUME WalkSound, SweepSound, EndSound PROVE IInv
  <2>1. locations \in Seq(Locations) /\ ChainContiguous /\ InstancesNumbered
    BY <1>3, ChainOfLocations DEF WalkSound, WalkTypes
  <2>2. TypeOK
    BY <1>3, <2>1 DEF TypeOK, WalkSound, WalkTypes, SweepSound, SweepTypes, EndSound
  <2>3. QED BY <1>3, <2>1, <2>2 DEF IInv, ChainWellFormed, WalkSound, SweepSound, EndSound
<1>4. QED BY <1>1, <1>2, <1>3

-----------------------------------------------------------------------------
(* The walk.                                                               *)

(* The walk rests.                                                         *)
LEMMA WalkRests ==
    ASSUME WalkSound, UNCHANGED <<reader, chain, emitted>>,
           \/ scan' = "finished"
           \/ scan \in {"idle", "posted", "probing"} /\ scan' \in {"posted", "probing"}
    PROVE  WalkSound'
<1>1. /\ purpose' = purpose /\ nextAddress' = nextAddress /\ remaining' = remaining
      /\ currentAddress' = currentAddress /\ locations' = locations /\ emitted' = emitted
  BY DEF reader, chain
<1>2. WalkTypes'
  BY <1>1 DEF WalkSound, WalkTypes
<1>3. ReadsInSpan'
  BY DEF ReadsInSpan
<1>4. EmittedWhole'
  BY <1>1 DEF WalkSound, EmittedWhole
<1>5. ReaderOnChain'
  BY <1>1 DEF WalkSound, ReaderOnChain
<1>6. QED BY <1>2, <1>3, <1>4, <1>5 DEF WalkSound

(* A span that InRegisterSpan allows is one that may be read.                 *)
LEMMA SpanFacts ==
    ASSUME NEW a \in Nat, NEW n \in Nat, InRegisterSpan(a, n)
    PROVE  /\ a >= Base /\ a < Limit /\ a + n <= Limit
           /\ a + n <= Least(Limit, Base + MaxRegisterSpan)
           /\ a \in 0..Limit /\ a + n \in 0..Limit
BY ConstantNumbers DEF InRegisterSpan, Least, Numbers

(* How a callback of the reader leaves the scan.                            *)
Walks == /\ purpose' # "none"
         /\ \/ scan' = "reading" /\ outcome' = outcome
            \/ scan' = "finished" /\ outcome' = "completed"

(* A read that was asked for within the span, of the next part of the chain.  *)
LEMMA ReadIsSound ==
    ASSUME NEW what \in {"common", "header", "payload"}, NEW a \in Nat, NEW n \in Nat \ {0},
           InRegisterSpan(a, n), Read(what, a, n),
           Chain(locations'), emitted' = <<>>, currentAddress' \in 0..Limit,
           \/ what = "common" /\ locations' = <<>> /\ a >= Base + 4 /\ a + n - (Base + 4) \in CommonLengths
           \/ /\ what = "header" /\ locations' # <<>> /\ a = currentAddress' /\ n = 2
              /\ a = EndOf(locations')
           \/ what = "payload" /\ locations' # <<>> /\ a + n = EndOf(locations')
    PROVE  WalkSound' /\ Walks
<1>1. purpose' = what /\ nextAddress' = a /\ remaining' = n /\ scan' = "reading" /\ outcome' = outcome
  BY DEF Read
<1>2. /\ a >= Base /\ a + n <= Least(Limit, Base + MaxRegisterSpan) /\ a \in 0..Limit
  BY SpanFacts
<1>3. WalkTypes'
  <2>1. emitted' \in Seq(Locations)
    BY EmptySeq
  <2>2. QED BY <1>1, <1>2, <2>1 DEF WalkTypes
<1>4. ReadsInSpan'
  BY <1>1, <1>2 DEF ReadsInSpan
<1>5. ReaderOnChain'
  BY <1>1 DEF ReaderOnChain, Chain
<1>6. EmittedWhole'
  BY DEF EmittedWhole
<1>7. QED BY <1>1, <1>3, <1>4, <1>5, <1>6 DEF WalkSound, Walks

(* After a model comes the next header, or the span is used up.               *)
LEMMA HeaderFollows ==
    ASSUME WalkSound, scan = "reading",
           Chain(locations'), locations' # <<>>, emitted' = emitted,
           currentAddress' \in 0..Limit, currentAddress' = EndOf(locations'),
           ReadModelHeader(currentAddress')
    PROVE  WalkSound' /\ Walks
<1>1. emitted = <<>> /\ purpose \in {"common", "header", "payload"}
  BY DEF WalkSound, ReaderOnChain
<1>2. CASE InRegisterSpan(currentAddress', 2)
  <2>1. Read("header", currentAddress', 2)
    BY <1>2 DEF ReadModelHeader
  <2>2. currentAddress' \in Nat
    BY ConstantNumbers DEF Numbers
  <2> DEFINE a == currentAddress'
  <2>3. a \in Nat /\ a = currentAddress' /\ Read("header", a, 2) /\ InRegisterSpan(a, 2)
    BY <1>2, <2>1, <2>2
  <2> HIDE DEF a
  <2>4. QED BY <1>1, <2>3, ReadIsSound
<1>3. CASE ~InRegisterSpan(currentAddress', 2)
  <2>1. /\ scan' = "finished" /\ outcome' = "completed"
        /\ purpose' = purpose /\ nextAddress' = nextAddress /\ remaining' = remaining
    BY <1>3 DEF ReadModelHeader, End, reader
  <2>2. WalkTypes'
    BY <2>1 DEF WalkSound, WalkTypes
  <2>3. ReadsInSpan' /\ EmittedWhole'
    BY <1>1, <2>1 DEF ReadsInSpan, EmittedWhole
  <2>4. ReaderOnChain'
    BY <1>1, <2>1 DEF ReaderOnChain, Chain
  <2>5. QED BY <1>1, <2>1, <2>2, <2>3, <2>4 DEF WalkSound, Walks
<1>4. QED BY <1>2, <1>3

LEMMA CompleteWalk ==
    ASSUME WalkSound, Complete
    PROVE  /\ WalkSound'
           /\ scan' = "finished" /\ outcome' = "completed" /\ purpose' = purpose
<1>1. scan' = "finished" /\ outcome' = "completed" /\ UNCHANGED <<reader, chain, emitted>>
  BY DEF Complete, End
<1>2. QED BY <1>1, WalkRests DEF reader

LEMMA EmitWalk ==
    ASSUME WalkSound, scan = "reading", purpose = "header", Emit
    PROVE  /\ WalkSound' /\ Walks
           /\ scan' = "finished"
<1>1. /\ scan' = "finished" /\ outcome' = "completed" /\ emitted' = locations
      /\ purpose' = purpose /\ nextAddress' = nextAddress /\ remaining' = remaining
      /\ currentAddress' = currentAddress /\ locations' = locations
  BY DEF Emit, End, reader, chain
<1>2. /\ locations # <<>> /\ nextAddress = EndOf(locations) /\ locations[1].id = Common
      /\ locations \in Seq(Locations)
  BY DEF WalkSound, ReaderOnChain, WalkTypes, Chain
<1>3. WalkTypes' /\ ReadsInSpan' /\ ReaderOnChain'
  BY <1>1, <1>2 DEF WalkSound, WalkTypes, ReadsInSpan, ReaderOnChain
<1>4. EmittedWhole'
  BY <1>1, <1>2 DEF EmittedWhole, EndOf
<1>5. QED BY <1>1, <1>3, <1>4 DEF WalkSound, Walks

LEMMA OnModelSound ==
    ASSUME WalkSound, scan = "reading", purpose = "header",
           NEW id \in ModelIds, NEW length \in Lengths, OnModel(id, length)
    PROVE  WalkSound' /\ Walks
<1>1. /\ Chain(locations) /\ locations # <<>> /\ locations \in Seq(Locations) /\ Len(locations) \in Nat
      /\ currentAddress = EndOf(locations) /\ currentAddress \in Nat
      /\ length \in Nat /\ MaxModels \in Nat /\ Base \in Nat /\ Limit \in Nat
  BY ConstantNumbers, SeqFacts DEF WalkSound, WalkTypes, ReaderOnChain, Chain, Numbers
<1>2. CASE \/ Len(locations) >= MaxModels
           \/ ~InRegisterSpan(currentAddress, 2)
           \/ ~InRegisterSpan(currentAddress + 2, length)
  <2>1. Complete
    BY <1>2 DEF OnModel
  <2>2. QED BY <2>1, CompleteWalk DEF Walks
<1>3. CASE ~(\/ Len(locations) >= MaxModels
             \/ ~InRegisterSpan(currentAddress, 2)
             \/ ~InRegisterSpan(currentAddress + 2, length))
  <2> DEFINE m == Location(id, Instances(id), currentAddress + 2, length)
             a == currentAddress + 2
  <2>1. /\ locations' = Append(locations, m) /\ emitted' = emitted
        /\ length = 0 => currentAddress' = a /\ ReadModelHeader(currentAddress')
        /\ length # 0 => currentAddress' = currentAddress /\ Read("payload", a, length)
    BY <1>3 DEF OnModel
  <2>2. /\ a \in Nat /\ InRegisterSpan(a, length) /\ a >= Base /\ a < Limit /\ a \in 0..Limit
        /\ Len(locations) < MaxModels
    <3>1. a \in Nat
      BY <1>1
    <3>2. InRegisterSpan(a, length) /\ Len(locations) < MaxModels
      BY <1>1, <1>3
    <3>3. QED BY <1>1, <3>1, <3>2, SpanFacts
  <2>3. m.instance = Cardinality(At(locations, m.id)) /\ m.address = a /\ m.length = length
    BY DEF Location, Instances, At
  <2>4. m \in Locations
    <3>1. Instances(id) \in 0..MaxModels
      <4>1. Instances(id) = Cardinality(At(locations, id))
        BY DEF Instances, At
      <4>2. Cardinality(At(locations, id)) \in 0..Len(locations)
        BY <1>1, AtFacts
      <4>3. QED BY <1>1, <2>2, <4>1, <4>2
    <3>2. currentAddress + 2 \in Base..Limit
      BY <1>1, <2>2
    <3>3. QED BY <3>1, <3>2 DEF Location, Locations
  <2> HIDE DEF m
  <2>5. /\ Chain(locations') /\ locations' # <<>>
        /\ EndOf(locations') = a + length
    BY <1>1, <2>1, <2>2, <2>3, <2>4, Prolong
  <2> HIDE DEF a
  <2>6. CASE length = 0
    BY <2>1, <2>2, <2>5, <2>6, HeaderFollows
  <2>7. CASE length # 0
    <3>1. length \in Nat \ {0} /\ Read("payload", a, length) /\ currentAddress' = currentAddress
      BY <1>1, <2>1, <2>7
    <3>2. emitted' = <<>> /\ currentAddress' \in 0..Limit
      BY <2>1, <3>1 DEF WalkSound, WalkTypes, ReaderOnChain
    <3>3. QED BY <2>2, <2>5, <3>1, <3>2, ReadIsSound
  <2>8. QED BY <2>6, <2>7
<1>4. QED BY <1>2, <1>3

LEMMA OnCommonModelSound ==
    ASSUME WalkSound, scan = "reading", purpose = "common",
           OnCommonModel(nextAddress + remaining - (Base + 4))
    PROVE  WalkSound' /\ Walks
<1> DEFINE length == nextAddress + remaining - (Base + 4)
           m == Location(Common, 0, Base + 4, length)
<1>1. /\ locations' = Append(locations, m) /\ emitted' = emitted
      /\ currentAddress' = Base + 4 + length /\ ReadModelHeader(currentAddress')
  BY DEF OnCommonModel
<1>2. /\ locations = <<>> /\ length \in CommonLengths /\ Chain(locations)
      /\ locations \in Seq(Locations) /\ Len(locations) = 0
      /\ nextAddress >= Base + 4 /\ nextAddress + remaining <= Limit
      /\ nextAddress \in Nat /\ remaining \in Nat
      /\ Base \in Nat /\ Limit \in Nat /\ MaxModels \in Nat \ {0} /\ length \in Nat
  <2>1. /\ locations = <<>> /\ length \in CommonLengths /\ Chain(locations)
        /\ nextAddress >= Base + 4 /\ nextAddress \in Nat /\ remaining \in Nat
    BY ConstantNumbers DEF WalkSound, WalkTypes, ReaderOnChain, Numbers
  <2>2. nextAddress + remaining <= Limit
    BY <2>1, ConstantNumbers DEF WalkSound, ReadsInSpan, Least, Numbers
  <2>3. locations \in Seq(Locations) /\ Len(locations) = 0
    BY <2>1, SeqFacts DEF Chain
  <2>4. QED BY <2>1, <2>2, <2>3, ConstantNumbers DEF Numbers
<1>3. Base + 4 + length = nextAddress + remaining
  BY <1>2
<1> HIDE DEF length
<1>4. Cardinality(At(locations, Common)) = 0
  <2>1. At(locations, Common) = {}
    BY <1>2 DEF At
  <2>2. QED BY <2>1, FS_EmptySet
<1>5. /\ m.instance = Cardinality(At(locations, m.id)) /\ m.id = Common /\ m.address = Base + 4
      /\ m.length = length
  BY <1>4 DEF Location
<1>6. m \in Locations
  <2>1. Base + 4 \in Base..Limit /\ 0 \in 0..MaxModels
    BY <1>2
  <2>2. QED BY <1>2, <2>1 DEF Location, Locations
<1> HIDE DEF m
<1>7. /\ Chain(locations') /\ locations' # <<>>
      /\ EndOf(locations') = Base + 4 + length
  <2>1. Len(locations) < MaxModels
    BY <1>2
  <2>2. locations # <<>> => m.address = EndOf(locations) + 2
    BY <1>2
  <2>3. /\ Chain(Append(locations, m)) /\ Append(locations, m) # <<>>
        /\ EndOf(Append(locations, m)) = m.address + m.length
    <3>1. Chain(locations) /\ (locations = <<>> => m.id = Common /\ m.address = Base + 4)
      BY <1>2, <1>5
    <3>2. QED BY <1>5, <1>6, <2>1, <2>2, <3>1, Prolong
  <2>4. QED BY <1>1, <1>5, <2>3
<1>8. currentAddress' \in 0..Limit
  BY <1>1, <1>2, <1>3
<1>9. QED BY <1>1, <1>7, <1>8, HeaderFollows

LEMMA OnRegistersSound ==
    ASSUME WalkSound, OnRegisters
    PROVE  WalkSound' /\ Walks
<1> DEFINE count == Least(Chunk, remaining)
           left == remaining - count
<1>1. scan = "reading"
  BY DEF OnRegisters
<1>2. /\ nextAddress \in Nat /\ remaining \in Nat \ {0} /\ nextAddress >= Base
      /\ nextAddress + remaining <= Least(Limit, Base + MaxRegisterSpan)
      /\ Base \in Nat /\ Limit \in Nat /\ MaxRegisterSpan \in Nat /\ Chunk \in Nat /\ Chunk >= 2
      /\ emitted = <<>> /\ Chain(locations) /\ currentAddress \in 0..Limit
  BY <1>1, ConstantNumbers DEF WalkSound, WalkTypes, ReadsInSpan, ReaderOnChain, Numbers
<1>3. /\ count \in Nat /\ left \in Nat /\ count + left = remaining
      /\ remaining = 2 => left = 0
  BY <1>2 DEF Least
<1>4. \/ left > 0 /\ Complete
      \/ left > 0 /\ Read(purpose, nextAddress + count, left) /\ UNCHANGED <<chain, emitted>>
      \/ purpose = "common" /\ OnCommonModel(nextAddress + remaining - (Base + 4))
      \/ purpose = "header" /\ \E id \in ModelIds, length \in Lengths : OnModel(id, length)
      \/ purpose = "header" /\ \E length \in Lengths : OnEndMarker(length)
      \/ purpose = "payload" /\ OnPayload
  BY DEF OnRegisters
<1> HIDE DEF count, left
<1>5. CASE left > 0 /\ Complete
  BY <1>1, <1>5, CompleteWalk DEF Walks, WalkSound, ReaderOnChain
<1>6. CASE left > 0 /\ Read(purpose, nextAddress + count, left) /\ UNCHANGED <<chain, emitted>>
  <2> DEFINE a == nextAddress + count
  <2>1. a \in Nat /\ left \in Nat \ {0} /\ a >= nextAddress /\ a + left = nextAddress + remaining
    BY <1>2, <1>3, <1>6
  <2>2. InRegisterSpan(a, left)
    BY <1>2, <2>1 DEF InRegisterSpan, Least
  <2>3. /\ currentAddress' = currentAddress /\ locations' = locations /\ emitted' = <<>>
        /\ Read(purpose, a, left)
    BY <1>2, <1>6 DEF chain
  <2>4. purpose \in {"common", "payload"}
    BY <1>1, <1>3, <1>6 DEF WalkSound, ReaderOnChain
  <2>5. \/ purpose = "common" /\ locations' = <<>> /\ a >= Base + 4 /\ a + left - (Base + 4) \in CommonLengths
        \/ purpose = "payload" /\ locations' # <<>> /\ a + left = EndOf(locations')
    <3>1. CASE purpose = "common"
      <4>1. /\ locations = <<>> /\ nextAddress >= Base + 4
            /\ nextAddress + remaining - (Base + 4) \in CommonLengths
        BY <1>1, <3>1 DEF WalkSound, ReaderOnChain
      <4>2. a >= Base + 4 /\ a + left - (Base + 4) = nextAddress + remaining - (Base + 4)
        BY <1>2, <2>1, <4>1
      <4>3. QED BY <2>3, <3>1, <4>1, <4>2
    <3>2. CASE purpose = "payload"
      BY <1>1, <2>1, <2>3, <3>2 DEF WalkSound, ReaderOnChain
    <3>3. QED BY <2>4, <3>1, <3>2
  <2>6. Chain(locations') /\ currentAddress' \in 0..Limit
    BY <1>2, <2>3
  <2> HIDE DEF a
  <2>7. CASE purpose = "common"
    BY <2>1, <2>2, <2>3, <2>5, <2>6, <2>7, ReadIsSound
  <2>8. CASE purpose = "payload"
    BY <2>1, <2>2, <2>3, <2>5, <2>6, <2>8, ReadIsSound
  <2>9. QED BY <2>4, <2>7, <2>8
<1>7. CASE purpose = "common" /\ OnCommonModel(nextAddress + remaining - (Base + 4))
  BY <1>1, <1>7, OnCommonModelSound
<1>8. CASE purpose = "header" /\ \E id \in ModelIds, length \in Lengths : OnModel(id, length)
  BY <1>1, <1>8, OnModelSound
<1>9. CASE purpose = "header" /\ \E length \in Lengths : OnEndMarker(length)
  <2>1. Emit \/ Complete
    BY <1>9 DEF OnEndMarker
  <2>2. CASE Emit
    BY <1>1, <1>9, <2>2, EmitWalk
  <2>3. CASE Complete
    BY <1>9, <2>3, CompleteWalk DEF Walks
  <2>4. QED BY <2>1, <2>2, <2>3
<1>10. CASE purpose = "payload" /\ OnPayload
  <2>1. /\ currentAddress' = nextAddress + remaining /\ ReadModelHeader(currentAddress')
        /\ locations' = locations /\ emitted' = emitted
    BY <1>10 DEF OnPayload
  <2>2. locations # <<>> /\ nextAddress + remaining = EndOf(locations)
    BY <1>1, <1>10 DEF WalkSound, ReaderOnChain
  <2>3. currentAddress' \in 0..Limit
    BY <1>2, <2>1 DEF Least
  <2>4. QED BY <1>1, <1>2, <2>1, <2>2, <2>3, HeaderFollows
<1>11. QED BY <1>4, <1>5, <1>6, <1>7, <1>8, <1>9, <1>10

(* A common model for which the span has no room.                           *)
NoRoom == \E length \in CommonLengths : ~InRegisterSpan(Base + 4, length)

LEMMA OnSunspecHeaderSound ==
    ASSUME WalkSound, OnSunspecHeader
    PROVE  /\ WalkSound'
           /\ \/ Walks
              \/ NoRoom /\ scan' = "finished" /\ outcome' = "completed"
<1>1. /\ scan = "probing" /\ purpose = "none" /\ locations = <<>> /\ emitted = <<>>
      /\ currentAddress \in 0..Limit /\ Chain(locations)
  BY DEF OnSunspecHeader, WalkSound, WalkTypes, ReaderOnChain
<1>2. PICK length \in CommonLengths : ReadCommonModel(length)
  BY DEF OnSunspecHeader
<1>3. /\ length \in Nat \ {0} /\ Base + 4 \in Nat /\ Base + 4 >= Base + 4
      /\ Base + 4 + length - (Base + 4) = length
  BY ConstantNumbers DEF Numbers
<1>4. CASE InRegisterSpan(Base + 4, length)
  <2>1. Read("common", Base + 4, length) /\ UNCHANGED <<chain, emitted>>
    BY <1>2, <1>4 DEF ReadCommonModel
  <2>2. currentAddress' = currentAddress /\ locations' = locations /\ emitted' = <<>>
    BY <1>1, <2>1 DEF chain
  <2>3. Chain(locations') /\ currentAddress' \in 0..Limit /\ locations' = <<>>
    BY <1>1, <2>2
  <2> DEFINE a == Base + 4
  <2>4. /\ a \in Nat /\ InRegisterSpan(a, length) /\ Read("common", a, length)
        /\ a >= Base + 4 /\ a + length - (Base + 4) \in CommonLengths
    BY <1>3, <1>4, <2>1
  <2> HIDE DEF a
  <2>5. QED BY <1>3, <2>2, <2>3, <2>4, ReadIsSound
<1>5. CASE ~InRegisterSpan(Base + 4, length)
  <2>1. Complete
    BY <1>2, <1>5 DEF ReadCommonModel
  <2>2. QED BY <1>5, <2>1, CompleteWalk DEF NoRoom
<1>6. QED BY <1>4, <1>5

-----------------------------------------------------------------------------
(* The sweep.                                                              *)

(* No unit is probed, nor left.                                             *)
LEMMA SweepRests ==
    ASSUME SweepSound, UNCHANGED sweep, SweepComplete',
           \/ scan' \in {"reading", "finished"}
           \/ scan = "idle" /\ scan' = "posted"
    PROVE  SweepSound'
<1>1. fixedUnit' = fixedUnit /\ unitIndex' = unitIndex /\ retry' = retry /\ probes' = probes
  BY DEF sweep
<1>2. SweepTypes' /\ UnitsInOrder'
  BY <1>1 DEF SweepSound, SweepTypes, SweepInOrder, UnitsInOrder
<1>3. ProbedInOrder'
  BY <1>1 DEF SweepSound, ProbedInOrder
<1>4. QED BY <1>2, <1>3 DEF SweepSound, SweepInOrder

(* The next unit is probed, or there is none.                               *)
LEMMA AdvanceSound ==
    ASSUME SweepSound, EndSound, scan = "probing", ~fixedUnit, AdvanceUnit, retry' \in BOOLEAN
    PROVE  /\ SweepSound'
           /\ \/ scan' = "probing" /\ outcome' = outcome /\ UNCHANGED <<reader, chain, emitted>>
              \/ Complete
<1>1. /\ fixedUnit' = fixedUnit /\ unitIndex' = unitIndex + 1
      /\ unitIndex \in Units /\ probes[unitIndex] \in {1, 2} /\ probes \in [Units -> Nat]
      /\ UnitCount \in Nat /\ unitIndex \in Nat /\ fixedUnit \in BOOLEAN
      /\ \A u \in Units : /\ u < unitIndex => probes[u] \in {1, 2}
                          /\ u > unitIndex => probes[u] = 0
  BY ConstantNumbers DEF AdvanceUnit, SweepSound, SweepTypes, SweepInOrder, UnitsInOrder, ProbedInOrder,
                         Units, Numbers
<1>2. outcome = "none"
  BY DEF EndSound, EndedOnce
<1>3. CASE unitIndex' > UnitCount
  <2>1. Complete /\ probes' = probes
    BY <1>3 DEF AdvanceUnit
  <2>2. scan' = "finished"
    BY <2>1 DEF Complete, End
  <2>3. \A u \in Units : u < unitIndex' /\ probes'[u] \in {1, 2}
    <3>1. ASSUME NEW u \in Units PROVE u < unitIndex' /\ probes[u] \in {1, 2}
      <4>1. u \in Nat /\ u <= UnitCount /\ unitIndex <= UnitCount
        BY <1>1 DEF Units
      <4>2. u < unitIndex' /\ (u = unitIndex \/ u < unitIndex)
        BY <1>1, <1>3, <4>1
      <4>3. QED BY <1>1, <4>2
    <3>2. QED BY <2>1, <3>1
  <2>4. unitIndex' \in 1..UnitCount + 1
    BY <1>1, <1>3 DEF Units
  <2>5. SweepTypes'
    BY <1>1, <2>1, <2>4 DEF SweepTypes
  <2>6. UnitsInOrder' /\ SweepComplete' /\ ProbedInOrder'
    <3>1. \A u \in Units : u \in Nat /\ probes'[u] > 0 /\ probes'[u] <= 2 /\ ~(u > unitIndex')
      <4>1. ASSUME NEW u \in Units PROVE u \in Nat /\ probes'[u] > 0 /\ probes'[u] <= 2 /\ ~(u > unitIndex')
        <5>1. u \in Nat /\ u < unitIndex' /\ probes'[u] \in {1, 2} /\ unitIndex' \in Nat
          BY <1>1, <2>3 DEF Units
        <5>2. QED BY <5>1
      <4>2. QED BY <4>1
    <3>2. UnitsInOrder'
      BY <1>1, <2>3, <3>1 DEF UnitsInOrder
    <3>3. SweepComplete'
      BY <3>1 DEF SweepComplete
    <3>4. ProbedInOrder'
      BY <2>2 DEF ProbedInOrder
    <3>5. QED BY <3>2, <3>3, <3>4
  <2>7. QED BY <2>1, <2>5, <2>6 DEF SweepSound, SweepInOrder
<1>4. CASE ~(unitIndex' > UnitCount)
  <2>1. /\ scan' = "probing" /\ probes' = [probes EXCEPT ![unitIndex'] = probes[unitIndex'] + 1]
        /\ outcome' = outcome /\ UNCHANGED <<reader, chain, emitted>>
    BY <1>4 DEF AdvanceUnit
  <2> DEFINE next == unitIndex + 1
  <2>2. next \in Units /\ unitIndex' = next /\ probes[next] = 0 /\ next \in Nat
    BY <1>1, <1>4 DEF Units
  <2>3. probes' \in [Units -> Nat] /\ probes'[next] = 1 /\ \A u \in Units \ {next} : probes'[u] = probes[u]
    BY <1>1, <2>1, <2>2
  <2>4. SweepTypes'
    BY <1>1, <2>2, <2>3 DEF SweepTypes, Units
  <2>5. UnitsInOrder'
    <3>1. ASSUME NEW u \in Units
          PROVE  /\ u < next => probes'[u] \in {1, 2}
                 /\ u > next => probes'[u] = 0
                 /\ probes'[u] <= 2
      <4>1. u \in Nat
        BY DEF Units
      <4>2. CASE u = next
        BY <2>2, <2>3, <4>1, <4>2
      <4>3. CASE u # next
        <5>1. /\ probes'[u] = probes[u]
              /\ u < next => u = unitIndex \/ u < unitIndex
              /\ u > next => u > unitIndex
              /\ u < unitIndex \/ u = unitIndex \/ u > unitIndex
          BY <1>1, <2>3, <4>1, <4>3
        <5>2. QED BY <1>1, <5>1
      <4>4. QED BY <4>2, <4>3
    <3> HIDE DEF next
    <3>2. QED BY <1>1, <2>2, <3>1 DEF UnitsInOrder
  <2>6. SweepComplete' /\ ProbedInOrder'
    <3>1. SweepComplete'
      BY <1>2, <2>1 DEF SweepComplete
    <3> HIDE DEF next
    <3>2. ProbedInOrder'
      BY <2>1, <2>2, <2>3 DEF ProbedInOrder
    <3>3. QED BY <3>1, <3>2
  <2>7. QED BY <2>1, <2>4, <2>5, <2>6 DEF SweepSound, SweepInOrder
<1>5. QED BY <1>3, <1>4

(* The same unit is probed for the first time, or once more.                 *)
LEMMA ProbeSound ==
    ASSUME SweepSound, EndSound, scan \in {"posted", "probing"}, ProbeUnit(unitIndex), retry' = FALSE,
           scan = "probing" => retry /\ ~fixedUnit
    PROVE  /\ SweepSound'
           /\ scan' = "probing" /\ outcome' = outcome /\ UNCHANGED <<reader, chain, emitted>>
<1>1. /\ scan' = "probing" /\ probes' = [probes EXCEPT ![unitIndex] = probes[unitIndex] + 1]
      /\ fixedUnit' = fixedUnit /\ unitIndex' = unitIndex
      /\ outcome' = outcome /\ UNCHANGED <<reader, chain, emitted>>
  BY DEF ProbeUnit
<1>2. /\ unitIndex \in Units /\ probes[unitIndex] \in {0, 1} /\ probes \in [Units -> Nat]
      /\ fixedUnit => probes[unitIndex] = 0 /\ unitIndex = 1
      /\ 1 \in Units /\ fixedUnit \in BOOLEAN /\ unitIndex \in Nat
      /\ \A u \in Units : /\ u < unitIndex => probes[u] \in {1, 2}
                          /\ u > unitIndex => probes[u] = 0
                          /\ probes[u] <= 2
  <2>1. 1 \in Units /\ unitIndex \in Units
    BY ConstantNumbers DEF Units, Numbers, SweepSound, ProbedInOrder
  <2>2. probes[unitIndex] \in {0, 1} /\ (fixedUnit => probes[unitIndex] = 0)
    BY DEF SweepSound, ProbedInOrder
  <2>3. /\ \A u \in Units : /\ u < unitIndex => probes[u] \in {1, 2}
                            /\ u > unitIndex => probes[u] = 0
                            /\ probes[u] <= 2
        /\ fixedUnit => unitIndex = 1
    BY DEF SweepSound, SweepInOrder, UnitsInOrder
  <2>4. QED BY <2>1, <2>2, <2>3 DEF SweepSound, SweepTypes, Units
<1>3. /\ probes' \in [Units -> Nat] /\ probes'[unitIndex] \in {1, 2}
      /\ fixedUnit => probes'[unitIndex] = 1
      /\ \A u \in Units \ {unitIndex} : probes'[u] = probes[u]
  BY <1>1, <1>2
<1>4. SweepTypes'
  <2>1. retry' \in BOOLEAN
    BY Zenon
  <2>2. QED BY <1>1, <1>2, <1>3, <2>1 DEF SweepTypes, SweepSound
<1>5. UnitsInOrder'
  <2>1. ASSUME NEW u \in Units
        PROVE  /\ u < unitIndex => probes'[u] \in {1, 2}
               /\ u > unitIndex => probes'[u] = 0
               /\ probes'[u] <= 2
    <3>1. CASE u = unitIndex
      BY <1>2, <1>3, <3>1
    <3>2. CASE u # unitIndex
      BY <1>2, <1>3, <3>2
    <3>3. QED BY <3>1, <3>2
  <2>2. fixedUnit => probes'[1] <= 1
    BY <1>2, <1>3
  <2>3. QED BY <1>1, <1>2, <2>1, <2>2 DEF UnitsInOrder
<1>6. SweepComplete'
  BY <1>1 DEF SweepComplete, EndSound, EndedOnce
<1>7. ProbedInOrder'
  BY <1>1, <1>2, <1>3 DEF ProbedInOrder
<1>8. QED BY <1>1, <1>4, <1>5, <1>6, <1>7 DEF SweepSound, SweepInOrder

-----------------------------------------------------------------------------
(* How a step leaves the scan to its subscriber.                            *)

(* The scan goes on, or it ends once and emits at the most what it located.   *)
Proceeds == \/ scan' # "finished" /\ outcome' = outcome /\ scan' # "idle" /\ emitted' = emitted
            \/ /\ scan \notin {"idle", "finished"} /\ scan' = "finished"
               /\ outcome' \in {"completed", "failed"}
               /\ emitted' # emitted => outcome' = "completed" /\ emitted = <<>>
            \/ scan' = scan /\ outcome' = outcome /\ emitted' = emitted

Kept == /\ WalkSound' /\ SweepSound' /\ EndSound' /\ Proceeds

LEMMA ProceedsKeepsEnd ==
    ASSUME EndSound, Proceeds, cancelled' \in BOOLEAN,
           scan' \in {"idle", "posted", "probing", "reading", "finished"},
           scan' # "finished" => scan # "finished"
    PROVE  EndSound'
BY DEF EndSound, EndedOnce, Proceeds

(* Whatever a callback of the reader does, the sweep is over.                 *)
LEMMA WalkingKeeps ==
    ASSUME WalkSound, SweepSound, EndSound, UNCHANGED <<cancelled, sweep>>,
           WalkSound', scan \in {"probing", "reading"},
           \/ Walks
           \/ NoRoom /\ scan' = "finished" /\ outcome' = "completed"
    PROVE  Kept
<1>1. SweepComplete'
  <2>1. CASE Walks
    BY <2>1 DEF SweepComplete, Walks
  <2>2. CASE NoRoom
    <3>1. \E length \in CommonLengths : ~InRegisterSpan(Base + 4, length)
      BY <2>2 DEF NoRoom
    <3>2. QED BY <3>1 DEF SweepComplete, InRegisterSpan
  <2>3. QED BY <2>1, <2>2
<1>2. scan' \in {"reading", "finished"} /\ (scan' = "reading" => outcome' = outcome)
      /\ (scan' = "finished" => outcome' = "completed" \/ outcome' = outcome)
  BY DEF Walks
<1>3. SweepSound'
  BY <1>1, <1>2, SweepRests
<1>4. Proceeds
  <2>1. emitted = <<>> /\ outcome = "none"
    BY DEF WalkSound, ReaderOnChain, EndSound, EndedOnce
  <2>2. scan' = "reading" => emitted' = <<>>
    BY DEF WalkSound, ReaderOnChain
  <2>3. scan' = "finished" => outcome' = "completed"
    BY DEF Walks
  <2>4. QED BY <1>2, <2>1, <2>2, <2>3 DEF Proceeds
<1>5. EndSound'
  BY <1>2, <1>4, ProceedsKeepsEnd DEF EndSound
<1>6. QED BY <1>3, <1>4, <1>5 DEF Kept

(* A scan that ends without having read more than before.                     *)
LEMMA EndKeeps ==
    ASSUME WalkSound, SweepSound, EndSound, Complete \/ Fail, cancelled' \in BOOLEAN,
           scan \in {"posted", "probing", "reading"}, SweepSound'
    PROVE  Kept
<1>1. scan' = "finished" /\ outcome' \in {"completed", "failed"} /\ UNCHANGED <<reader, chain, emitted>>
  BY DEF Complete, Fail, End
<1>2. WalkSound'
  BY <1>1, WalkRests
<1>3. Proceeds
  BY <1>1 DEF Proceeds
<1>4. EndSound'
  BY <1>1, <1>3, ProceedsKeepsEnd
<1>5. QED BY <1>2, <1>3, <1>4 DEF Kept

-----------------------------------------------------------------------------
(* One lemma per action.                                                    *)

LEMMA SubscribeKeeps == ASSUME WalkSound, SweepSound, EndSound, Subscribe PROVE Kept
<1>1. /\ scan = "idle" /\ scan' = "posted" /\ cancelled' = cancelled /\ outcome' = outcome
      /\ UNCHANGED sweep /\ UNCHANGED <<reader, chain, emitted>>
  BY DEF Subscribe
<1>2. WalkSound'
  BY <1>1, WalkRests
<1>3. SweepComplete'
  BY <1>1 DEF SweepComplete, EndSound, EndedOnce
<1>4. SweepSound'
  BY <1>1, <1>3, SweepRests
<1>5. Proceeds /\ EndSound'
  BY <1>1 DEF Proceeds, EndSound, EndedOnce
<1>6. QED BY <1>2, <1>4, <1>5 DEF Kept

LEMMA CancelKeeps == ASSUME WalkSound, SweepSound, EndSound, Cancel PROVE Kept
<1>1. /\ cancelled' = TRUE /\ UNCHANGED sweep
      /\ \/ scan \in {"probing", "reading"} /\ Complete
         \/ /\ scan \in {"posted", "finished"} /\ scan' = scan /\ outcome' = outcome
            /\ UNCHANGED <<reader, chain, emitted>>
  BY DEF Cancel
<1>2. cancelled' \in BOOLEAN /\ cancelled'
  BY <1>1, Zenon
<1>3. SweepComplete'
  BY <1>2 DEF SweepComplete
<1>4. CASE scan \in {"probing", "reading"} /\ Complete
  <2>1. scan' = "finished"
    BY <1>4 DEF Complete, End
  <2>2. SweepSound'
    BY <1>1, <1>3, <2>1, SweepRests
  <2>3. QED BY <1>2, <1>4, <2>2, EndKeeps
<1>5. CASE /\ scan \in {"posted", "finished"} /\ scan' = scan /\ outcome' = outcome
           /\ UNCHANGED <<reader, chain, emitted>>
  <2>1. WalkSound'
    BY <1>5, WalkRests
  <2>2. SweepSound'
    <3>1. fixedUnit' = fixedUnit /\ unitIndex' = unitIndex /\ retry' = retry /\ probes' = probes
      BY <1>1 DEF sweep
    <3>2. SweepTypes' /\ UnitsInOrder' /\ ProbedInOrder'
      BY <1>5, <3>1 DEF SweepSound, SweepTypes, SweepInOrder, UnitsInOrder, ProbedInOrder
    <3>3. QED BY <1>3, <3>2 DEF SweepSound, SweepInOrder
  <2>3. Proceeds /\ EndSound'
    BY <1>2, <1>5 DEF Proceeds, EndSound, EndedOnce
  <2>4. QED BY <2>1, <2>2, <2>3 DEF Kept
<1>6. QED BY <1>1, <1>4, <1>5

(* The scan ends while the sweep stays where it is.                          *)
LEMMA EndedSweep ==
    ASSUME WalkSound, SweepSound, EndSound, UNCHANGED <<cancelled, sweep>>,
           scan \in {"posted", "probing"},
           Fail \/ (Complete /\ (cancelled \/ fixedUnit))
    PROVE  Kept
<1>1. scan' = "finished" /\ (outcome' = "failed" \/ (outcome' = "completed" /\ (cancelled \/ fixedUnit)))
  BY DEF Fail, Complete, End
<1>2. SweepComplete'
  BY <1>1 DEF SweepComplete, sweep
<1>3. SweepSound'
  BY <1>1, <1>2, SweepRests
<1>4. cancelled' \in BOOLEAN
  BY DEF EndSound
<1>5. QED BY <1>3, <1>4, EndKeeps

(* A probe begins.                                                         *)
LEMMA ProbingKeeps ==
    ASSUME WalkSound, EndSound, SweepSound', cancelled' = cancelled, scan \in {"posted", "probing"},
           scan' = "probing", outcome' = outcome, UNCHANGED <<reader, chain, emitted>>
    PROVE  Kept
<1>1. WalkSound'
  BY WalkRests
<1>2. Proceeds
  BY DEF Proceeds
<1>3. EndSound'
  BY DEF EndSound, EndedOnce
<1>4. QED BY <1>1, <1>2, <1>3 DEF Kept

LEMMA StartInLoopKeeps == ASSUME WalkSound, SweepSound, EndSound, StartInLoop PROVE Kept
<1>1. /\ scan = "posted" /\ cancelled' = cancelled
      /\ \/ cancelled /\ Complete /\ UNCHANGED sweep
         \/ ~cancelled /\ ProbeUnit(unitIndex) /\ UNCHANGED retry
         \/ ~cancelled /\ Fail /\ UNCHANGED sweep
  BY DEF StartInLoop, NoReplacement
<1>2. CASE cancelled /\ Complete /\ UNCHANGED sweep
  BY <1>1, <1>2, EndedSweep
<1>3. CASE ~cancelled /\ Fail /\ UNCHANGED sweep
  BY <1>1, <1>3, EndedSweep
<1>4. CASE ~cancelled /\ ProbeUnit(unitIndex) /\ UNCHANGED retry
  <2>1. retry' = FALSE
    BY <1>1, <1>4 DEF SweepSound, SweepTypes, ProbedInOrder
  <2>2. /\ SweepSound'
        /\ scan' = "probing" /\ outcome' = outcome /\ UNCHANGED <<reader, chain, emitted>>
    BY <1>1, <1>4, <2>1, ProbeSound
  <2>3. QED BY <1>1, <2>2, ProbingKeeps
<1>5. QED BY <1>1, <1>2, <1>3, <1>4

LEMMA AdvanceKeeps ==
    ASSUME WalkSound, SweepSound, EndSound, scan = "probing", ~fixedUnit, AdvanceUnit,
           retry' \in BOOLEAN, cancelled' = cancelled
    PROVE  Kept
<1>1. /\ SweepSound'
      /\ \/ scan' = "probing" /\ outcome' = outcome /\ UNCHANGED <<reader, chain, emitted>>
         \/ Complete
  BY AdvanceSound
<1>2. CASE Complete
  BY <1>1, <1>2, EndKeeps DEF EndSound
<1>3. CASE scan' = "probing" /\ outcome' = outcome /\ UNCHANGED <<reader, chain, emitted>>
  BY <1>1, <1>3, ProbingKeeps
<1>4. QED BY <1>1, <1>2, <1>3

LEMMA OnOtherResponseKeeps == ASSUME WalkSound, SweepSound, EndSound, OnOtherResponse PROVE Kept
<1>1. /\ scan = "probing" /\ cancelled' = cancelled
      /\ \/ fixedUnit /\ Complete /\ UNCHANGED sweep
         \/ \E sessionClosed \in BOOLEAN : ~fixedUnit /\ AdvanceUnit /\ retry' = ~sessionClosed
         \/ ~fixedUnit /\ Fail /\ UNCHANGED sweep
  BY DEF OnOtherResponse, NoReplacement
<1>2. CASE \/ fixedUnit /\ Complete /\ UNCHANGED sweep
           \/ ~fixedUnit /\ Fail /\ UNCHANGED sweep
  BY <1>1, <1>2, EndedSweep
<1>3. CASE \E sessionClosed \in BOOLEAN : ~fixedUnit /\ AdvanceUnit /\ retry' = ~sessionClosed
  <2>1. retry' \in BOOLEAN /\ ~fixedUnit /\ AdvanceUnit
    BY <1>3
  <2>2. QED BY <1>1, <2>1, AdvanceKeeps
<1>4. QED BY <1>1, <1>2, <1>3

LEMMA OnProbeFailureKeeps == ASSUME WalkSound, SweepSound, EndSound, OnProbeFailure PROVE Kept
<1>1. /\ scan = "probing" /\ cancelled' = cancelled
      /\ \/ fixedUnit /\ Complete /\ UNCHANGED sweep
         \/ /\ ~fixedUnit /\ retry' = FALSE
            /\ \/ retry /\ ProbeUnit(unitIndex)
               \/ AdvanceUnit
         \/ ~fixedUnit /\ Fail /\ UNCHANGED sweep
  BY DEF OnProbeFailure, NoReplacement
<1>2. CASE \/ fixedUnit /\ Complete /\ UNCHANGED sweep
           \/ ~fixedUnit /\ Fail /\ UNCHANGED sweep
  BY <1>1, <1>2, EndedSweep
<1>3. CASE ~fixedUnit /\ retry' = FALSE /\ retry /\ ProbeUnit(unitIndex)
  <2>1. /\ SweepSound'
        /\ scan' = "probing" /\ outcome' = outcome /\ UNCHANGED <<reader, chain, emitted>>
    BY <1>1, <1>3, ProbeSound
  <2>2. QED BY <1>1, <2>1, ProbingKeeps
<1>4. CASE ~fixedUnit /\ retry' = FALSE /\ AdvanceUnit
  <2>1. retry' \in BOOLEAN
    BY <1>4, Zenon
  <2>2. QED BY <1>1, <1>4, <2>1, AdvanceKeeps
<1>5. QED BY <1>1, <1>2, <1>3, <1>4

LEMMA ReadingKeeps ==
    ASSUME WalkSound, SweepSound, EndSound, OnSunspecHeader \/ OnRegisters \/ OnReadFailure
    PROVE  Kept
<1>1. UNCHANGED <<cancelled, sweep>> /\ scan \in {"probing", "reading"}
  BY DEF OnSunspecHeader, OnRegisters, OnReadFailure
<1>2. CASE OnSunspecHeader
  BY <1>1, <1>2, OnSunspecHeaderSound, WalkingKeeps
<1>3. CASE OnRegisters
  BY <1>1, <1>3, OnRegistersSound, WalkingKeeps
<1>4. CASE OnReadFailure
  <2>1. scan = "reading" /\ Complete
    BY <1>4 DEF OnReadFailure
  <2>2. WalkSound' /\ Walks
    BY <2>1, CompleteWalk DEF Walks, WalkSound, ReaderOnChain
  <2>3. QED BY <1>1, <2>2, WalkingKeeps
<1>5. QED BY <1>2, <1>3, <1>4

-----------------------------------------------------------------------------
(* The invariant and what follows from it.                                  *)

LEMMA InitIInv == Init => IInv
<1> SUFFICES ASSUME Init PROVE IInv
  OBVIOUS
<1>1. Numbers
  BY ConstantNumbers
<1>2. /\ scan = "idle" /\ cancelled = FALSE /\ outcome = "none"
      /\ fixedUnit \in BOOLEAN /\ unitIndex = 1 /\ retry = FALSE /\ probes = [u \in Units |-> 0]
      /\ purpose = "none" /\ nextAddress = 0 /\ remaining = 0
      /\ currentAddress = 0 /\ locations = <<>> /\ emitted = <<>>
  BY DEF Init
<1>3. Chain(<<>>)
  <2>1. <<>> \in Seq(Locations) /\ Len(<<>>) = 0 /\ DOMAIN (<<>>) = {}
    OBVIOUS
  <2>2. QED BY <1>1, <2>1 DEF Chain, Contiguous, Numbered, Numbers
<1>4. WalkSound
  <2>1. WalkTypes
    BY <1>1, <1>2, <1>3 DEF WalkTypes, Numbers
  <2>2. ReadsInSpan /\ EmittedWhole /\ ReaderOnChain
    BY <1>2 DEF ReadsInSpan, EmittedWhole, ReaderOnChain
  <2>3. QED BY <2>1, <2>2 DEF WalkSound
<1>5. cancelled \in BOOLEAN /\ retry \in BOOLEAN /\ ~retry
  BY <1>2, Zenon
<1>6. SweepSound
  <2>1. 1 \in Units /\ \A u \in Units : u \in Nat /\ ~(u < 1) /\ probes[u] = 0
    BY <1>1, <1>2 DEF Units, Numbers
  <2>2. SweepTypes
    BY <1>1, <1>2, <1>5 DEF SweepTypes, Numbers
  <2>3. SweepInOrder
    BY <1>2, <2>1 DEF SweepInOrder, UnitsInOrder, SweepComplete
  <2>4. ProbedInOrder
    BY <1>2, <1>5, <2>1 DEF ProbedInOrder
  <2>5. QED BY <2>2, <2>3, <2>4 DEF SweepSound
<1>7. EndSound
  BY <1>2, <1>5 DEF EndSound, EndedOnce
<1>8. QED BY <1>4, <1>6, <1>7, Parts

(* Each step keeps the invariant and leaves the scan as its subscriber may    *)
(* find it.                                                                *)
LEMMA Steps == ASSUME IInv, [Next]_vars PROVE Kept
<1>1. WalkSound /\ SweepSound /\ EndSound
  BY Parts
<1>2. CASE Next
  BY <1>1, <1>2, SubscribeKeeps, CancelKeeps, StartInLoopKeeps, OnOtherResponseKeeps,
     OnProbeFailureKeeps, ReadingKeeps DEF Next, Answered
<1>3. CASE UNCHANGED vars
  <2>1. /\ scan' = scan /\ cancelled' = cancelled /\ outcome' = outcome
        /\ fixedUnit' = fixedUnit /\ unitIndex' = unitIndex /\ retry' = retry /\ probes' = probes
        /\ purpose' = purpose /\ nextAddress' = nextAddress /\ remaining' = remaining
        /\ currentAddress' = currentAddress /\ locations' = locations /\ emitted' = emitted
    BY <1>3 DEF vars, control, sweep, reader, chain
  <2>2. WalkSound'
    BY <1>1, <2>1 DEF WalkSound, WalkTypes, ReadsInSpan, EmittedWhole, ReaderOnChain
  <2>3. SweepSound'
    BY <1>1, <2>1 DEF SweepSound, SweepTypes, SweepInOrder, UnitsInOrder, SweepComplete, ProbedInOrder
  <2>4. EndSound' /\ Proceeds
    BY <1>1, <2>1 DEF EndSound, EndedOnce, Proceeds
  <2>5. QED BY <2>2, <2>3, <2>4 DEF Kept
<1>4. QED BY <1>2, <1>3

LEMMA NextIInv == IInv /\ [Next]_vars => IInv'
<1> SUFFICES ASSUME IInv, [Next]_vars PROVE IInv'
  OBVIOUS
<1>1. WalkSound' /\ SweepSound' /\ EndSound'
  BY Steps DEF Kept
<1>2. WalkSound' /\ SweepSound' /\ EndSound' => IInv'
  BY Parts, PTL
<1>3. QED BY <1>1, <1>2

(* The strengthened invariant holds in every reachable state of a scan.       *)
THEOREM Invariance == Spec => []IInv
BY InitIInv, NextIInv, PTL DEF Spec

(* Whatever lengths a device claims and however the reads are cut, the walk   *)
(* is along adjacent models, each counted once, and no read leaves the span.  *)
THEOREM WalkStaysInSpan == Spec => []ChainWellFormed
<1>1. IInv => ChainWellFormed
  BY DEF IInv
<1>2. QED BY <1>1, Invariance, PTL

(* A thing is made of a chain from its common model to its end marker only.   *)
THEOREM EmissionIsWhole == Spec => []EmittedWhole
<1>1. IInv => EmittedWhole
  BY DEF IInv
<1>2. QED BY <1>1, Invariance, PTL

(* Whenever the device closes the connection, no unit is skipped and none is  *)
(* probed more than twice.                                                 *)
THEOREM SweepGoesOn == Spec => []SweepInOrder
<1>1. IInv => SweepInOrder
  BY DEF IInv
<1>2. QED BY <1>1, Invariance, PTL

-----------------------------------------------------------------------------
(* The refinement of DiscoveryFlow.                                         *)

Found == IF emitted = <<>> THEN {} ELSE {"thing"}

LEMMA FlowStep ==
    ASSUME IInv, IInv', [Next]_vars
    PROVE  [Flow!Next]_<<Phase, Found>>
<1>1. /\ scan = "finished" <=> outcome # "none"
      /\ scan' = "finished" <=> outcome' # "none"
      /\ outcome \in {"none", "completed", "failed"}
      /\ scan \in {"idle", "posted", "probing", "reading", "finished"}
  BY Parts DEF IInv, EndedOnce, EndSound
<1>2. Proceeds
  BY Steps DEF Kept
<1>3. CASE scan' # "finished" /\ outcome' = outcome /\ scan' # "idle" /\ emitted' = emitted
  <2>1. Found' = Found
    BY <1>3 DEF Found
  <2>2. CASE scan = "idle"
    <3>1. Flow!Start
      BY <1>1, <1>3, <2>1, <2>2 DEF Flow!Start, Phase, Found
    <3>2. QED BY <3>1 DEF Flow!Next
  <2>3. CASE scan # "idle"
    <3>1. Phase' = Phase
      BY <1>1, <1>3, <2>3 DEF Phase
    <3>2. QED BY <2>1, <3>1
  <2>4. QED BY <2>2, <2>3
<1>4. CASE /\ scan \notin {"idle", "finished"} /\ scan' = "finished"
           /\ outcome' \in {"completed", "failed"}
           /\ emitted' # emitted => outcome' = "completed" /\ emitted = <<>>
  <2>1. Phase = "running"
    BY <1>1, <1>4 DEF Phase
  <2>2. Phase' = IF outcome' = "completed" THEN "ended" ELSE "failed"
    BY <1>4 DEF Phase
  <2>3. CASE Found' = Found
    <3>1. Flow!End \/ Flow!Fail
      BY <2>1, <2>2, <2>3 DEF Flow!End, Flow!Fail, Found
    <3>2. QED BY <3>1 DEF Flow!Next
  <2>4. CASE Found' # Found
    <3>1. outcome' = "completed" /\ Found = {} /\ Found' = {"thing"}
      BY <1>4, <2>4 DEF Found
    <3>2. Flow!EmitAndEnd("thing")
      BY <2>1, <2>2, <3>1 DEF Flow!EmitAndEnd, Found
    <3>3. QED BY <3>2 DEF Flow!Next
  <2>5. QED BY <2>3, <2>4
<1>5. CASE scan' = scan /\ outcome' = outcome /\ emitted' = emitted
  BY <1>5 DEF Phase, Found
<1>6. QED BY <1>2, <1>3, <1>4, <1>5 DEF Proceeds

(* A scan keeps the contract of a flow: a thing only while it runs, and one   *)
(* end of it.                                                              *)
THEOREM FlowImplemented == Spec => ImplementsFlow
<1>1. Init => Flow!Init
  BY DEF Init, Flow!Init, Phase
<1>2. IInv /\ IInv' /\ [Next]_vars => [Flow!Next]_<<Phase, Found>>
  BY FlowStep
<1>3. QED BY <1>1, <1>2, Invariance, PTL DEF Spec, ImplementsFlow, Flow!Spec, Found
-----------------------------------------------------------------------------
(* A scan cannot go on for ever.  Every callback of the reader reads further  *)
(* on, every callback of the prober probes a later unit or uses up the one    *)
(* retry of the unit it is at.                                              *)

Onward == \/ scan' = "finished"
          \/ scan' = "reading" /\ nextAddress' \in Nat /\ nextAddress' > nextAddress

LEMMA HeaderOnward ==
    ASSUME NEW a \in Nat, a > nextAddress, ReadModelHeader(a)
    PROVE  Onward
BY DEF ReadModelHeader, Read, End, Onward

LEMMA CompleteOnward == Complete \/ Emit => Onward
BY DEF Complete, Emit, End, Onward

LEMMA OnModelOnward ==
    ASSUME NEW id \in ModelIds, NEW length \in Lengths, OnModel(id, length),
           currentAddress \in Nat, nextAddress = currentAddress
    PROVE  Onward
<1>1. CASE Complete
  BY <1>1, CompleteOnward
<1>2. CASE currentAddress' = currentAddress + 2 /\ ReadModelHeader(currentAddress')
  <2>1. currentAddress' \in Nat /\ currentAddress' > nextAddress
    BY <1>2
  <2> DEFINE a == currentAddress'
  <2>2. a \in Nat /\ a > nextAddress /\ ReadModelHeader(a)
    BY <1>2, <2>1
  <2> HIDE DEF a
  <2>3. QED BY <2>2, HeaderOnward
<1>3. CASE Read("payload", currentAddress + 2, length)
  BY <1>3 DEF Read, Onward
<1>4. QED BY <1>1, <1>2, <1>3 DEF OnModel

LEMMA OnRegistersOnward == ASSUME WalkSound, OnRegisters PROVE Onward
<1>1. /\ nextAddress \in Nat /\ remaining \in Nat /\ remaining > 0 /\ currentAddress \in Nat
      /\ scan = "reading" /\ Chunk \in Nat /\ Chunk >= 2 /\ Base \in Nat
  BY ConstantNumbers DEF OnRegisters, WalkSound, WalkTypes, ReadsInSpan, Numbers
<1> DEFINE count == Least(Chunk, remaining)
           left == remaining - count
<1>2. count \in Nat /\ count > 0
  BY <1>1 DEF Least
<1>3. CASE left > 0
  <2>1. CASE Read(purpose, nextAddress + count, left)
    BY <1>1, <1>2, <2>1 DEF Read, Onward
  <2>2. CASE Complete
    BY <2>2, CompleteOnward
  <2>3. QED BY <1>3, <2>1, <2>2 DEF OnRegisters
<1>4. CASE ~(left > 0)
  <2>1. CASE purpose = "common" /\ OnCommonModel(nextAddress + remaining - (Base + 4))
    <3>1. /\ currentAddress' = Base + 4 + (nextAddress + remaining - (Base + 4))
          /\ ReadModelHeader(currentAddress')
      BY <2>1 DEF OnCommonModel
    <3>2. currentAddress' \in Nat /\ currentAddress' > nextAddress
      BY <1>1, <3>1
    <3> DEFINE a == currentAddress'
    <3>3. a \in Nat /\ a > nextAddress /\ ReadModelHeader(a)
      BY <3>1, <3>2
    <3> HIDE DEF a
    <3>4. QED BY <3>3, HeaderOnward
  <2>2. CASE purpose = "header" /\ \E id \in ModelIds, length \in Lengths : OnModel(id, length)
    <3>1. nextAddress = currentAddress
      BY <1>1, <2>2 DEF WalkSound, ReaderOnChain
    <3>2. QED BY <1>1, <2>2, <3>1, OnModelOnward
  <2>3. CASE purpose = "header" /\ \E length \in Lengths : OnEndMarker(length)
    BY <2>3, CompleteOnward DEF OnEndMarker
  <2>4. CASE purpose = "payload" /\ OnPayload
    <3>1. currentAddress' = nextAddress + remaining /\ ReadModelHeader(currentAddress')
      BY <2>4 DEF OnPayload
    <3>2. currentAddress' \in Nat /\ currentAddress' > nextAddress
      BY <1>1, <3>1
    <3> DEFINE a == currentAddress'
    <3>3. a \in Nat /\ a > nextAddress /\ ReadModelHeader(a)
      BY <3>1, <3>2
    <3> HIDE DEF a
    <3>4. QED BY <3>3, HeaderOnward
  <2>5. QED BY <1>4, <2>1, <2>2, <2>3, <2>4 DEF OnRegisters
<1>5. QED BY <1>3, <1>4

(* What the phases leave, one by one.                                        *)
LEMMA LeftByPhase ==
    /\ scan = "idle" => ScanLeft = Limit + 2 * UnitCount + 4
    /\ scan = "posted" => ScanLeft = Limit + 2 * UnitCount + 3
    /\ scan = "probing" => ScanLeft = Limit + 2 * (UnitCount - unitIndex) + (IF retry THEN 3 ELSE 2)
    /\ scan = "reading" => ScanLeft = Limit - nextAddress
    /\ scan = "finished" => ScanLeft = 0
BY DEF ScanLeft

LEMMA LeftByPhaseNext ==
    /\ scan' = "posted" => ScanLeft' = Limit + 2 * UnitCount + 3
    /\ scan' = "probing" => ScanLeft' = Limit + 2 * (UnitCount - unitIndex') + (IF retry' THEN 3 ELSE 2)
    /\ scan' = "reading" => ScanLeft' = Limit - nextAddress'
    /\ scan' = "finished" => ScanLeft' = 0
BY DEF ScanLeft

(* Before its end a scan leaves something.                                   *)
LEMMA SomethingLeft ==
    ASSUME IInv
    PROVE  ScanLeft \in Nat /\ (scan # "finished" => ScanLeft > 0)
<1>1. /\ WalkSound /\ SweepSound /\ EndSound
      /\ Limit \in Nat /\ UnitCount \in Nat \ {0} /\ Base \in Nat /\ MaxRegisterSpan \in Nat
  BY Parts, ConstantNumbers DEF Numbers
<1>2. CASE scan = "probing"
  <2>1. unitIndex \in 1..UnitCount
    BY <1>1, <1>2 DEF SweepSound, ProbedInOrder, Units
  <2>2. ScanLeft = Limit + 2 * (UnitCount - unitIndex) + (IF retry THEN 3 ELSE 2)
    BY <1>2, LeftByPhase
  <2>3. UnitCount - unitIndex \in Nat
    BY <1>1, <2>1
  <2>4. \A n \in Nat : /\ Limit + 2 * n + 2 \in Nat /\ Limit + 2 * n + 2 > 0
                       /\ Limit + 2 * n + 3 \in Nat /\ Limit + 2 * n + 3 > 0
    BY <1>1
  <2>5. QED BY <1>2, <2>2, <2>3, <2>4
<1>3. CASE scan = "reading"
  <2>1. /\ nextAddress \in Nat /\ remaining \in Nat /\ remaining > 0
        /\ nextAddress + remaining <= Least(Limit, Base + MaxRegisterSpan)
    BY <1>1, <1>3 DEF WalkSound, WalkTypes, ReadsInSpan
  <2>2. nextAddress + remaining <= Limit
    BY <1>1, <2>1 DEF Least
  <2>3. Limit - nextAddress \in Nat /\ Limit - nextAddress > 0
    BY <1>1, <2>1, <2>2
  <2>4. QED BY <1>3, <2>3, LeftByPhase
<1>4. CASE scan \in {"idle", "posted", "finished"}
  BY <1>1, <1>4, LeftByPhase
<1>5. QED BY <1>1, <1>2, <1>3, <1>4 DEF EndSound

(* The scan is nearer to its end.                                           *)
Nearer == ScanLeft' < ScanLeft

LEMMA FinishedNearer == ASSUME IInv, scan # "finished", scan' = "finished" PROVE Nearer
<1>1. ScanLeft \in Nat /\ ScanLeft > 0 /\ ScanLeft' = 0
  BY SomethingLeft, LeftByPhaseNext
<1>2. QED BY <1>1 DEF Nearer

(* From one probe to the next.                                              *)
LEMMA ProbeNearer ==
    ASSUME IInv, scan = "probing", scan' = "probing", retry' \in BOOLEAN,
           \/ unitIndex' = unitIndex + 1
           \/ unitIndex' = unitIndex /\ retry /\ ~retry'
    PROVE  Nearer
<1>1. unitIndex \in Nat /\ Limit \in Nat /\ UnitCount \in Nat
  BY Parts, ConstantNumbers DEF SweepSound, SweepTypes, Numbers
<1>2. /\ ScanLeft = Limit + 2 * (UnitCount - unitIndex) + (IF retry THEN 3 ELSE 2)
      /\ ScanLeft' = Limit + 2 * (UnitCount - unitIndex') + (IF retry' THEN 3 ELSE 2)
  BY LeftByPhase, LeftByPhaseNext
<1>3. \A u, l, c \in Nat : /\ l + 2 * (c - (u + 1)) + 3 < l + 2 * (c - u) + 3
                          /\ l + 2 * (c - (u + 1)) + 3 < l + 2 * (c - u) + 2
                          /\ l + 2 * (c - (u + 1)) + 2 < l + 2 * (c - u) + 3
                          /\ l + 2 * (c - (u + 1)) + 2 < l + 2 * (c - u) + 2
                          /\ l + 2 * (c - u) + 2 < l + 2 * (c - u) + 3
  OBVIOUS
<1>4. CASE unitIndex' = unitIndex + 1
  <2>1. ScanLeft' = Limit + 2 * (UnitCount - (unitIndex + 1)) + (IF retry' THEN 3 ELSE 2)
    BY <1>2, <1>4
  <2>2. QED BY <1>1, <1>2, <1>3, <2>1 DEF Nearer
<1>5. CASE unitIndex' = unitIndex /\ retry /\ ~retry'
  <2>1. /\ ScanLeft = Limit + 2 * (UnitCount - unitIndex) + 3
        /\ ScanLeft' = Limit + 2 * (UnitCount - unitIndex) + 2
    BY <1>2, <1>5
  <2>2. QED BY <1>1, <1>3, <2>1 DEF Nearer
<1>6. QED BY <1>4, <1>5

LEMMA AdvanceNearer ==
    ASSUME IInv, scan = "probing", retry' \in BOOLEAN, AdvanceUnit
    PROVE  Nearer
<1>1. CASE Complete
  <2>1. scan' = "finished"
    BY <1>1 DEF Complete, End
  <2>2. QED BY <2>1, FinishedNearer
<1>2. CASE scan' = "probing"
  <2>1. unitIndex' = unitIndex + 1
    BY DEF AdvanceUnit
  <2>2. QED BY <1>2, <2>1, ProbeNearer
<1>3. QED BY <1>1, <1>2 DEF AdvanceUnit

LEMMA CancelShrinks ==
    ASSUME IInv, Cancel
    PROVE  ~cancelled /\ cancelled' = TRUE /\ ScanLeft' <= ScanLeft
<1>1. ScanLeft \in Nat
  BY SomethingLeft
<1>2. ~cancelled /\ cancelled' = TRUE
  BY DEF Cancel
<1>3. CASE scan \in {"probing", "reading"} /\ Complete
  <2>1. scan' = "finished"
    BY <1>3 DEF Complete, End
  <2>2. ScanLeft' = 0
    BY <2>1, LeftByPhaseNext
  <2>3. QED BY <1>1, <1>2, <2>2
<1>4. CASE scan \in {"posted", "finished"} /\ scan' = scan
  <2>1. ScanLeft' = ScanLeft
    BY <1>4, LeftByPhase, LeftByPhaseNext
  <2>2. QED BY <1>1, <1>2, <2>1
<1>5. QED BY <1>3, <1>4 DEF Cancel

LEMMA OtherStepsNearer ==
    ASSUME IInv, Subscribe \/ StartInLoop \/ Answered
    PROVE  Nearer /\ cancelled' = cancelled
<1>1. /\ Limit \in Nat /\ UnitCount \in Nat \ {0} /\ Base \in Nat /\ unitIndex \in Nat
      /\ WalkSound /\ SweepSound
  BY Parts, ConstantNumbers DEF SweepSound, SweepTypes, Numbers
<1>2. Complete \/ Fail => scan' = "finished"
  BY DEF Complete, Fail, End
<1>3. CASE Subscribe
  <2>1. scan = "idle" /\ scan' = "posted" /\ cancelled' = cancelled
    BY <1>3 DEF Subscribe
  <2>2. ScanLeft = Limit + 2 * UnitCount + 4 /\ ScanLeft' = Limit + 2 * UnitCount + 3
    BY <2>1, LeftByPhase, LeftByPhaseNext
  <2>3. QED BY <1>1, <2>1, <2>2 DEF Nearer
<1>4. CASE StartInLoop
  <2>1. scan = "posted" /\ cancelled' = cancelled /\ unitIndex = 1 /\ ~retry
    BY <1>1, <1>4 DEF StartInLoop, SweepSound, ProbedInOrder
  <2>2. CASE Complete \/ Fail
    BY <1>2, <2>1, <2>2, FinishedNearer
  <2>3. CASE ProbeUnit(unitIndex) /\ UNCHANGED retry
    <3>1. scan' = "probing" /\ unitIndex' = 1 /\ ~retry'
      BY <2>1, <2>3 DEF ProbeUnit
    <3>2. ScanLeft = Limit + 2 * UnitCount + 3 /\ ScanLeft' = Limit + 2 * (UnitCount - 1) + 2
      BY <2>1, <3>1, LeftByPhase, LeftByPhaseNext
    <3>3. QED BY <1>1, <2>1, <3>2 DEF Nearer
  <2>4. QED BY <1>4, <2>2, <2>3 DEF StartInLoop, NoReplacement
<1>5. CASE OnSunspecHeader
  <2>1. scan = "probing" /\ cancelled' = cancelled
    BY <1>5 DEF OnSunspecHeader
  <2>2. PICK length \in CommonLengths : ReadCommonModel(length)
    BY <1>5 DEF OnSunspecHeader
  <2>3. CASE Complete
    BY <1>2, <2>1, <2>3, FinishedNearer
  <2>4. CASE Read("common", Base + 4, length)
    <3>1. scan' = "reading" /\ nextAddress' = Base + 4
      BY <2>4 DEF Read
    <3>2. ScanLeft' = Limit - (Base + 4)
      BY <3>1, LeftByPhaseNext
    <3>3. /\ unitIndex \in 1..UnitCount
          /\ ScanLeft = Limit + 2 * (UnitCount - unitIndex) + (IF retry THEN 3 ELSE 2)
      BY <1>1, <2>1, LeftByPhase DEF SweepSound, ProbedInOrder, Units
    <3>4. UnitCount - unitIndex \in Nat
      BY <1>1, <3>3
    <3>5. \A n \in Nat : /\ Limit - (Base + 4) < Limit + 2 * n + 3
                         /\ Limit - (Base + 4) < Limit + 2 * n + 2
      BY <1>1
    <3>6. QED BY <2>1, <3>2, <3>3, <3>4, <3>5 DEF Nearer
  <2>5. QED BY <2>2, <2>3, <2>4 DEF ReadCommonModel
<1>6. CASE OnOtherResponse
  <2>1. scan = "probing" /\ cancelled' = cancelled
    BY <1>6 DEF OnOtherResponse
  <2>2. CASE Complete \/ Fail
    BY <1>2, <2>1, <2>2, FinishedNearer
  <2>3. CASE \E sessionClosed \in BOOLEAN : AdvanceUnit /\ retry' = ~sessionClosed
    <3>1. retry' \in BOOLEAN /\ AdvanceUnit
      BY <2>3
    <3>2. QED BY <2>1, <3>1, AdvanceNearer
  <2>4. QED BY <1>6, <2>2, <2>3 DEF OnOtherResponse, NoReplacement
<1>7. CASE OnProbeFailure
  <2>1. scan = "probing" /\ cancelled' = cancelled
    BY <1>7 DEF OnProbeFailure
  <2>2. CASE Complete \/ Fail
    BY <1>2, <2>1, <2>2, FinishedNearer
  <2>3. CASE retry' = FALSE /\ AdvanceUnit
    <3>1. retry' \in BOOLEAN
      BY <2>3, Zenon
    <3>2. QED BY <2>1, <2>3, <3>1, AdvanceNearer
  <2>4. CASE retry' = FALSE /\ retry /\ ProbeUnit(unitIndex)
    <3>1. scan' = "probing" /\ unitIndex' = unitIndex
      BY <2>4 DEF ProbeUnit
    <3>2. retry' \in BOOLEAN /\ ~retry' /\ retry
      BY <2>4, Zenon
    <3>3. QED BY <2>1, <3>1, <3>2, ProbeNearer
  <2>5. QED BY <1>7, <2>2, <2>3, <2>4 DEF OnProbeFailure, NoReplacement
<1>8. CASE OnRegisters
  <2>1. scan = "reading" /\ cancelled' = cancelled
    BY <1>8 DEF OnRegisters
  <2>2. Onward
    BY <1>1, <1>8, OnRegistersOnward
  <2>3. CASE scan' = "finished"
    BY <2>1, <2>3, FinishedNearer
  <2>4. CASE scan' = "reading" /\ nextAddress' \in Nat /\ nextAddress' > nextAddress
    <3>1. ScanLeft = Limit - nextAddress /\ ScanLeft' = Limit - nextAddress' /\ nextAddress \in Nat
      BY <1>1, <2>1, <2>4, LeftByPhase, LeftByPhaseNext DEF WalkSound, WalkTypes
    <3>2. \A l, m, n \in Nat : n > m => l - n < l - m
      OBVIOUS
    <3>3. Limit - nextAddress' < Limit - nextAddress
      BY <1>1, <2>4, <3>1, <3>2
    <3>4. ScanLeft' < ScanLeft
      BY <3>1, <3>3
    <3>5. QED BY <2>1, <3>4 DEF Nearer
  <2>5. QED BY <2>2, <2>3, <2>4 DEF Onward
<1>9. CASE OnReadFailure
  <2>1. scan = "reading" /\ scan' = "finished" /\ cancelled' = cancelled
    BY <1>2, <1>9 DEF OnReadFailure
  <2>2. QED BY <2>1, FinishedNearer
<1>10. QED BY <1>3, <1>4, <1>5, <1>6, <1>7, <1>8, <1>9 DEF Answered

(* Whatever lengths a device claims, and whenever it closes the connection,    *)
(* every callback brings the scan nearer to its end: no chain of models runs   *)
(* in a circle and no unit is probed for ever.                               *)
THEOREM ScanShrinks == Spec => WorkShrinks
<1>1. ASSUME IInv, IInv', Next PROVE Remaining' < Remaining
  <2>1. ScanLeft \in Nat /\ cancelled \in BOOLEAN
    BY <1>1, SomethingLeft, Parts DEF EndSound
  <2>2. ScanLeft' \in Nat
    <3>1. IInv' => (ScanLeft \in Nat)'
      BY SomethingLeft, PTL
    <3>2. QED BY <1>1, <3>1
  <2>3. CASE Cancel
    <3>1. ~cancelled /\ cancelled' = TRUE /\ ScanLeft' <= ScanLeft
      BY <1>1, <2>3, CancelShrinks
    <3>2. Remaining = ScanLeft + 1 /\ Remaining' = ScanLeft' + 0
      BY <3>1 DEF Remaining
    <3>3. ScanLeft \in Nat /\ ScanLeft' \in Nat /\ ScanLeft' <= ScanLeft
      BY <2>1, <2>2, <3>1
    <3>4. \A m, n \in Nat : m <= n => m + 0 < n + 1
      OBVIOUS
    <3>5. ScanLeft' + 0 < ScanLeft + 1
      BY <3>3, <3>4
    <3>6. QED BY <3>2, <3>5
  <2>4. CASE Subscribe \/ StartInLoop \/ Answered
    <3>1. ScanLeft' < ScanLeft /\ cancelled' = cancelled
      BY <1>1, <2>4, OtherStepsNearer DEF Nearer
    <3>2. /\ cancelled => Remaining = ScanLeft + 0 /\ Remaining' = ScanLeft' + 0
          /\ ~cancelled => Remaining = ScanLeft + 1 /\ Remaining' = ScanLeft' + 1
      BY <3>1 DEF Remaining
    <3>3. ScanLeft \in Nat /\ ScanLeft' \in Nat /\ ScanLeft' < ScanLeft
      BY <2>1, <2>2, <3>1
    <3>4. \A m, n \in Nat : m < n => m + 0 < n + 0 /\ m + 1 < n + 1
      OBVIOUS
    <3>5. ScanLeft' + 0 < ScanLeft + 0 /\ ScanLeft' + 1 < ScanLeft + 1
      BY <3>3, <3>4
    <3>6. QED BY <3>2, <3>5
  <2>5. QED BY <1>1, <2>3, <2>4 DEF Next
<1>2. IInv /\ IInv' /\ [Next]_vars => [Remaining' < Remaining]_vars
  BY <1>1
<1>3. QED BY <1>2, Invariance, PTL DEF Spec, WorkShrinks
=============================================================================
