------------------------ MODULE OneWireServiceProofs ------------------------
(***************************************************************************)
(* Proofs about OneWireService and the search of RomSearch it runs, for    *)
(* identifiers of any length, any devices, configuration, intervals and    *)
(* reading times, and any number of changes on the bus: the search finds   *)
(* what stays attached, and no device twice; what was found is in the list *)
(* afterwards, a missing device is removed and no other, and the devices   *)
(* are read apart and in time.                                             *)
(***************************************************************************)
EXTENDS OneWireService, SequenceTheorems, FiniteSetTheorems, WellFoundedInduction, TLAPS


-----------------------------------------------------------------------------
(* Identifiers.                                                            *)

LEMMA RomBitsNat == RomBits \in Nat \ {0} /\ Roms \subseteq [Bits -> {0, 1}]
BY RomAssumption

LEMMA StartState == SearchRomState \in RomStates /\ SearchRomState.lastDiscrepancy = 0
BY RomBitsNat DEF SearchRomState, RomStates, Bits

\* Of two identifiers that go different ways the first place is what counts: a
\* third that goes with one of them until there is on the same side of the other.
LEMMA ForkBefore ==
    ASSUME NEW d, NEW e, NEW f, NEW m \in Bits, NEW n \in Bits,
           Forks(d, e, m), Forks(e, f, n)
    PROVE  \E k \in Bits : Forks(d, f, k)
<1>0. m \in Int /\ n \in Int
  BY RomBitsNat DEF Bits
<1>1. CASE m < n
  BY <1>0, <1>1 DEF Forks, SameBelow, Bits
<1>2. CASE n < m
  BY <1>0, <1>2 DEF Forks, SameBelow, Bits
<1>3. CASE m = n
  BY <1>3 DEF Forks
<1> QED
  BY <1>0, <1>1, <1>2, <1>3

\* Where a device goes another way than the bit that is written.
LEMMA WriteBitFacts ==
    ASSUME NEW b \in Bits, active \subseteq Roms, active # {},
           search \in RomStates
    PROVE  /\ WriteBit(b) \in {0, 1}
           /\ \E d \in active : d[b] = WriteBit(b)
           /\ \A d \in active : d[b] \in {0, 1}
           /\ \A d \in active : d[b] # WriteBit(b) =>
                 ~ReadBit(b) /\ ~ReadComplement(b) /\ WriteBit(b) = SearchBit(b)
<1>1. \A d \in active : d[b] \in {0, 1}
  BY RomBitsNat
<1>2. SearchBit(b) \in {0, 1}
  BY DEF SearchBit, RomStates
<1>3. CASE ReadBit(b)
  BY <1>1, <1>3 DEF WriteBit, ReadBit, ReadComplement
<1>4. CASE ~ReadBit(b) /\ ReadComplement(b)
  BY <1>1, <1>4 DEF WriteBit, ReadBit, ReadComplement
<1>5. CASE ~ReadBit(b) /\ ~ReadComplement(b)
  <2>1. /\ \E d \in active : d[b] = 0
        /\ \E d \in active : d[b] = 1
    BY <1>1, <1>5 DEF ReadBit, ReadComplement
  <2> QED
    BY <1>1, <1>2, <1>5, <2>1 DEF WriteBit
<1> QED
  BY <1>3, <1>4, <1>5

-----------------------------------------------------------------------------
(* Types.                                                                  *)

LEMMA RomTypeInit == RomInit => RomTypeOK
<1>1. 0 \in 0..RomBits + 1 /\ 0 \in 0..MaxChanges
  BY RomAssumption
<1> QED
  BY <1>1, StartState DEF RomInit, RomTypeOK

LEMMA TripletTypes ==
    ASSUME RomTypeOK, Triplet
    PROVE  RomTypeOK'
<1>1. /\ bit \in Bits /\ active \subseteq Roms /\ active # {} /\ search \in RomStates
      /\ next \in RomStates
  BY DEF RomTypeOK, Triplet
<1>2. WriteBit(bit) \in {0, 1}
  BY <1>1, WriteBitFacts
<1>3. bit \in 0..RomBits /\ bit + 1 \in 0..RomBits + 1
  BY <1>1, RomBitsNat DEF Bits
<1>4. next' \in RomStates
  BY <1>1, <1>2, <1>3 DEF Triplet, RomStates
<1> QED
  BY <1>3, <1>4 DEF Triplet, RomTypeOK

LEMMA RomTypeStep == RomTypeOK /\ [RomNext]_searchVars => RomTypeOK'
<1> SUFFICES ASSUME RomTypeOK, [RomNext]_searchVars PROVE RomTypeOK'
  OBVIOUS
<1>0. RomBits \in Nat /\ 1 \in 0..RomBits + 1 /\ 0 \in 0..RomBits + 1 /\ MaxChanges \in Nat
  BY RomAssumption
<1>1. CASE StartPass
  BY <1>0, <1>1, StartState DEF StartPass, RomTypeOK
<1>2. CASE EndPass
  <2>1. next.romId \in [Bits -> {0, 1}] /\ search' \in RomStates
    BY <1>2 DEF EndPass, RomTypeOK, RomStates
  <2> QED
    BY <1>0, <1>2, <2>1, StartState DEF EndPass, RomTypeOK
<1>3. CASE SearchError
  BY <1>0, <1>3, StartState DEF SearchError, RomTypeOK
<1>4. CASE Change
  <2>1. changes' \in 0..MaxChanges
    BY <1>0, <1>4 DEF Change, Attach, Detach, RomTypeOK
  <2>2. PICK d \in Roms : Attach(d) \/ Detach(d)
    BY <1>4 DEF Change
  <2>3. CASE Attach(d)
    BY <2>1, <2>3 DEF Attach, RomTypeOK
  <2>4. CASE Detach(d)
    BY <2>1, <2>4 DEF Detach, RomTypeOK
  <2> QED
    BY <2>2, <2>3, <2>4
<1>5. CASE UNCHANGED searchVars
  BY <1>5 DEF searchVars, RomTypeOK
<1> QED
  BY <1>1, <1>2, <1>3, <1>4, <1>5, TripletTypes DEF RomNext

-----------------------------------------------------------------------------
(* The passes.                                                             *)

LEMMA RomInvInit == RomInit => RomInv
<1> SUFFICES ASSUME RomInit PROVE RomInv
  OBVIOUS
<1>1. BetweenPasses /\ SearchFindsAll /\ bit = 0
  BY StartState DEF RomInit, BetweenPasses, Branches, SearchFindsAll, SearchRomState
<1> QED
  BY <1>1, RomTypeInit DEF RomInv

LEMMA StartPassKeeps ==
    ASSUME RomInv, StartPass
    PROVE  RomInv'
<1>1. RomTypeOK'
  BY RomTypeStep DEF RomInv, RomNext
<1>2. SearchFindsAll'
  BY DEF StartPass, SearchFindsAll
<1>3. ASSUME ~pulled PROVE BetweenPasses' /\ WithinPass'
  <2>1. BetweenPasses /\ stable \subseteq bus
    BY <1>3 DEF RomInv, RomTypeOK, StartPass
  <2>2. /\ search' = search /\ active' = bus /\ bus # {} /\ bit' = 1
        /\ next'.lastDiscrepancy = 0
        /\ UNCHANGED <<bus, stable, found>>
    BY <2>1, StartState DEF StartPass, BetweenPasses
  <2>3. BetweenPasses'
    BY <2>1, <2>2 DEF BetweenPasses, Branches, Pending
  <2>4. \A d, e : SameBelow(d, e, 1)
    BY RomBitsNat DEF SameBelow, Bits
  <2>5. \A d \in active' : SameBelow(d, next'.romId, bit')
    BY <2>2, <2>4
  <2>6. 1 <= search.lastDiscrepancy => search.romId \in bus /\ Branches(search, bus)
    BY <2>1, RomBitsNat DEF BetweenPasses, RomInv, RomTypeOK, RomStates
  <2> QED
    BY <2>1, <2>2, <2>3, <2>5, <2>6 DEF WithinPass, Branches
<1> QED
  BY <1>1, <1>2, <1>3 DEF RomInv, StartPass

LEMMA TripletKeeps ==
    ASSUME RomInv, Triplet
    PROVE  RomInv'
<1>1. RomTypeOK'
  BY TripletTypes DEF RomInv
<1>2. SearchFindsAll'
  BY DEF Triplet, SearchFindsAll
<1>3. ASSUME ~pulled PROVE BetweenPasses' /\ WithinPass'
  <2> DEFINE b == bit
             w == WriteBit(bit)
             L == search.lastDiscrepancy
             r == search.romId
  <2>1. /\ BetweenPasses /\ WithinPass
        /\ search \in RomStates /\ next \in RomStates /\ active \subseteq Roms
        /\ b \in Bits /\ b \in Int /\ L \in Int /\ next.lastDiscrepancy \in Int
    BY <1>3, RomBitsNat DEF RomInv, RomTypeOK, RomStates, Triplet, Bits
  <2>2. /\ w \in {0, 1}
        /\ \E d \in active : d[b] = w
        /\ \A d \in active : d[b] \in {0, 1}
        /\ \A d \in active : d[b] # w =>
              ~ReadBit(b) /\ ~ReadComplement(b) /\ w = SearchBit(b)
    BY <2>1, WriteBitFacts DEF WithinPass
  <2>3. /\ next'.romId = [next.romId EXCEPT ![b] = w]
        /\ next'.lastDiscrepancy = IF w = 0 /\ ~ReadBit(b) /\ ~ReadComplement(b)
                                   THEN b ELSE next.lastDiscrepancy
        /\ active' = {d \in active : d[b] = w}
        /\ bit' = b + 1
        /\ UNCHANGED <<bus, search, found, stable>>
    BY <2>1 DEF Triplet, RomStates
  <2>4. BetweenPasses'
    BY <2>1, <2>3 DEF BetweenPasses, Branches, Pending
  \* What the bit changes in the identifier of the pass.
  <2>5. /\ next'.romId[b] = w
        /\ \A k \in Bits : k # b => next'.romId[k] = next.romId[k]
    BY <2>1, <2>3 DEF RomStates
  <2>6. \A d \in active' : SameBelow(d, next'.romId, b + 1)
    <3> SUFFICES ASSUME NEW d \in active', NEW k \in Bits, k < b + 1
                 PROVE  d[k] = next'.romId[k]
      BY DEF SameBelow
    <3>1. k < b \/ k = b
      BY <2>1 DEF Bits
    <3> QED
      BY <2>1, <2>3, <2>5, <3>1 DEF WithinPass, SameBelow
  <2>7. ASSUME NEW d, NEW n \in Bits, n < b
        PROVE  /\ Forks(next.romId, d, n) <=> Forks(next'.romId, d, n)
               /\ Forks(d, next.romId, n) <=> Forks(d, next'.romId, n)
    BY <2>1, <2>5, <2>7 DEF Forks, SameBelow, Bits
  <2>8. ASSUME NEW d, Pending(d, next)
        PROVE  Pending(d, next')
    <3>1. PICK n \in Bits : n <= next.lastDiscrepancy /\ Forks(next.romId, d, n)
      BY <2>8 DEF Pending
    <3>2. n < b /\ n <= next'.lastDiscrepancy
      BY <2>1, <2>3, <3>1 DEF WithinPass, Bits
    <3> QED
      BY <2>7, <3>1, <3>2 DEF Pending
  \* A device that is left at this bit when 0 is taken.
  <2>9. ASSUME NEW d \in active, d[b] # w, w = 0
        PROVE  Forks(next'.romId, d, b) /\ next'.lastDiscrepancy = b /\ Pending(d, next')
    <3>1. SameBelow(next'.romId, d, b)
      BY <2>1, <2>5, <2>9 DEF WithinPass, SameBelow, Bits
    <3>2. d[b] = 1 /\ next'.lastDiscrepancy = b
      BY <2>2, <2>3, <2>9
    <3> QED
      BY <2>1, <2>5, <2>9, <3>1, <3>2 DEF Forks, Pending
  <2>10. Branches(next', bus)
    <3>1. CASE w = 0 /\ ~ReadBit(b) /\ ~ReadComplement(b)
      <4>1. PICK d \in active : d[b] # w
        BY <3>1 DEF ReadComplement
      <4>2. d \in bus
        BY DEF RomInv, RomTypeOK
      <4> QED
        BY <2>9, <3>1, <4>1, <4>2 DEF Branches
    <3>2. CASE ~(w = 0 /\ ~ReadBit(b) /\ ~ReadComplement(b))
      <4>1. next'.lastDiscrepancy = next.lastDiscrepancy
        BY <2>3, <3>2
      <4>2. next.lastDiscrepancy > 0 => next.lastDiscrepancy \in Bits /\ next.lastDiscrepancy < b
        BY <2>1 DEF WithinPass, RomStates, Bits
      <4> QED
        BY <2>1, <2>7, <4>1, <4>2 DEF WithinPass, Branches
    <3> QED
      BY <3>1, <3>2
  \* Up to the last discrepancy the identifier of the last pass is the way.
  <2>11. ASSUME b <= L, NEW d \in active, NEW n \in Bits, n <= L, Forks(r, d, n)
         PROVE  n >= b
    BY <2>1, <2>11 DEF WithinPass, Forks, SameBelow, Bits
  <2>12. b < L => r[b] = w
    BY <2>1, <2>2 DEF WithinPass, SearchBit
  <2>13. \A d \in stable \ found : d \in active' \/ Pending(d, next')
    <3> SUFFICES ASSUME NEW d \in stable \ found, d \in active, d[b] # w
                 PROVE  Pending(d, next')
      BY <2>1, <2>3, <2>8 DEF WithinPass
    <3>1. CASE b > L
      BY <2>1, <2>2, <2>9, <3>1 DEF SearchBit
    <3>2. CASE b <= L
      <4>1. PICK n \in Bits : n <= L /\ Forks(r, d, n)
        BY <2>1, <3>2 DEF BetweenPasses, Pending, Bits
      <4>2. n >= b /\ n \in Int
        BY <2>11, <3>2, <4>1 DEF Bits
      <4>3. CASE b = L
        BY <2>1, <2>2, <4>1, <4>2, <4>3 DEF Forks, SearchBit
      <4>4. CASE b < L /\ n = b
        BY <2>9, <2>12, <4>1, <4>4 DEF Forks
      <4>5. CASE b < L /\ n > b
        BY <2>1, <2>12, <4>1, <4>5 DEF Forks, SameBelow
      <4> QED
        BY <2>1, <3>2, <4>2, <4>3, <4>4, <4>5
    <3> QED
      BY <2>1, <3>1, <3>2
  <2>14. b + 1 <= L => r \in active' /\ Branches(search, active')
    <3> SUFFICES ASSUME b + 1 <= L PROVE r \in active' /\ Branches(search, active')
      OBVIOUS
    <3>1. b < L /\ r[b] = w /\ r \in active'
      BY <2>1, <2>3, <2>12 DEF WithinPass
    <3>2. PICK d \in active : Forks(r, d, L)
      BY <2>1, <3>1 DEF WithinPass, Branches, Bits
    <3>3. d[b] = w
      BY <2>1, <3>1, <3>2 DEF Forks, SameBelow
    <3> QED
      BY <2>3, <3>1, <3>2, <3>3 DEF Branches
  <2>15. L \in 1..b => Forks(r, next'.romId, L)
    <3>1. CASE L \in 1..b - 1
      <4>1. L \in Bits /\ L < b
        BY <2>1, <3>1, RomBitsNat DEF Bits
      <4> QED
        BY <2>1, <2>7, <3>1, <4>1 DEF WithinPass
    <3>2. CASE L = b
      <4>1. r \in active /\ SameBelow(r, next'.romId, b)
        BY <2>1, <2>5, <3>2 DEF WithinPass, SameBelow, Bits
      <4>2. PICK d \in active : Forks(r, d, b)
        BY <2>1, <3>2 DEF WithinPass, Branches, Bits
      <4>3. w = 1
        BY <2>2, <3>2, <4>1, <4>2 DEF Forks, SearchBit
      <4> QED
        BY <2>5, <3>2, <4>1, <4>2, <4>3 DEF Forks
    <3> QED
      BY <2>1, <3>1, <3>2
  <2>16. active' # {} /\ next'.lastDiscrepancy < b + 1
    BY <2>1, <2>2, <2>3 DEF WithinPass
  <2> QED
    BY <2>1, <2>3, <2>4, <2>6, <2>10, <2>13, <2>14, <2>15, <2>16 DEF WithinPass
<1> QED
  BY <1>1, <1>2, <1>3 DEF RomInv, Triplet

\* At the end of a pass one device is left, the one whose identifier was read, and
\* it lies behind all that were found before.
LEMMA PassFacts ==
    ASSUME RomInv, EndPass, ~pulled
    PROVE  /\ active = {next.romId}
           /\ \A d \in found : \E n \in Bits : Forks(d, next.romId, n)
<1>1. /\ BetweenPasses /\ WithinPass /\ bit = RomBits + 1
      /\ search \in RomStates /\ next \in RomStates /\ active \subseteq Roms
  BY RomBitsNat DEF RomInv, RomTypeOK, EndPass
<1>2. \A d \in active : d = next.romId
  <2> SUFFICES ASSUME NEW d \in active PROVE d = next.romId
    OBVIOUS
  <2>1. d \in [Bits -> {0, 1}] /\ next.romId \in [Bits -> {0, 1}]
    BY <1>1, RomBitsNat DEF RomStates
  <2>2. \A k \in Bits : d[k] = next.romId[k]
    BY <1>1, RomBitsNat DEF WithinPass, SameBelow, Bits
  <2> QED
    BY <2>1, <2>2
<1>3. ASSUME NEW d \in found
      PROVE  \E n \in Bits : Forks(d, next.romId, n)
  <2>1. search.lastDiscrepancy \in Bits /\ search.lastDiscrepancy \in 1..bit - 1
    BY <1>1, RomBitsNat DEF BetweenPasses, RomStates, Bits
  <2>2. Forks(search.romId, next.romId, search.lastDiscrepancy)
    BY <1>1, <2>1 DEF WithinPass
  <2>3. d = search.romId \/ \E n \in Bits : Forks(d, search.romId, n)
    BY <1>1, <2>1 DEF BetweenPasses, Bits
  <2> QED
    BY <2>1, <2>2, <2>3, ForkBefore
<1> QED
  BY <1>1, <1>2, <1>3 DEF WithinPass

LEMMA EndPassKeeps ==
    ASSUME RomInv, EndPass
    PROVE  RomInv'
<1>1. RomTypeOK'
  BY RomTypeStep DEF RomInv, RomNext
<1>2. ASSUME ~pulled
      PROVE  /\ next.lastDiscrepancy # 0 => BetweenPasses'
             /\ next.lastDiscrepancy = 0 => stable \subseteq found'
  <2>1. /\ WithinPass /\ next \in RomStates
        /\ active = {next.romId} /\ active \subseteq bus
        /\ \A d \in found : \E n \in Bits : Forks(d, next.romId, n)
    BY <1>2, PassFacts, RomBitsNat DEF RomInv, RomTypeOK, EndPass
  <2>2. /\ search'.romId = next.romId /\ search'.lastDiscrepancy = next.lastDiscrepancy
        /\ search'.lastDevice = (next.lastDiscrepancy = 0)
        /\ found' = found \cup {next.romId}
        /\ UNCHANGED <<bus, stable>>
    BY <2>1 DEF EndPass, RomStates
  <2>3. \A d \in stable \ found' : Pending(d, next)
    BY <2>1, <2>2 DEF WithinPass
  <2>4. \A d : Pending(d, next) => Pending(d, search)' /\ next.lastDiscrepancy # 0
    BY <2>1, <2>2, RomBitsNat DEF Pending, RomStates, Bits
  <2>5. Branches(search', bus')
    BY <2>1, <2>2 DEF WithinPass, Branches
  <2> QED
    BY <2>1, <2>2, <2>3, <2>4, <2>5 DEF BetweenPasses, Pending
<1> QED
  BY <1>1, <1>2, RomBitsNat DEF RomInv, EndPass, SearchFindsAll

LEMMA ChangeKeeps ==
    ASSUME RomInv, Change
    PROVE  RomInv'
<1>1. RomTypeOK'
  BY RomTypeStep DEF RomInv, RomNext
<1>2. PICK d \in Roms : Attach(d) \/ Detach(d)
  BY DEF Change
<1>3. CASE Attach(d)
  <2>1. BetweenPasses => BetweenPasses'
    BY <1>3 DEF Attach, BetweenPasses, Branches, Pending
  <2>2. WithinPass => WithinPass'
    BY <1>3 DEF Attach, WithinPass, Branches, Pending
  <2> QED
    BY <1>1, <1>3, <2>1, <2>2 DEF Attach, RomInv, SearchFindsAll
<1>4. CASE Detach(d)
  BY <1>1, <1>4 DEF Detach, RomInv, SearchFindsAll
<1> QED
  BY <1>2, <1>3, <1>4

LEMMA RomInvStep == RomInv /\ [RomNext]_searchVars => RomInv'
<1> SUFFICES ASSUME RomInv, [RomNext]_searchVars PROVE RomInv'
  OBVIOUS
<1>1. CASE SearchError
  <2>1. RomTypeOK'
    BY <1>1, RomTypeStep DEF RomInv, RomNext
  <2> QED
    BY <1>1, <2>1 DEF SearchError, RomInv, SearchFindsAll
<1>2. CASE UNCHANGED searchVars
  <2>1. RomTypeOK'
    BY <1>2, RomTypeStep DEF RomInv
  <2> QED
    BY <1>2, <2>1 DEF searchVars, RomInv, SearchFindsAll, BetweenPasses, WithinPass,
       Branches, Pending
<1> QED
  BY <1>1, <1>2, StartPassKeeps, TripletKeeps, EndPassKeeps, ChangeKeeps DEF RomNext

-----------------------------------------------------------------------------
(* The theorems.                                                           *)

\* What the passes of searchRom (RomCommands.cpp:143-198) keep.
THEOREM SearchInvariant == RomSpec => []RomInv
<1> QED
  BY RomInvInit, RomInvStep, PTL DEF RomSpec

\* Types, for identifiers of any length.
THEOREM SearchTypeCorrect == RomSpec => []RomTypeOK
<1>1. RomInv => RomTypeOK
  BY DEF RomInv
<1> QED
  BY <1>1, SearchInvariant, PTL

\* The search (RomCommands.cpp:143-198, called until lastDevice is set) finds every
\* device that stays on the bus.
THEOREM SearchIsComplete == RomSpec => []SearchFindsAll
<1>1. RomInv => SearchFindsAll
  BY DEF RomInv
<1> QED
  BY <1>1, SearchInvariant, PTL

\* And none twice: the identifiers come in ascending order.
THEOREM SearchRepeatsNone == RomSpec => FoundOnce
<1> DEFINE Once == EndPass /\ ~pulled => next.romId \notin found
<1>1. RomInv => Once
  BY PassFacts DEF Forks
<1>2. RomInv /\ [RomNext]_searchVars => [Once]_searchVars
  BY <1>1
<1> QED
  BY <1>2, SearchInvariant, PTL DEF RomSpec, FoundOnce

-----------------------------------------------------------------------------
(* The list of devices.                                                    *)

Device == [rom : Roms, found : BOOLEAN, last : Nat]

LEMMA OneWireConstants ==
    /\ \A c \in Configurations : c \in Seq(Roms)
    /\ \A d \in Supported : d \in Roms
    /\ \A d \in Roms : IntervalOf[d] \in Nat /\ IntervalOf[d] > 0
    /\ \A t \in ReadTimes : t \in Nat
    /\ \A o \in Delays : o \in Nat
    /\ \A o \in Oversleep : o \in Nat
    /\ \A t \in Uptimes : t \in Nat
BY OneWireAssumption DEF Delays

\* What remains of a list from which one was removed: from place k on, those that
\* follow.  Nothing is missing if k is past the end.
LEMMA RemoveAtIs ==
    ASSUME NEW s \in Seq(Device), NEW k \in 1..Len(s)
    PROVE  /\ RemoveAt(s, k) \in Seq(Device)
           /\ Len(RemoveAt(s, k)) = Len(s) - 1
           /\ \A i \in 1..Len(s) - 1 : RemoveAt(s, k)[i] = s[IF i < k THEN i ELSE i + 1]
<1> DEFINE before == SubSeq(s, 1, k - 1)
           after  == SubSeq(s, k + 1, Len(s))
<1>1. Len(s) \in Nat /\ \A i \in 1..Len(s) : s[i] \in Device
  BY ElementOfSeq, LenProperties
<1>2. /\ before \in Seq(Device) /\ Len(before) = k - 1
      /\ \A i \in 1..k - 1 : before[i] = s[i]
  <2>1. \A i \in 1..k - 1 : s[i] \in Device
    BY <1>1
  <2>2. /\ before \in Seq(Device)
        /\ Len(before) = IF 1 <= k - 1 THEN k - 1 - 1 + 1 ELSE 0
        /\ \A i \in 1..k - 1 - 1 + 1 : before[i] = s[1 + i - 1]
    BY <2>1, SubSeqProperties
  <2> HIDE DEF before
  <2> QED
    BY <1>1, <2>2
<1>3. /\ after \in Seq(Device) /\ Len(after) = Len(s) - k
      /\ \A i \in 1..Len(s) - k : after[i] = s[k + i]
  <2>1. \A i \in k + 1..Len(s) : s[i] \in Device
    BY <1>1
  <2>2. /\ after \in Seq(Device)
        /\ Len(after) = IF k + 1 <= Len(s) THEN Len(s) - (k + 1) + 1 ELSE 0
        /\ \A i \in 1..Len(s) - (k + 1) + 1 : after[i] = s[k + 1 + i - 1]
    BY <1>1, <2>1, SubSeqProperties
  <2> HIDE DEF after
  <2> QED
    BY <1>1, <2>2
<1> HIDE DEF before, after
<1>4. /\ before \o after \in Seq(Device)
      /\ Len(before \o after) = Len(before) + Len(after)
      /\ \A i \in 1..Len(before) + Len(after) :
            (before \o after)[i] = IF i <= Len(before) THEN before[i] ELSE after[i - Len(before)]
  BY <1>2, <1>3, ConcatProperties
<1>5. RemoveAt(s, k) = before \o after
  BY DEF RemoveAt, before, after
<1> HIDE DEF RemoveAt
<1>6. \A i \in 1..Len(s) - 1 :
          (before \o after)[i] = s[IF i < k THEN i ELSE i + 1]
  <2> TAKE i \in 1..Len(s) - 1
  <2>1. CASE i < k
    BY <1>1, <1>2, <1>3, <1>4, <2>1
  <2>2. CASE ~(i < k)
    <3>1. i - (k - 1) \in 1..Len(s) - k /\ k + (i - (k - 1)) = i + 1 /\ ~(i <= k - 1)
      BY <1>1, <2>2
    <3>2. (before \o after)[i] = after[i - (k - 1)]
      BY <1>1, <1>2, <1>3, <1>4, <2>2, <3>1
    <3> QED
      BY <1>3, <2>2, <3>1, <3>2
  <2> QED
    BY <2>1, <2>2
<1>7. Len(before \o after) = Len(s) - 1
  BY <1>1, <1>2, <1>3, <1>4
<1> QED
  BY Zenon, <1>4, <1>5, <1>6, <1>7

\* A set of numbers has a least one.
LEMMA LeastNumber ==
    ASSUME NEW B, B \subseteq Nat, B # {}
    PROVE  \E m \in B : \A k \in B : m <= k
<1> DEFINE T == {0..n : n \in B}
<1>1. T # {} /\ T \subseteq FiniteSubsetsOf(Nat)
  <2>1. \A n \in B : IsFiniteSet(0..n) /\ 0..n \subseteq Nat
    BY FS_Interval
  <2>2. \A n \in B : 0..n \in FiniteSubsetsOf(Nat)
    BY <2>1 DEF FiniteSubsetsOf
  <2> QED
    BY <2>2
<1>2. IsWellFoundedOn(StrictSubsetOrdering(Nat), FiniteSubsetsOf(Nat))
  BY FS_StrictSubsetOrderingWellFounded
<1>3. PICK x \in T : \A y \in T : ~(<<y, x>> \in StrictSubsetOrdering(Nat))
  <2> HIDE DEF T
  <2> QED
    BY <1>1, <1>2, WFMin
<1>4. PICK m \in B : x = 0..m
  BY <1>3
<1>5. ASSUME NEW k \in B, ~(m <= k) PROVE FALSE
  <2>1. 0..k \subseteq 0..m /\ 0..k # 0..m
    BY <1>5
  <2>2. <<0..k, 0..m>> \in StrictSubsetOrdering(Nat)
    BY <2>1 DEF StrictSubsetOrdering
  <2>3. 0..k \in T
    OBVIOUS
  <2> QED
    BY <1>3, <1>4, <2>2, <2>3
<1> QED
  BY <1>4, <1>5

\* find_if gives the place of a device with the identifier, or says there is none.
LEMMA FindIfFinds ==
    ASSUME NEW s \in Seq(Device), NEW rom
    PROVE  \/ FindIf(s, rom) = 0 /\ \A i \in 1..Len(s) : s[i].rom # rom
           \/ FindIf(s, rom) \in 1..Len(s) /\ s[FindIf(s, rom)].rom = rom
<1> DEFINE places == {i \in 1..Len(s) : s[i].rom = rom}
<1>1. FindIf(s, rom) = IF places # {} THEN Min(places) ELSE 0
  BY DEF FindIf, SelectInSeq
<1>2. CASE places = {}
  BY <1>1, <1>2
<1>3. CASE places # {}
  <2>1. places \subseteq Nat
    OBVIOUS
  <2>2. \E m \in places : \A k \in places : m <= k
    BY <1>3, <2>1, LeastNumber
  <2>3. Min(places) \in places
    BY <2>2 DEF Min
  <2> QED
    BY <1>1, <1>3, <2>3
<1> QED
  BY <1>2, <1>3

\* Of functions on 1..n one value is the least.
LEMMA LeastValue ==
    ASSUME NEW n \in Nat \ {0}, NEW f \in [1..n -> Int]
    PROVE  \E i \in 1..n : \A j \in 1..n : f[i] <= f[j]
<1> DEFINE Least(i, k) == \A j \in 1..k : f[i] <= f[j]
           B == {k \in 1..n : \A i \in 1..k : ~Least(i, k)}
<1>1. \A j \in 1..n : f[j] \in Int
  OBVIOUS
<1>2. ASSUME B # {} PROVE FALSE
  <2>1. B \subseteq Nat
    OBVIOUS
  <2>2. PICK k \in B : \A j \in B : k <= j
    <3> HIDE DEF B
    <3> QED
      BY <1>2, <2>1, LeastNumber
  <2>3. k \in 1..n /\ \A i \in 1..k : ~Least(i, k)
    BY <2>2
  <2>4. k # 1
    <3>1. f[1] \in Int
      BY <1>1
    <3>2. Least(1, 1)
      BY <3>1
    <3> QED
      BY <2>3, <3>2
  <2>5. k - 1 \in 1..n /\ ~(k <= k - 1)
    BY <2>3, <2>4
  <2>6. PICK i \in 1..k - 1 : Least(i, k - 1)
    BY <2>2, <2>5
  <2>7. i \in 1..k /\ i \in 1..n /\ k \in 1..k /\ f[i] \in Int /\ f[k] \in Int
    BY <1>1, <2>3, <2>6
  <2>8. \A j \in 1..k : j \in 1..n /\ f[j] \in Int /\ (j \in 1..k - 1 \/ j = k)
    BY <1>1, <2>3
  <2>9. CASE f[i] <= f[k]
    <3>1. Least(i, k)
      BY <2>6, <2>8, <2>9
    <3> QED
      BY <2>3, <2>7, <3>1
  <2>10. CASE f[k] <= f[i]
    <3>1. Least(k, k)
      BY <2>6, <2>7, <2>8, <2>10
    <3> QED
      BY <2>3, <2>7, <3>1
  <2> QED
    BY <2>7, <2>9, <2>10
<1>3. n \in 1..n /\ n \notin B
  <2> HIDE DEF B
  <2> QED
    BY <1>2
<1>4. \E i \in 1..n : Least(i, n)
  <2> HIDE DEF Least
  <2> QED
    BY Zenon, <1>3
<1> QED
  BY <1>4

\* Marking a place changes nothing else.
LEMMA MarkFoundIs ==
    ASSUME NEW s \in Seq(Device), NEW k
    PROVE  /\ MarkFound(s, k) \in Seq(Device)
           /\ Len(MarkFound(s, k)) = Len(s)
           /\ \A i \in 1..Len(s) :
                 /\ MarkFound(s, k)[i].rom = s[i].rom
                 /\ MarkFound(s, k)[i].last = s[i].last
                 /\ MarkFound(s, k)[i].found = (s[i].found \/ i = k)
<1>1. DOMAIN s = 1..Len(s) /\ \A i \in 1..Len(s) : s[i] \in Device
  BY LenProperties, ElementOfSeq
<1>2. CASE k \notin 1..Len(s)
  <2>1. MarkFound(s, k) = s
    BY <1>1, <1>2 DEF MarkFound
  <2>2. \A i \in 1..Len(s) : s[i].found \in BOOLEAN
    BY <1>1 DEF Device
  <2> QED
    BY <1>2, <2>1, <2>2
<1>3. CASE k \in 1..Len(s)
  <2> DEFINE e == [s[k] EXCEPT !.found = TRUE]
  <2>1. MarkFound(s, k) = [s EXCEPT ![k] = e]
    BY <1>1, <1>3 DEF MarkFound
  <2>2. e \in Device /\ e.rom = s[k].rom /\ e.last = s[k].last /\ e.found = TRUE
    BY <1>1, <1>3 DEF Device
  <2> HIDE DEF e
  <2>3. /\ [s EXCEPT ![k] = e] \in Seq(Device) /\ Len([s EXCEPT ![k] = e]) = Len(s)
        /\ \A i \in 1..Len(s) : [s EXCEPT ![k] = e][i] = IF i = k THEN e ELSE s[i]
    BY <1>3, <2>2, ExceptSeq
  <2>4. \A i \in 1..Len(s) : s[i].found \in BOOLEAN
    BY <1>1 DEF Device
  <2> QED
    BY <2>1, <2>2, <2>3, <2>4
<1> QED
  BY <1>2, <1>3

\* One list is another, from which at most one device is missing.
Thinned(s, t) ==
    \E k \in Nat : \A i \in 1..Len(t) :
        LET j == IF i < k THEN i ELSE i + 1
        IN j \in 1..Len(s) /\ t[i].rom = s[j].rom /\ t[i].last = s[j].last

\* What a reported identifier does to the list: what is supported stays and is
\* marked, and nothing is marked that was not reported.
LEMMA Reported ==
    ASSUME NEW s \in Seq(Device), NEW rom
    PROVE  LET t == ProcessRomDevice(s, rom)
           IN  /\ t \in Seq(Device) /\ Thinned(s, t)
               /\ \A r \in Supported, i \in 1..Len(s) : s[i].rom = r =>
                     \E j \in 1..Len(t) : t[j].rom = r /\ (s[i].found => t[j].found)
               /\ \A i \in 1..Len(s) : rom \in Supported /\ s[i].rom = rom =>
                     \E j \in 1..Len(t) : t[j].rom = rom /\ t[j].found
               /\ (\A i \in 1..Len(s) : s[i].rom \in Supported) =>
                     /\ Len(t) = Len(s)
                     /\ \A i \in 1..Len(s) :
                           /\ t[i].rom = s[i].rom
                           /\ t[i].found => s[i].found \/ s[i].rom = rom
                           /\ s[i].found => t[i].found
<1> DEFINE t == ProcessRomDevice(s, rom)
           f == FindIf(s, rom)
<1>1. Len(s) \in Nat /\ \A i \in 1..Len(s) : s[i].found \in BOOLEAN
  <2>1. \A i \in 1..Len(s) : s[i] \in Device
    BY ElementOfSeq
  <2> QED
    BY <2>1, LenProperties DEF Device
<1>2. \/ f = 0 /\ \A i \in 1..Len(s) : s[i].rom # rom
      \/ f \in 1..Len(s) /\ s[f].rom = rom
  BY FindIfFinds
<1>3. t = IF f = 0 THEN s
          ELSE IF rom \in Supported THEN MarkFound(s, f)
          ELSE MarkFound(RemoveAt(s, f), f)
  BY Zenon DEF ProcessRomDevice
<1> HIDE DEF t, f
<1>4. CASE f = 0
  <2>1. t = s /\ \A i \in 1..Len(s) : s[i].rom # rom
    BY <1>1, <1>2, <1>3, <1>4
  <2>2. Thinned(s, s)
    <3>1. Len(s) + 1 \in Nat /\ \A i \in 1..Len(s) : i < Len(s) + 1
      BY <1>1
    <3> QED
      BY <3>1 DEF Thinned
  <2> QED
    BY <2>1, <2>2 DEF t
<1>5. CASE f # 0 /\ rom \in Supported
  <2>1. t = MarkFound(s, f) /\ f \in 1..Len(s) /\ s[f].rom = rom
    BY <1>2, <1>3, <1>5
  <2>2. /\ t \in Seq(Device) /\ Len(t) = Len(s)
        /\ \A i \in 1..Len(s) : /\ t[i].rom = s[i].rom /\ t[i].last = s[i].last
                                /\ t[i].found = (s[i].found \/ i = f)
    BY <2>1, MarkFoundIs
  <2>3. Thinned(s, t)
    <3>1. Len(s) + 1 \in Nat /\ \A i \in 1..Len(s) : i < Len(s) + 1
      BY <1>1
    <3> QED
      BY <2>2, <3>1 DEF Thinned
  <2>4. t[f].rom = rom /\ t[f].found
    BY <2>1, <2>2
  <2>5. \A i \in 1..Len(s) : /\ t[i].found => s[i].found \/ s[i].rom = rom
                             /\ s[i].found => t[i].found
    BY <1>1, <2>1, <2>2
  <2> QED
    BY <1>1, <2>1, <2>2, <2>3, <2>4, <2>5 DEF t
<1>6. CASE f # 0 /\ rom \notin Supported
  <2> DEFINE r == RemoveAt(s, f)
  <2>1. t = MarkFound(r, f) /\ f \in 1..Len(s) /\ s[f].rom = rom
    BY <1>2, <1>3, <1>6
  <2>2. /\ r \in Seq(Device) /\ Len(r) = Len(s) - 1
        /\ \A i \in 1..Len(s) - 1 : r[i] = s[IF i < f THEN i ELSE i + 1]
    BY <2>1, RemoveAtIs
  <2> HIDE DEF r
  <2>3. /\ t \in Seq(Device) /\ Len(t) = Len(s) - 1
        /\ \A i \in 1..Len(s) - 1 : /\ t[i].rom = r[i].rom /\ t[i].last = r[i].last
                                    /\ t[i].found = (r[i].found \/ i = f)
    <3>1. /\ t \in Seq(Device) /\ Len(t) = Len(r)
          /\ \A i \in 1..Len(r) : /\ t[i].rom = r[i].rom /\ t[i].last = r[i].last
                                  /\ t[i].found = (r[i].found \/ i = f)
      <4> DEFINE marked == MarkFound(r, f)
      <4>1. /\ marked \in Seq(Device) /\ Len(marked) = Len(r)
            /\ \A i \in 1..Len(r) : /\ marked[i].rom = r[i].rom /\ marked[i].last = r[i].last
                                    /\ marked[i].found = (r[i].found \/ i = f)
        BY <2>2, MarkFoundIs
      <4>2. t = marked
        BY <2>1
      <4> QED
        BY Zenon, <4>1, <4>2
    <3> QED
      BY Zenon, <2>2, <3>1
  <2>4. Thinned(s, t)
    <3>1. \A i \in 1..Len(t) :
             LET j == IF i < f THEN i ELSE i + 1
             IN j \in 1..Len(s) /\ t[i].rom = s[j].rom /\ t[i].last = s[j].last
      BY <1>1, <2>1, <2>2, <2>3
    <3>2. f \in Nat
      BY <1>1, <2>1
    <3> QED
      BY Zenon, <3>1, <3>2 DEF Thinned
  <2>5. ASSUME NEW i \in 1..Len(s), s[i].rom \in Supported
        PROVE  \E j \in 1..Len(t) : t[j].rom = s[i].rom /\ (s[i].found => t[j].found)
    <3>1. i # f
      BY <1>6, <2>1, <2>5
    <3> DEFINE j == IF i < f THEN i ELSE i - 1
    <3>2. j \in 1..Len(s) - 1 /\ (IF j < f THEN j ELSE j + 1) = i
      BY <1>1, <2>1, <3>1
    <3>3. r[j] = s[i]
      BY <2>2, <3>2
    <3> HIDE DEF j
    <3>4. t[j].rom = s[i].rom /\ t[j].found = (s[i].found \/ j = f)
      BY <2>3, <3>2, <3>3
    <3> QED
      BY <1>1, <2>3, <3>2, <3>4
  <2>6. \A q \in Supported, i \in 1..Len(s) : s[i].rom = q =>
            \E j \in 1..Len(t) : t[j].rom = q /\ (s[i].found => t[j].found)
    BY <2>5
  <2>7. ~(\A i \in 1..Len(s) : s[i].rom \in Supported)
    BY <1>6, <2>1
  <2> QED
    BY Zenon, <1>6, <2>3, <2>4, <2>6, <2>7 DEF t
<1> QED
  BY <1>4, <1>5, <1>6

-----------------------------------------------------------------------------
(* The invariant of the loops.                                             *)

LEMMA OneWireInvInit == OneWireInit => OneWireInv
<1> SUFFICES ASSUME OneWireInit PROVE OneWireInv
  OBVIOUS
<1>1. RomInv
  BY RomInvInit DEF OneWireInit
<1>2. configured \in Seq(Roms) /\ DOMAIN configured = 1..Len(configured) /\ Len(configured) \in Nat
  <2>1. configured \in Seq(Roms)
    BY OneWireConstants DEF OneWireInit
  <2> QED
    BY <2>1, LenProperties
<1>3. \A i \in 1..Len(configured) : configured[i] \in Roms
  BY <1>2, ElementOfSeq
<1>4. devices = [i \in 1..Len(configured) |->
                   [rom |-> configured[i], found |-> FALSE, last |-> 0]]
  BY <1>2 DEF OneWireInit
<1>5. devices \in [1..Len(configured) -> Device]
  BY <1>3, <1>4 DEF Device
<1>6. devices \in Seq(Device)
  BY <1>2, <1>5, SeqDef
<1>7. DOMAIN devices = 1..Len(configured) /\ Len(devices) = Len(configured)
  <2>1. DOMAIN devices = 1..Len(configured)
    BY <1>4
  <2>2. DOMAIN devices = 1..Len(devices) /\ Len(devices) \in Nat
    BY <1>6, LenProperties
  <2> QED
    BY <1>2, <2>1, <2>2
<1>8. \A i \in 1..Len(configured) :
          devices[i].rom = configured[i] /\ devices[i].found = FALSE /\ devices[i].last = 0
  BY <1>4
<1>9. /\ owPhase = "search" /\ pos = 1 /\ owClock \in Uptimes /\ owNow = owClock
      /\ readAt = [d \in Roms |-> -1] /\ found = {} /\ configured \in Configurations
  BY DEF OneWireInit, RomInit
<1>10. OneWireTypeOK
  BY <1>6, <1>9, OneWireConstants DEF OneWireTypeOK, Device
<1>11. NothingRead /\ WaitsInTime
  BY <1>7, <1>8, <1>9 DEF NothingRead, WaitsInTime
<1>12. FoundIsMarked
  BY <1>2, <1>7, <1>8, <1>9 DEF FoundIsMarked, InConfiguration
<1>13. LastIsRead
  <2> SUFFICES ASSUME NEW i \in 1..Len(configured), NamedOnce(devices[i].rom)
               PROVE  /\ \A j \in 1..Len(configured) : devices[j].rom = devices[i].rom => i = j
                      /\ readAt[devices[i].rom] = -1
    BY <1>7 DEF LastIsRead
  <2>1. NamedOnce(configured[i])
    BY <1>8
  <2>2. \A j \in 1..Len(configured) : configured[j] = configured[i] => i = j
    BY <1>2, <2>1 DEF NamedOnce
  <2>3. readAt[configured[i]] = -1
    BY <1>3, <1>9
  <2> QED
    BY <1>8, <2>2, <2>3
<1>14. RemovesOne
  <2>1. AsConfigured
    <3>1. \A i \in 1..Len(configured) : devices[i].found = (configured[i] \in found)
      <4>1. \A i \in 1..Len(configured) : (configured[i] \in found) = FALSE
        BY <1>9
      <4> QED
        BY Zenon, <1>8, <4>1
    <3> QED
      BY Zenon, <1>2, <1>7, <1>8, <3>1 DEF AsConfigured
  <2> QED
    BY <1>9, <2>1 DEF RemovesOne, PlainConfiguration
<1> QED
  BY <1>1, <1>10, <1>11, <1>12, <1>13, <1>14 DEF OneWireInv

LEMMA OneWireParts ==
    ASSUME OneWireInv
    PROVE  /\ devices \in Seq(Device) /\ DOMAIN devices = 1..Len(devices) /\ Len(devices) \in Nat
           /\ \A i \in 1..Len(devices) : /\ devices[i] \in Device /\ devices[i].rom \in Roms
                                         /\ devices[i].found \in BOOLEAN /\ devices[i].last \in Nat
           /\ configured \in Configurations
           /\ DOMAIN configured = 1..Len(configured) /\ Len(configured) \in Nat
           /\ pos \in Nat /\ pos > 0 /\ owClock \in Nat /\ owNow = owClock
           /\ readAt \in [Roms -> Nat \cup {-1}]
           /\ owPhase \in {"search", "remove", "poll", "stopped", "crashed"}
<1>1. /\ devices \in Seq(Device) /\ configured \in Configurations
      /\ pos \in Nat /\ pos > 0 /\ owClock \in Nat /\ owNow = owClock
      /\ readAt \in [Roms -> Nat \cup {-1}]
      /\ owPhase \in {"search", "remove", "poll", "stopped", "crashed"}
  BY DEF OneWireInv, OneWireTypeOK, Device
<1>2. DOMAIN devices = 1..Len(devices) /\ Len(devices) \in Nat
  BY <1>1, LenProperties
<1>3. \A i \in 1..Len(devices) : devices[i] \in Device
  BY <1>1, ElementOfSeq
<1>4. DOMAIN configured = 1..Len(configured) /\ Len(configured) \in Nat
  <2>1. configured \in Seq(Roms)
    BY <1>1, OneWireConstants
  <2> QED
    BY <2>1, LenProperties
<1>5. \A i \in 1..Len(devices) : /\ devices[i].rom \in Roms
                                 /\ devices[i].found \in BOOLEAN /\ devices[i].last \in Nat
  BY <1>3 DEF Device
<1> QED
  BY <1>1, <1>2, <1>3, <1>4, <1>5

\* Every step is one of the search or leaves it alone.
LEMMA OneWireSearches == OneWireNext \/ UNCHANGED OneWireVars => [RomNext]_searchVars
BY DEF OneWireNext, OneWireVars, Searching, PassReported, SearchOver, RemoveTurn, RemovalOver,
   ReadDevice, SkipDevice, Sleep, RomNext

\* Only the end of a pass reports anything.
LEMMA FoundIsKept ==
    ASSUME [RomNext]_searchVars, ~EndPass
    PROVE  found' = found
BY DEF RomNext, StartPass, Triplet, SearchError, Change, Attach, Detach, searchVars

\* While one is looked for in a thinned list: what is named once is in it once, with
\* the time it had.
LEMMA ThinnedKeeps ==
    ASSUME OneWireInv, devices' \in Seq(Device), Thinned(devices, devices'),
           UNCHANGED <<configured, readAt>>
    PROVE  /\ LastIsRead'
           /\ (\A i \in DOMAIN devices : devices[i].last = 0)
                  => \A i \in DOMAIN devices' : devices'[i].last = 0
<1>1. DOMAIN devices' = 1..Len(devices') /\ Len(devices') \in Nat
  BY LenProperties
<1>2. DOMAIN devices = 1..Len(devices) /\ Len(devices) \in Nat
  BY OneWireParts
<1>3. PICK k \in Nat : \A i \in 1..Len(devices') :
          LET j == IF i < k THEN i ELSE i + 1
          IN /\ j \in 1..Len(devices) /\ devices'[i].rom = devices[j].rom
             /\ devices'[i].last = devices[j].last
  BY DEF Thinned
<1> DEFINE was(i) == IF i < k THEN i ELSE i + 1
<1>4. \A i \in 1..Len(devices') :
          /\ was(i) \in DOMAIN devices /\ devices'[i].rom = devices[was(i)].rom
          /\ devices'[i].last = devices[was(i)].last
  BY <1>2, <1>3
<1>5. \A i, j \in 1..Len(devices') : was(i) = was(j) => i = j
  BY <1>1
<1> HIDE DEF was
<1>6. LastIsRead'
  <2> SUFFICES ASSUME NEW i \in DOMAIN devices', NamedOnce(devices'[i].rom)
               PROVE  /\ \A j \in DOMAIN devices' : devices'[j].rom = devices'[i].rom => i = j
                      /\ readAt[devices'[i].rom] # -1
                             => devices'[i].last = readAt[devices'[i].rom]
    BY DEF LastIsRead, NamedOnce
  <2>1. NamedOnce(devices[was(i)].rom) /\ was(i) \in DOMAIN devices
    BY <1>1, <1>4
  <2>2. /\ \A j \in DOMAIN devices : devices[j].rom = devices[was(i)].rom => was(i) = j
        /\ readAt[devices[was(i)].rom] # -1
               => devices[was(i)].last = readAt[devices[was(i)].rom]
    BY <2>1 DEF OneWireInv, LastIsRead
  <2> QED
    BY <1>1, <1>4, <1>5, <2>2
<1> QED
  BY <1>1, <1>4, <1>6

\* The steps that leave the list and what is found alone.
LEMMA SameList ==
    ASSUME OneWireInv, UNCHANGED <<devices, found, configured, readAt>>,
           owPhase' = "search" => owPhase = "search"
    PROVE  LastIsRead' /\ FoundIsMarked'
BY DEF OneWireInv, LastIsRead, NamedOnce, FoundIsMarked, InConfiguration

LEMMA SearchingKeeps ==
    ASSUME OneWireInv, RomInv', UNCHANGED owVars, found' = found
    PROVE  OneWireInv'
<1>1. OneWireTypeOK' /\ NothingRead'
  BY DEF OneWireInv, owVars, OneWireTypeOK, NothingRead
<1>2. LastIsRead' /\ FoundIsMarked'
  BY SameList DEF owVars
<1>3. RemovesOne'
  BY DEF OneWireInv, owVars, RemovesOne, PlainConfiguration, InConfiguration, NamedOnce, OnlyMissing, AsConfigured,
     Without
<1>4. WaitsInTime'
  BY DEF OneWireInv, owVars, WaitsInTime, Age, Turns
<1> QED
  BY <1>1, <1>2, <1>3, <1>4 DEF OneWireInv

LEMMA PassReportedKeeps ==
    ASSUME OneWireInv, RomInv', PassReported
    PROVE  OneWireInv'
<1> DEFINE rom == next.romId
<1>1. /\ owPhase = "search" /\ found' = found \cup {rom}
      /\ devices' = ProcessRomDevice(devices, rom)
      /\ UNCHANGED <<owPhase, pos, owNow, owClock, configured, readAt>>
  BY DEF PassReported, EndPass
<1> HIDE DEF rom
<1>2. /\ devices \in Seq(Device) /\ DOMAIN devices = 1..Len(devices)
      /\ DOMAIN configured = 1..Len(configured)
  BY OneWireParts
<1>3. /\ devices' \in Seq(Device) /\ Thinned(devices, devices')
      /\ \A r \in Supported, i \in 1..Len(devices) : devices[i].rom = r =>
            \E j \in 1..Len(devices') : devices'[j].rom = r /\ (devices[i].found => devices'[j].found)
      /\ \A i \in 1..Len(devices) : rom \in Supported /\ devices[i].rom = rom =>
            \E j \in 1..Len(devices') : devices'[j].rom = rom /\ devices'[j].found
      /\ (\A i \in 1..Len(devices) : devices[i].rom \in Supported) =>
            /\ Len(devices') = Len(devices)
            /\ \A i \in 1..Len(devices) :
                  /\ devices'[i].rom = devices[i].rom
                  /\ devices'[i].found => devices[i].found \/ devices[i].rom = rom
                  /\ devices[i].found => devices'[i].found
  <2> DEFINE t == ProcessRomDevice(devices, rom)
  <2>1. /\ t \in Seq(Device) /\ Thinned(devices, t)
        /\ \A r \in Supported, i \in 1..Len(devices) : devices[i].rom = r =>
              \E j \in 1..Len(t) : t[j].rom = r /\ (devices[i].found => t[j].found)
        /\ \A i \in 1..Len(devices) : rom \in Supported /\ devices[i].rom = rom =>
              \E j \in 1..Len(t) : t[j].rom = rom /\ t[j].found
        /\ (\A i \in 1..Len(devices) : devices[i].rom \in Supported) =>
              /\ Len(t) = Len(devices)
              /\ \A i \in 1..Len(devices) :
                    /\ t[i].rom = devices[i].rom
                    /\ t[i].found => devices[i].found \/ devices[i].rom = rom
                    /\ devices[i].found => t[i].found
    BY Zenon, <1>2, Reported
  <2>2. devices' = t
    BY <1>1
  <2> QED
    BY Zenon, <2>1, <2>2
<1>4. DOMAIN devices' = 1..Len(devices')
  BY <1>3, LenProperties
<1>5. OneWireTypeOK'
  BY <1>1, <1>3 DEF OneWireInv, OneWireTypeOK, Device
<1>6. LastIsRead' /\ NothingRead'
  BY <1>1, <1>3, ThinnedKeeps DEF OneWireInv, NothingRead
<1>7. FoundIsMarked'
  <2> SUFFICES ASSUME NEW r \in Supported \cap InConfiguration
               PROVE  /\ \E i \in DOMAIN devices' : devices'[i].rom = r
                      /\ r \in found' =>
                            \E i \in DOMAIN devices' : devices'[i].rom = r /\ devices'[i].found
    BY <1>1 DEF FoundIsMarked, InConfiguration
  <2>1. /\ \E i \in 1..Len(devices) : devices[i].rom = r
        /\ r \in found => \E i \in 1..Len(devices) : devices[i].rom = r /\ devices[i].found
    BY <1>1, <1>2 DEF OneWireInv, FoundIsMarked
  <2>2. r = rom => \E i \in 1..Len(devices') : devices'[i].rom = r /\ devices'[i].found
    <3> SUFFICES ASSUME r = rom
                 PROVE  \E i \in 1..Len(devices') : devices'[i].rom = r /\ devices'[i].found
      OBVIOUS
    <3>1. PICK i \in 1..Len(devices) : devices[i].rom = rom
      BY <2>1
    <3>2. rom \in Supported
      OBVIOUS
    <3> QED
      BY Zenon, <1>3, <3>1, <3>2
  <2>3. r \in found => \E i \in 1..Len(devices') : devices'[i].rom = r /\ devices'[i].found
    BY Zenon, <1>3, <2>1
  <2>4. \E i \in 1..Len(devices') : devices'[i].rom = r
    BY Zenon, <1>3, <2>1
  <2> QED
    BY <1>1, <1>4, <2>2, <2>3, <2>4
<1>8. RemovesOne'
  <2> SUFFICES ASSUME InConfiguration \subseteq Supported, \A r \in InConfiguration : NamedOnce(r)
               PROVE  AsConfigured' /\ pos = 1
    <3>1. InConfiguration' = InConfiguration /\ \A r : NamedOnce(r)' = NamedOnce(r)
      BY <1>1 DEF InConfiguration, NamedOnce
    <3> QED
      BY <1>1, <3>1 DEF RemovesOne, PlainConfiguration
  <2>1. AsConfigured /\ pos = 1
    BY <1>1 DEF OneWireInv, RemovesOne, PlainConfiguration
  <2>2. /\ Len(devices) = Len(configured)
        /\ \A i \in 1..Len(configured) :
              /\ devices[i].rom = configured[i] /\ configured[i] \in Supported
              /\ devices[i].found = (configured[i] \in found)
    BY <1>2, <2>1 DEF AsConfigured, InConfiguration
  <2>3. /\ Len(devices') = Len(configured)
        /\ \A i \in 1..Len(configured) :
              /\ devices'[i].rom = configured[i]
              /\ devices'[i].found => devices[i].found \/ configured[i] = rom
              /\ devices[i].found => devices'[i].found
    BY <1>3, <2>2
  <2>4. ASSUME NEW i \in 1..Len(configured), configured[i] = rom PROVE devices'[i].found
    <3>1. PICK j \in 1..Len(configured) : devices'[j].rom = rom /\ devices'[j].found
      BY <1>3, <2>2, <2>3, <2>4
    <3>2. configured[j] = configured[i] /\ NamedOnce(configured[i])
      BY <1>2, <2>3, <2>4, <3>1 DEF InConfiguration
    <3>3. i = j
      BY <1>2, <3>2 DEF NamedOnce
    <3> QED
      BY <3>1, <3>3
  <2>5. \A i \in 1..Len(configured) : devices'[i].found \in BOOLEAN
    <3>1. \A i \in 1..Len(devices') : devices'[i] \in Device
      BY <1>3, ElementOfSeq
    <3> QED
      BY <2>3, <3>1 DEF Device
  <2>6. \A i \in 1..Len(configured) :
           devices'[i].found = (configured[i] \in found \/ configured[i] = rom)
    BY <2>2, <2>3, <2>4, <2>5
  <2>7. AsConfigured'
    BY <1>1, <1>2, <2>3, <2>6 DEF AsConfigured
  <2> QED
    BY <2>1, <2>7
<1>9. WaitsInTime'
  BY <1>1 DEF WaitsInTime
<1> QED
  BY <1>5, <1>6, <1>7, <1>8, <1>9 DEF OneWireInv

LEMMA SearchOverKeeps ==
    ASSUME OneWireInv, RomInv', SearchOver
    PROVE  OneWireInv'
<1>1. /\ owPhase = "search" /\ owPhase' = "remove"
      /\ UNCHANGED <<devices, pos, owNow, owClock, configured, readAt, found>>
  BY DEF SearchOver, searchVars
<1>2. OneWireTypeOK' /\ NothingRead' /\ WaitsInTime'
  BY <1>1 DEF OneWireInv, OneWireTypeOK, NothingRead, WaitsInTime
<1>3. LastIsRead' /\ FoundIsMarked'
  BY <1>1, SameList
<1>4. RemovesOne'
  <2> SUFFICES ASSUME InConfiguration \subseteq Supported, \A r \in InConfiguration : NamedOnce(r),
                      NEW m \in DOMAIN configured
               PROVE  pos <= m /\ AsConfigured'
    BY <1>1 DEF RemovesOne, PlainConfiguration, InConfiguration, NamedOnce
  <2>1. AsConfigured /\ pos = 1
    BY <1>1 DEF OneWireInv, RemovesOne, PlainConfiguration
  <2> QED
    BY <1>1, <2>1, OneWireParts DEF AsConfigured
<1> QED
  BY <1>2, <1>3, <1>4 DEF OneWireInv

-----------------------------------------------------------------------------
(* The removal loop.                                                       *)

\* Who is named, and once, does not change; nor does what is found, any more.
LEMMA NamesAreKept ==
    ASSUME UNCHANGED configured
    PROVE  /\ InConfiguration' = InConfiguration
           /\ \A r : NamedOnce(r)' = NamedOnce(r)
           /\ found' = found => \A m : OnlyMissing(m)' = OnlyMissing(m)
BY DEF InConfiguration, NamedOnce, OnlyMissing

LEMMA RemoveTurnKeeps ==
    ASSUME OneWireInv, RomInv', RemoveTurn
    PROVE  OneWireInv'
<1>1. /\ owPhase = "remove" /\ pos \in 1..Len(devices)
      /\ devices' = IF devices[pos].found THEN devices ELSE RemoveAt(devices, pos)
      /\ pos' = pos + 1 /\ pos' \in Nat
      /\ owPhase' = IF pos + 1 > Len(devices') + 1 THEN "crashed" ELSE "remove"
      /\ UNCHANGED <<owNow, owClock, configured, readAt, found>>
  BY OneWireParts DEF RemoveTurn, searchVars
<1>2. /\ devices \in Seq(Device) /\ DOMAIN devices = 1..Len(devices) /\ Len(devices) \in Nat
      /\ DOMAIN configured = 1..Len(configured) /\ Len(configured) \in Nat
  BY OneWireParts
<1>3. ~devices[pos].found =>
        /\ devices' \in Seq(Device) /\ Len(devices') = Len(devices) - 1
        /\ \A i \in 1..Len(devices) - 1 : devices'[i] = devices[IF i < pos THEN i ELSE i + 1]
  <2>1. /\ RemoveAt(devices, pos) \in Seq(Device) /\ Len(RemoveAt(devices, pos)) = Len(devices) - 1
        /\ \A i \in 1..Len(devices) - 1 :
              RemoveAt(devices, pos)[i] = devices[IF i < pos THEN i ELSE i + 1]
    BY <1>1, <1>2, RemoveAtIs
  <2>2. ~devices[pos].found => devices' = RemoveAt(devices, pos)
    BY <1>1
  <2> QED
    BY Zenon, <2>1, <2>2
<1>4. devices[pos].found => devices' = devices
  BY <1>1
<1> HIDE DEF RemoveAt
<1>5. devices' \in Seq(Device) /\ DOMAIN devices' = 1..Len(devices') /\ Len(devices') \in Nat
  <2>1. devices' \in Seq(Device)
    BY <1>2, <1>3, <1>4
  <2> QED
    BY <2>1, LenProperties
<1>6. Thinned(devices, devices')
  <2>1. CASE devices[pos].found
    <3>1. /\ Len(devices) + 1 \in Nat /\ \A i \in 1..Len(devices) : i < Len(devices) + 1
      BY <1>2
    <3> QED
      BY <1>4, <2>1, <3>1 DEF Thinned
  <2>2. CASE ~devices[pos].found
    <3>1. \A i \in 1..Len(devices') :
             LET j == IF i < pos THEN i ELSE i + 1
             IN /\ j \in 1..Len(devices) /\ devices'[i].rom = devices[j].rom
                /\ devices'[i].last = devices[j].last
      <4> TAKE i \in 1..Len(devices')
      <4>1. pos \in 1..Len(devices) /\ Len(devices') = Len(devices) - 1
        BY <1>1, <1>3, <2>2
      <4>2. i \in 1..Len(devices) - 1 /\ (IF i < pos THEN i ELSE i + 1) \in 1..Len(devices)
        BY <1>2, <4>1
      <4>3. devices'[i] = devices[IF i < pos THEN i ELSE i + 1]
        BY <1>3, <2>2, <4>2
      <4> QED
        BY <4>2, <4>3
    <3>2. pos \in Nat
      BY OneWireParts
    <3> QED
      BY Zenon, <3>1, <3>2 DEF Thinned
  <2> QED
    BY <2>1, <2>2
<1>7. OneWireTypeOK'
  BY <1>1, <1>5 DEF OneWireInv, OneWireTypeOK, Device
<1>8. LastIsRead' /\ NothingRead'
  BY <1>1, <1>5, <1>6, ThinnedKeeps DEF OneWireInv, NothingRead
<1>9. FoundIsMarked'
  <2> SUFFICES ASSUME NEW r \in Supported \cap InConfiguration, r \in found
               PROVE  \E i \in 1..Len(devices') : devices'[i].rom = r /\ devices'[i].found
    BY <1>1, <1>5, NamesAreKept DEF FoundIsMarked
  <2>1. PICK i \in 1..Len(devices) : devices[i].rom = r /\ devices[i].found
    BY <1>2 DEF OneWireInv, FoundIsMarked
  <2>2. CASE devices[pos].found
    BY <1>4, <2>1, <2>2
  <2>3. CASE ~devices[pos].found
    <3> DEFINE j == IF i < pos THEN i ELSE i - 1
    <3>1. i # pos
      BY <2>1, <2>3
    <3>2. j \in 1..Len(devices) - 1 /\ (IF j < pos THEN j ELSE j + 1) = i
      BY <1>1, <1>2, <2>1, <3>1
    <3>3. devices'[j] = devices[i] /\ j \in 1..Len(devices')
      BY <1>3, <2>3, <3>2
    <3> QED
      BY <2>1, <3>3
  <2> QED
    BY <2>2, <2>3
<1>10. RemovesOne'
  <2> SUFFICES ASSUME InConfiguration \subseteq Supported, \A r \in InConfiguration : NamedOnce(r),
                      NEW m \in 1..Len(configured), OnlyMissing(m)
               PROVE  \/ owPhase' = "remove" /\ pos' <= m /\ AsConfigured'
                      \/ owPhase' = "remove" /\ pos' > m /\ m < Len(configured) /\ Without(m)'
                      \/ owPhase' = "crashed" /\ m = Len(configured)
    BY <1>1, <1>2, NamesAreKept DEF RemovesOne, PlainConfiguration
  <2>1. \/ pos <= m /\ AsConfigured
        \/ pos > m /\ m < Len(configured) /\ Without(m)
    BY <1>1, <1>2 DEF OneWireInv, RemovesOne, PlainConfiguration
  <2>2. CASE pos <= m /\ AsConfigured
    <3>1. /\ Len(devices) = Len(configured)
          /\ \A i \in 1..Len(configured) :
                devices[i].rom = configured[i] /\ (devices[i].found <=> i # m)
      BY <1>2, <2>2 DEF AsConfigured, OnlyMissing
    <3>2. CASE pos # m
      <4>1. devices' = devices /\ pos' <= m /\ owPhase' = "remove"
        BY <1>1, <1>2, <1>4, <2>2, <3>1, <3>2
      <4> QED
        BY <1>1, <2>2, <4>1 DEF AsConfigured
    <3>3. CASE pos = m
      <4>1. ~devices[pos].found
        BY <1>1, <3>1, <3>3
      <4>2. /\ Len(devices') = Len(configured) - 1
            /\ \A i \in 1..Len(configured) - 1 : devices'[i] = devices[IF i < m THEN i ELSE i + 1]
        BY <1>3, <3>1, <3>3, <4>1
      <4>3. CASE m = Len(configured)
        <5>1. pos + 1 > Len(devices') + 1
          BY <1>2, <3>3, <4>2, <4>3
        <5> QED
          BY Zenon, <1>1, <4>3, <5>1
      <4>4. CASE m # Len(configured)
        <5>1. m < Len(configured) /\ owPhase' = "remove" /\ pos' > m
          <6>1. m < Len(configured) /\ ~(pos + 1 > Len(devices') + 1) /\ pos + 1 > m
            <7>1. Len(devices') = Len(configured) - 1 /\ Len(configured) \in Nat /\ pos = m
              BY Zenon, <1>2, <3>3, <4>2
            <7>2. m < Len(configured)
              BY <4>4, <7>1
            <7> QED
              BY <7>1, <7>2
          <6> QED
            BY Zenon, <1>1, <6>1
        <5>2. \A i \in 1..Len(configured) - 1 :
                 LET j == IF i < m THEN i ELSE i + 1
                 IN j \in 1..Len(configured) /\ j # m
          BY <1>2
        <5>3. \A i \in 1..Len(configured) - 1 :
                 /\ devices'[i].rom = configured[IF i < m THEN i ELSE i + 1]
                 /\ devices'[i].found
          BY <3>1, <4>2, <5>2
        <5> QED
          BY <1>1, <1>5, <4>2, <5>1, <5>3 DEF Without
      <4> QED
        BY <4>3, <4>4
    <3> QED
      BY <3>2, <3>3
  <2>3. CASE pos > m /\ m < Len(configured) /\ Without(m)
    <3>1. devices[pos].found
      BY <1>1, <1>2, <2>3 DEF Without
    <3>2. devices' = devices /\ owPhase' = "remove" /\ pos' > m
      BY <1>1, <1>2, <1>4, <2>3, <3>1
    <3> QED
      BY <1>1, <2>3, <3>2 DEF Without
  <2> QED
    BY <2>1, <2>2, <2>3
<1>11. WaitsInTime'
  BY <1>1 DEF WaitsInTime
<1> QED
  BY <1>7, <1>8, <1>9, <1>10, <1>11 DEF OneWireInv

\* When the list has been walked nothing was read yet.
LEMMA RemovalOverKeeps ==
    ASSUME OneWireInv, RomInv', RemovalOver
    PROVE  OneWireInv'
<1>1. /\ owPhase = "remove" /\ pos = Len(devices) + 1 /\ pos' = 1
      /\ owPhase' = IF devices = <<>> THEN "stopped" ELSE "poll"
      /\ UNCHANGED <<devices, owNow, owClock, configured, readAt, found>>
  BY DEF RemovalOver, searchVars
<1>2. /\ DOMAIN devices = 1..Len(devices) /\ Len(devices) \in Nat
      /\ DOMAIN configured = 1..Len(configured) /\ Len(configured) \in Nat
  BY OneWireParts
<1>3. OneWireTypeOK' /\ NothingRead'
  BY <1>1 DEF OneWireInv, OneWireTypeOK, NothingRead
<1>4. LastIsRead' /\ FoundIsMarked'
  BY <1>1, SameList
<1>5. RemovesOne'
  <2> SUFFICES ASSUME InConfiguration \subseteq Supported, \A r \in InConfiguration : NamedOnce(r),
                      NEW m \in 1..Len(configured), OnlyMissing(m)
               PROVE  owPhase' = "poll" /\ m < Len(configured) /\ Without(m)'
    BY <1>1, <1>2, NamesAreKept DEF RemovesOne, PlainConfiguration
  <2>1. \/ pos <= m /\ AsConfigured
        \/ pos > m /\ m < Len(configured) /\ Without(m)
    BY <1>1, <1>2 DEF OneWireInv, RemovesOne, PlainConfiguration
  <2>2. m < Len(configured) /\ Without(m)
    <3>1. AsConfigured => Len(devices) = Len(configured)
      BY DEF AsConfigured
    <3>2. pos = Len(devices) + 1
      BY <1>1
    <3>3. ASSUME Len(devices) = Len(configured) PROVE ~(pos <= m)
      <4>1. Len(configured) \in Nat /\ pos = Len(configured) + 1
        BY <1>2, <3>2, <3>3
      <4> QED
        BY <4>1
    <3> QED
      BY Zenon, <2>1, <3>1, <3>3
  <2>3. Len(devices) > 0
    BY <1>2, <2>2 DEF Without
  <2>4. owPhase' = "poll"
    BY <1>1, <2>3
  <2> QED
    BY <1>1, <2>2, <2>4 DEF Without
<1>6. WaitsInTime'
  <2>1. \A i \in DOMAIN devices : devices[i].last = 0
    BY <1>1 DEF OneWireInv, NothingRead
  <2>2. owPhase' = "poll" => devices' # <<>> /\ pos' <= Len(devices') + 1
    BY <1>1, <1>2
  <2> QED
    BY <1>1, <2>1, <2>2 DEF WaitsInTime
<1> QED
  BY <1>3, <1>4, <1>5, <1>6 DEF OneWireInv

-----------------------------------------------------------------------------
(* The loop that reads.                                                    *)

\* Steps of it that read nothing.
LEMMA NotReadingKeeps ==
    ASSUME OneWireInv, RomInv', owPhase = "poll", owPhase' = "poll", pos' \in Nat \ {0},
           owClock' \in Nat, owNow' = owClock',
           UNCHANGED <<devices, configured, readAt, found>>, WaitsInTime'
    PROVE  OneWireInv'
<1>1. OneWireTypeOK' /\ NothingRead'
  BY DEF OneWireInv, OneWireTypeOK, NothingRead
<1>2. LastIsRead' /\ FoundIsMarked'
  BY SameList
<1>3. RemovesOne'
  <2> SUFFICES ASSUME InConfiguration \subseteq Supported, \A r \in InConfiguration : NamedOnce(r),
                      NEW m \in DOMAIN configured, OnlyMissing(m)
               PROVE  m < Len(configured) /\ Without(m)'
    BY NamesAreKept DEF RemovesOne, PlainConfiguration
  <2>1. m < Len(configured) /\ Without(m)
    BY DEF OneWireInv, RemovesOne, PlainConfiguration
  <2> QED
    BY <2>1 DEF Without
<1> QED
  BY <1>1, <1>2, <1>3 DEF OneWireInv

\* Multiples of a reading: one more, and of a longer one.
LEMMA Multiples ==
    /\ \A k, t \in Nat : k * t \in Nat /\ (k + 1) * t = k * t + t
    /\ \A k, t, u \in Nat : t <= u => k * t <= k * u
    /\ \A j, k, t \in Nat : j <= k => j * t <= k * t
OBVIOUS

\* After one more reading one of the two times is the longest of all.
LEMMA OneMore ==
    ASSUME NEW age \in Int, NEW interval \in Int, NEW k \in Nat, NEW t \in Nat, NEW u \in Nat,
           NEW o \in Int, age <= interval + k * t + o
    PROVE  \E v \in {t, u} : age + u <= interval + (k + 1) * v + o
<1> DEFINE v == IF t <= u THEN u ELSE t
<1>1. v \in {t, u} /\ v \in Nat /\ t <= v /\ u <= v
  OBVIOUS
<1> HIDE DEF v
<1>2. k * t <= k * v /\ (k + 1) * v = k * v + v /\ k * t \in Nat /\ k * v \in Nat
  BY <1>1, Multiples
<1> HIDE DEF v
<1>3. age + u <= interval + (k * v + v) + o
  BY <1>1, <1>2
<1> QED
  BY <1>1, <1>2, <1>3

LEMMA WaitNumbers ==
    ASSUME OneWireInv, NEW i \in 1..Len(devices)
    PROVE  /\ devices[i].rom \in Roms /\ IntervalOf[devices[i].rom] \in Nat
           /\ Age(devices[i]) \in Int /\ Turns(i) \in Nat
           /\ pos \in Nat /\ pos > 0 /\ Len(devices) \in Nat
<1>1. /\ devices[i].rom \in Roms /\ devices[i].last \in Nat /\ owNow \in Nat
      /\ pos \in Nat /\ pos > 0 /\ Len(devices) \in Nat
  BY OneWireParts
<1>2. IntervalOf[devices[i].rom] \in Nat /\ Age(devices[i]) \in Int
  BY <1>1, OneWireConstants DEF Age
<1>3. Turns(i) \in Nat
  BY <1>1 DEF Turns
<1> QED
  BY <1>1, <1>2, <1>3

\* The loop goes on to the next device: one more turn for all but the one it leaves.
LEMMA NextTurn ==
    ASSUME OneWireInv, pos' = pos + 1, UNCHANGED Len(devices), NEW i \in 1..Len(devices)
    PROVE  /\ i = pos => Turns(i)' = 1 /\ i < pos'
           /\ i # pos => Turns(i)' = Turns(i) + 1 /\ (i < pos' <=> i < pos)
<1>1. pos \in Nat /\ Len(devices) \in Nat
  BY WaitNumbers
<1>2. i = pos => Turns(i)' = 1 /\ i < pos'
  BY <1>1 DEF Turns
<1>3. CASE i < pos
  BY <1>1, <1>3 DEF Turns
<1>4. CASE i > pos
  <2>1. Turns(i) = Len(devices) - i + pos /\ Turns(i)' = Len(devices) - i + (pos + 1)
    BY <1>1, <1>4 DEF Turns
  <2> QED
    BY <1>1, <1>4, <2>1
<1> QED
  BY <1>1, <1>2, <1>3, <1>4

LEMMA SkipDeviceKeeps ==
    ASSUME OneWireInv, RomInv', SkipDevice
    PROVE  OneWireInv'
<1>1. /\ owPhase = "poll" /\ pos <= Len(devices) /\ pos' = pos + 1
      /\ Age(devices[pos]) <= IntervalOf[devices[pos].rom]
      /\ UNCHANGED <<owPhase, devices, owNow, owClock, configured, readAt, found>>
  BY DEF SkipDevice, searchVars
<1>2. /\ DOMAIN devices = 1..Len(devices) /\ Len(devices) \in Nat /\ pos \in Nat /\ pos > 0
      /\ owClock \in Nat /\ owNow = owClock
  BY OneWireParts
<1>3. WaitsInTime'
  <2> SUFFICES ASSUME NEW i \in 1..Len(devices), devices[i].last > 0
               PROVE  \E t \in ReadTimes, o \in Delays :
                          Age(devices[i]) <= IntervalOf[devices[i].rom] + Turns(i)' * t
                                                 + IF i < pos' THEN 0 ELSE o
    <3>1. devices # <<>> /\ pos + 1 <= Len(devices) + 1
      BY <1>1, <1>2 DEF OneWireInv, WaitsInTime
    <3> QED
      BY <1>1, <1>2, <3>1 DEF WaitsInTime, Age
  <2>1. PICK t \in ReadTimes, o \in Delays :
            Age(devices[i]) <= IntervalOf[devices[i].rom] + Turns(i) * t
                                   + IF i < pos THEN 0 ELSE o
    BY <1>1, <1>2 DEF OneWireInv, WaitsInTime
  <2>2. t \in Nat /\ o \in Nat
    BY OneWireConstants
  <2>3. CASE i = pos
    <3>1. Turns(i)' = 1 /\ i < pos'
      BY <1>1, <2>3, NextTurn
    <3>2. Age(devices[i]) <= IntervalOf[devices[i].rom] + 1 * t + 0
      BY <1>1, <2>2, <2>3, WaitNumbers
    <3> QED
      BY <3>1, <3>2
  <2>4. CASE i # pos
    <3> DEFINE late == IF i < pos THEN 0 ELSE o
    <3>1. Turns(i)' = Turns(i) + 1 /\ (i < pos' <=> i < pos)
      BY <1>1, <2>4, NextTurn
    <3>2. Turns(i) * t <= (Turns(i) + 1) * t /\ Turns(i) * t \in Nat /\ (Turns(i) + 1) * t \in Nat
      <4>1. Turns(i) \in Nat
        BY WaitNumbers
      <4> QED
        BY <2>2, <4>1, Multiples
    <3>3. late \in Nat
      BY <2>2
    <3> HIDE DEF late
    <3>4. Age(devices[i]) \in Int /\ IntervalOf[devices[i].rom] \in Nat
      BY WaitNumbers
    <3>5. Age(devices[i]) <= IntervalOf[devices[i].rom] + Turns(i) * t + late
      BY <2>1 DEF late
    <3>6. Age(devices[i]) <= IntervalOf[devices[i].rom] + (Turns(i) + 1) * t + late
      BY <3>2, <3>3, <3>4, <3>5
    <3> QED
      BY <3>1, <3>6 DEF late
  <2> QED
    BY <2>3, <2>4
<1> QED
  BY <1>1, <1>2, <1>3, NotReadingKeeps

LEMMA NextRefreshIs ==
    ASSUME OneWireInv, owPhase = "poll"
    PROVE  /\ NextRefresh \in Int
           /\ \A i \in 1..Len(devices) :
                 NextRefresh <= IntervalOf[devices[i].rom] - Age(devices[i])
<1> DEFINE left == [i \in 1..Len(devices) |-> IntervalOf[devices[i].rom] - Age(devices[i])]
           S == {IntervalOf[devices[i].rom] - Age(devices[i]) : i \in DOMAIN devices}
<1>1. DOMAIN devices = 1..Len(devices) /\ Len(devices) \in Nat \ {0}
  <2>1. devices # <<>>
    BY DEF OneWireInv, WaitsInTime
  <2> QED
    BY <2>1, OneWireParts, EmptySeq
<1>2. left \in [1..Len(devices) -> Int]
  BY WaitNumbers
<1>3. S = {left[i] : i \in 1..Len(devices)}
  BY <1>1
<1>4. \A i \in 1..Len(devices) : left[i] = IntervalOf[devices[i].rom] - Age(devices[i])
  OBVIOUS
<1> HIDE DEF left
<1>5. PICK k \in 1..Len(devices) : \A j \in 1..Len(devices) : left[k] <= left[j]
  BY <1>1, <1>2, LeastValue
<1>6. left[k] \in S /\ \A y \in S : left[k] <= y
  BY <1>3, <1>5
<1>7. NextRefresh = Min(S)
  BY DEF NextRefresh
<1>8. Min(S) \in S /\ \A y \in S : Min(S) <= y
  <2> HIDE DEF S
  <2> QED
    BY <1>6 DEF Min
<1>9. \A y \in S : y \in Int
  BY <1>2, <1>3
<1> QED
  BY <1>1, <1>7, <1>8, <1>9

LEMMA SleepKeeps ==
    ASSUME OneWireInv, RomInv', Sleep
    PROVE  OneWireInv'
<1>1. /\ owPhase = "poll" /\ pos = Len(devices) + 1 /\ pos' = 1 /\ owNow' = owClock'
      /\ IF NextRefresh > 1 THEN \E o \in Oversleep : owClock' = owClock + NextRefresh + o
                            ELSE owClock' = owClock + 1
      /\ UNCHANGED <<owPhase, devices, configured, readAt, found>>
  BY DEF Sleep, searchVars
<1>2. /\ DOMAIN devices = 1..Len(devices) /\ Len(devices) \in Nat
      /\ owClock \in Nat /\ owNow = owClock /\ devices # <<>>
  BY <1>1, OneWireParts DEF OneWireInv, WaitsInTime
<1>3. PICK o \in Delays :
         /\ o \in Nat
         /\ \/ owClock' = owClock + 1 /\ o = 1
            \/ owClock' = owClock + NextRefresh + o /\ NextRefresh > 1
  <2>1. CASE NextRefresh > 1
    BY <1>1, <2>1, OneWireConstants DEF Delays
  <2>2. CASE ~(NextRefresh > 1)
    BY <1>1, <2>2 DEF Delays
  <2> QED
    BY <2>1, <2>2
<1>4. owClock' \in Nat
  BY <1>1, <1>2, <1>3, NextRefreshIs
<1>5. WaitsInTime'
  <2> SUFFICES ASSUME NEW i \in 1..Len(devices), devices[i].last > 0
               PROVE  \E t \in ReadTimes :
                          Age(devices[i])' <= IntervalOf[devices[i].rom] + Turns(i)' * t
                                                 + IF i < pos' THEN 0 ELSE o
    <3>1. devices # <<>> /\ 1 <= Len(devices) + 1
      BY <1>2
    <3> QED
      BY <1>1, <1>2, <3>1 DEF WaitsInTime
  <2>1. i < pos /\ ~(i < pos')
    BY <1>1, <1>2
  <2>2. PICK t \in ReadTimes :
            Age(devices[i]) <= IntervalOf[devices[i].rom] + Turns(i) * t + 0
    BY <1>1, <1>2, <2>1 DEF OneWireInv, WaitsInTime
  <2>3. Turns(i)' = Turns(i)
    <3>1. Turns(i) = Len(devices) + 1 - i /\ Turns(i)' = Len(devices) - i + 1
      BY <1>1, <2>1 DEF Turns
    <3> QED
      BY <1>2, <3>1
  <2>4. /\ Age(devices[i]) \in Int /\ IntervalOf[devices[i].rom] \in Nat
        /\ Turns(i) * t \in Nat
    <3>1. Turns(i) \in Nat /\ t \in Nat
      BY WaitNumbers, OneWireConstants
    <3> QED
      BY <3>1, WaitNumbers, Multiples
  <2>5. Age(devices[i])' = Age(devices[i]) + (owClock' - owClock)
    <3>1. devices[i].last \in Nat /\ devices'[i] = devices[i]
      BY <1>1, OneWireParts
    <3> QED
      BY <1>1, <1>2, <1>4, <3>1 DEF Age
  <2>6. Age(devices[i])' <= IntervalOf[devices[i].rom] + Turns(i) * t + o
    <3>1. CASE owClock' = owClock + 1 /\ o = 1
      <4>1. owClock' - owClock = 1
        BY <1>1, <3>1, OneWireParts
      <4>2. Age(devices[i])' = Age(devices[i]) + 1
        BY <2>5, <4>1
      <4> QED
        BY <2>2, <2>4, <3>1, <4>2
    <3>2. CASE owClock' = owClock + NextRefresh + o /\ NextRefresh > 1
      <4>1. NextRefresh \in Int /\ NextRefresh <= IntervalOf[devices[i].rom] - Age(devices[i])
        BY <1>1, NextRefreshIs
      <4> QED
        BY <1>2, <1>3, <2>4, <2>5, <3>2, <4>1
    <3> QED
      BY <1>3, <3>1, <3>2
  <2> QED
    BY <2>1, <2>3, <2>6
<1> QED
  BY <1>1, <1>2, <1>4, <1>5, NotReadingKeeps

\* A device is read: what the others wait for grows by the time that takes.
LEMMA ReadDeviceKeeps ==
    ASSUME OneWireInv, RomInv', ReadDevice, devices[pos].rom \in Supported
    PROVE  OneWireInv'
<1>1. PICK t \in ReadTimes :
         /\ devices' = [devices EXCEPT ![pos].last = owNow]
         /\ readAt' = [readAt EXCEPT ![devices[pos].rom] = owClock]
         /\ owClock' = owClock + t /\ owNow' = NowAfter(t)
  BY DEF ReadDevice
<1>2. /\ owPhase = "poll" /\ owPhase' = "poll" /\ pos <= Len(devices) /\ pos' = pos + 1
      /\ UNCHANGED <<configured, found>>
  BY DEF ReadDevice, searchVars
<1>3. /\ devices \in Seq(Device) /\ DOMAIN devices = 1..Len(devices) /\ Len(devices) \in Nat
      /\ pos \in 1..Len(devices) /\ owClock \in Nat /\ owNow = owClock
      /\ readAt \in [Roms -> Nat \cup {-1}] /\ t \in Nat /\ pos \in Nat
  BY <1>2, OneWireParts, OneWireConstants
<1>4. \A i \in 1..Len(devices) : /\ devices[i] \in Device /\ devices[i].rom \in Roms
                                 /\ devices[i].last \in Nat
  BY OneWireParts
<1>5. /\ devices' \in Seq(Device) /\ Len(devices') = Len(devices)
      /\ DOMAIN devices' = 1..Len(devices)
      /\ \A i \in 1..Len(devices) :
            /\ devices'[i].rom = devices[i].rom /\ devices'[i].found = devices[i].found
            /\ devices'[i].last = IF i = pos THEN owNow ELSE devices[i].last
  <2> DEFINE d == [devices[pos] EXCEPT !.last = owNow]
  <2>1. /\ d \in Device /\ d.rom = devices[pos].rom /\ d.found = devices[pos].found
        /\ d.last = owNow
    BY <1>3, <1>4 DEF Device
  <2>2. devices' = [devices EXCEPT ![pos] = d]
    BY <1>1
  <2> HIDE DEF d
  <2>3. /\ [devices EXCEPT ![pos] = d] \in Seq(Device)
        /\ Len([devices EXCEPT ![pos] = d]) = Len(devices)
        /\ \A i \in 1..Len(devices) :
              [devices EXCEPT ![pos] = d][i] = IF i = pos THEN d ELSE devices[i]
    BY <1>3, <2>1, ExceptSeq
  <2>4. DOMAIN devices' = DOMAIN devices
    BY <2>2
  <2> QED
    BY <1>3, <2>1, <2>2, <2>3, <2>4
<1>6. owClock' \in Nat /\ owNow' = owClock'
  BY <1>1, <1>3 DEF NowAfter
<1>7. OneWireTypeOK' /\ NothingRead'
  <2>1. readAt' \in [Roms -> Nat \cup {-1}] /\ pos' \in Nat \ {0}
    BY <1>1, <1>2, <1>3, <1>4
  <2> QED
    BY <1>2, <1>5, <1>6, <2>1 DEF OneWireInv, OneWireTypeOK, NothingRead, Device
<1>8. FoundIsMarked'
  BY <1>2, <1>3, <1>5, NamesAreKept DEF OneWireInv, FoundIsMarked
<1>9. LastIsRead'
  <2> SUFFICES ASSUME NEW i \in 1..Len(devices), NamedOnce(devices[i].rom)
               PROVE  /\ \A j \in 1..Len(devices) : devices[j].rom = devices[i].rom => i = j
                      /\ readAt'[devices[i].rom] # -1
                             => devices'[i].last = readAt'[devices[i].rom]
    BY <1>2, <1>5, NamesAreKept DEF LastIsRead
  <2>1. /\ \A j \in 1..Len(devices) : devices[j].rom = devices[i].rom => i = j
        /\ readAt[devices[i].rom] # -1 => devices[i].last = readAt[devices[i].rom]
    BY <1>3 DEF OneWireInv, LastIsRead
  <2>2. CASE i = pos
    BY <1>1, <1>3, <1>4, <1>5, <2>1, <2>2
  <2>3. CASE i # pos
    <3>1. devices[i].rom # devices[pos].rom /\ devices[i].rom \in Roms
      BY <1>3, <1>4, <2>1, <2>3
    <3>2. readAt'[devices[i].rom] = readAt[devices[i].rom]
      BY <1>1, <1>3, <3>1
    <3> QED
      BY <1>5, <2>1, <2>3, <3>2
  <2> QED
    BY <2>2, <2>3
<1>10. RemovesOne'
  <2> SUFFICES ASSUME InConfiguration \subseteq Supported, \A r \in InConfiguration : NamedOnce(r),
                      NEW m \in DOMAIN configured, OnlyMissing(m)
               PROVE  m < Len(configured) /\ Without(m)'
    BY <1>2, NamesAreKept DEF RemovesOne, PlainConfiguration
  <2>1. m < Len(configured) /\ Without(m)
    BY <1>2 DEF OneWireInv, RemovesOne, PlainConfiguration
  <2> QED
    BY <1>2, <1>3, <1>5, <2>1 DEF Without
<1>11. WaitsInTime'
  <2> SUFFICES ASSUME NEW i \in 1..Len(devices), devices'[i].last > 0
               PROVE  \E v \in ReadTimes, o \in Delays :
                          Age(devices[i])' <= IntervalOf[devices[i].rom] + Turns(i)' * v
                                                  + IF i < pos' THEN 0 ELSE o
    <3>1. devices' # <<>> /\ pos + 1 <= Len(devices) + 1
      <4>1. Len(devices') # 0
        BY <1>3, <1>5
      <4> QED
        BY <1>2, <1>3, <4>1, EmptySeq
    <3> QED
      BY <1>2, <1>5, <3>1 DEF WaitsInTime
  <2>1. CASE i = pos
    <3>1. Age(devices[i])' = t
      BY <1>1, <1>3, <1>5, <2>1 DEF Age, NowAfter
    <3>2. Turns(i)' = 1 /\ i < pos'
      BY <1>2, <1>5, <2>1, NextTurn
    <3>3. t <= IntervalOf[devices[i].rom] + 1 * t + 0
      BY <1>3, WaitNumbers
    <3>4. \E o \in Delays : TRUE
      BY DEF Delays
    <3> QED
      BY <3>1, <3>2, <3>3, <3>4
  <2>2. CASE i # pos
    <3>1. devices'[i].last = devices[i].last /\ devices[i].last \in Nat
      BY <1>4, <1>5, <2>2
    <3>2. PICK u \in ReadTimes, o \in Delays :
              Age(devices[i]) <= IntervalOf[devices[i].rom] + Turns(i) * u
                                     + IF i < pos THEN 0 ELSE o
      BY <1>2, <1>3, <3>1 DEF OneWireInv, WaitsInTime
    <3> DEFINE late == IF i < pos THEN 0 ELSE o
    <3>3. late \in Int /\ u \in Nat
      BY OneWireConstants
    <3> HIDE DEF late
    <3>4. /\ Age(devices[i]) \in Int /\ IntervalOf[devices[i].rom] \in Int /\ Turns(i) \in Nat
      BY WaitNumbers
    <3>5. Age(devices[i]) <= IntervalOf[devices[i].rom] + Turns(i) * u + late
      BY <3>2 DEF late
    <3>6. PICK v \in {u, t} :
             Age(devices[i]) + t <= IntervalOf[devices[i].rom] + (Turns(i) + 1) * v + late
      <4> DEFINE age == Age(devices[i])
                 interval == IntervalOf[devices[i].rom]
                 turns == Turns(i)
      <4>1. /\ age \in Int /\ interval \in Int /\ turns \in Nat
            /\ age <= interval + turns * u + late
        BY <3>4, <3>5
      <4> HIDE DEF age, interval, turns
      <4>2. \E v \in {u, t} : age + t <= interval + (turns + 1) * v + late
        BY <1>3, <3>3, <4>1, OneMore
      <4> QED
        BY <4>2 DEF age, interval, turns
    <3>7. Age(devices[i])' = Age(devices[i]) + t
      BY <1>1, <1>3, <3>1 DEF Age, NowAfter
    <3>8. Turns(i)' = Turns(i) + 1 /\ (i < pos' <=> i < pos)
      BY <1>2, <1>5, <2>2, NextTurn
    <3>9. v \in ReadTimes
      OBVIOUS
    <3> QED
      BY <3>6, <3>7, <3>8, <3>9 DEF late
  <2> QED
    BY <2>1, <2>2
<1> QED
  BY <1>7, <1>8, <1>9, <1>10, <1>11 DEF OneWireInv

\* A device of another family ends the loop, but not if all are supported.
LEMMA StopKeeps ==
    ASSUME OneWireInv, RomInv', ReadDevice, devices[pos].rom \notin Supported
    PROVE  OneWireInv'
<1>1. /\ owPhase = "poll" /\ owPhase' = "stopped" /\ pos <= Len(devices)
      /\ UNCHANGED <<devices, readAt, owClock, owNow, pos, configured, found>>
  BY DEF ReadDevice, searchVars
<1>2. OneWireTypeOK' /\ NothingRead' /\ WaitsInTime'
  BY <1>1 DEF OneWireInv, OneWireTypeOK, NothingRead, WaitsInTime
<1>3. LastIsRead' /\ FoundIsMarked'
  BY <1>1, SameList
<1>4. RemovesOne'
  <2> SUFFICES ASSUME InConfiguration \subseteq Supported, \A r \in InConfiguration : NamedOnce(r),
                      NEW m \in DOMAIN configured, OnlyMissing(m)
               PROVE  FALSE
    BY <1>1, NamesAreKept DEF RemovesOne, PlainConfiguration
  <2>1. m < Len(configured) /\ Without(m)
    BY <1>1 DEF OneWireInv, RemovesOne, PlainConfiguration
  <2>2. /\ DOMAIN devices = 1..Len(devices) /\ Len(devices) \in Nat /\ pos \in Nat /\ pos > 0
        /\ DOMAIN configured = 1..Len(configured) /\ Len(configured) \in Nat
    BY OneWireParts
  <2>3. pos \in 1..Len(devices) /\ Len(devices) = Len(configured) - 1
    BY <1>1, <2>1, <2>2 DEF Without
  <2>4. devices[pos].rom = configured[IF pos < m THEN pos ELSE pos + 1]
    BY <2>1, <2>2, <2>3 DEF Without
  <2>5. (IF pos < m THEN pos ELSE pos + 1) \in 1..Len(configured)
    BY <2>2, <2>3
  <2> QED
    BY <2>2, <2>4, <2>5 DEF InConfiguration
<1> QED
  BY <1>2, <1>3, <1>4 DEF OneWireInv

LEMMA OneWireInvStep == OneWireInv /\ [OneWireNext]_OneWireVars => OneWireInv'
<1> SUFFICES ASSUME OneWireInv, [OneWireNext]_OneWireVars PROVE OneWireInv'
  OBVIOUS
<1>1. [RomNext]_searchVars
  BY OneWireSearches
<1>2. RomInv'
  BY <1>1, RomInvStep DEF OneWireInv
<1>3. CASE Searching
  <2>1. UNCHANGED owVars /\ found' = found
    BY <1>3 DEF Searching, StartPass, Triplet, SearchError, Change, Attach, Detach
  <2> QED
    BY <1>2, <2>1, SearchingKeeps
<1>4. CASE UNCHANGED OneWireVars
  BY <1>2, <1>4, SearchingKeeps DEF OneWireVars, searchVars
<1>5. CASE ReadDevice
  BY <1>2, <1>5, ReadDeviceKeeps, StopKeeps
<1> QED
  BY <1>2, <1>3, <1>4, <1>5, PassReportedKeeps, SearchOverKeeps, RemoveTurnKeeps, RemovalOverKeeps,
     SkipDeviceKeeps, SleepKeeps DEF OneWireNext

-----------------------------------------------------------------------------
(* The theorems.                                                           *)

\* The invariant of main's loops holds for all devices, configurations and times.
THEOREM OneWireInvariant == OneWireSpec => []OneWireInv
<1> QED
  BY OneWireInvInit, OneWireInvStep, PTL DEF OneWireSpec

\* The list and the times of the loop have their types.
THEOREM OneWireTypeCorrect == OneWireSpec => []OneWireTypeOK
<1>1. OneWireInv => OneWireTypeOK
  BY DEF OneWireInv
<1> QED
  BY <1>1, OneWireInvariant, PTL

\* Neither the search nor what is erased and removed loses a supported device of
\* the configuration that stays attached.
THEOREM AttachedAreListed == OneWireSpec => []AttachedIsListed
<1>1. OneWireInv => AttachedIsListed
  <2> SUFFICES ASSUME OneWireInv, outcome = "done", ~pulled,
                      NEW r \in stable \cap Supported \cap InConfiguration
               PROVE  r \in Listed
    BY DEF AttachedIsListed
  <2>1. r \in found
    BY DEF OneWireInv, RomInv, SearchFindsAll
  <2> QED
    BY <2>1 DEF OneWireInv, FoundIsMarked, Listed
<1> QED
  BY <1>1, OneWireInvariant, PTL

\* One device that is missing and not the last is removed, and no other, for every
\* configuration.
THEOREM OneIsRemoved == OneWireSpec => []OneMissingIsRemoved
<1>1. OneWireInv => OneMissingIsRemoved
  <2> SUFFICES ASSUME OneWireInv, Removed, PlainConfiguration, NEW m \in DOMAIN configured, OnlyMissing(m),
                      configured[Len(configured)] \in found
               PROVE  owPhase = "poll" /\ Listed = InConfiguration \cap found
    BY DEF OneMissingIsRemoved
  <2>1. \/ owPhase = "poll" /\ m < Len(configured) /\ Without(m)
        \/ owPhase = "crashed" /\ m = Len(configured)
    BY DEF OneWireInv, RemovesOne, Removed
  <2>2. /\ DOMAIN devices = 1..Len(devices) /\ Len(devices) \in Nat
        /\ DOMAIN configured = 1..Len(configured) /\ Len(configured) \in Nat
    BY OneWireParts
  <2>3. /\ Len(configured) \in DOMAIN configured /\ m \in 1..Len(configured)
        /\ \A i \in 1..Len(configured) : (configured[i] \in found) <=> (i # m)
    BY <2>2 DEF OnlyMissing
  <2>4. m # Len(configured)
    BY <2>2, <2>3
  <2>5. CASE owPhase = "poll" /\ m < Len(configured) /\ Without(m)
    <3>2. /\ Len(devices) = Len(configured) - 1
          /\ \A i \in 1..Len(devices) : devices[i].rom = configured[IF i < m THEN i ELSE i + 1]
      BY <2>2, <2>5 DEF Without
    <3>3. \A i \in 1..Len(devices) :
             LET j == IF i < m THEN i ELSE i + 1
             IN j \in 1..Len(configured) /\ j # m
      BY <2>2, <2>3, <3>2
    <3>4. ASSUME NEW r \in Listed PROVE r \in InConfiguration \cap found
      <4>1. PICK i \in 1..Len(devices) : r = devices[i].rom
        BY <2>2, <3>4 DEF Listed
      <4> QED
        BY <2>2, <2>3, <3>2, <3>3, <4>1 DEF InConfiguration
    <3>5. ASSUME NEW r \in InConfiguration, r \in found PROVE r \in Listed
      <4>1. PICK j \in 1..Len(configured) : r = configured[j] /\ j # m
        BY <2>2, <2>3, <3>5 DEF InConfiguration
      <4> DEFINE i == IF j < m THEN j ELSE j - 1
      <4>2. i \in 1..Len(devices) /\ (IF i < m THEN i ELSE i + 1) = j
        BY <2>2, <2>3, <3>2, <4>1
      <4> HIDE DEF i
      <4>3. devices[i].rom = configured[j]
        BY <3>2, <4>2
      <4> QED
        BY <2>2, <4>1, <4>2, <4>3 DEF Listed
    <3> QED
      BY <2>5, <3>4, <3>5
  <2> QED
    BY <2>1, <2>4, <2>5
<1> QED
  BY <1>1, OneWireInvariant, PTL

\* No device that is named once is read twice within its interval, for any
\* intervals and times.
THEOREM ReadingsAreApart == OneWireSpec => ReadingsApart
<1> DEFINE Apart == \A d \in Roms :
               readAt'[d] # readAt[d] /\ readAt[d] # -1 /\ NamedOnce(d)
                   => readAt'[d] > readAt[d] + IntervalOf[d]
<1>1. OneWireInv /\ [OneWireNext]_OneWireVars => [Apart]_OneWireVars
  <2> SUFFICES ASSUME OneWireInv, OneWireNext, NEW d \in Roms, readAt'[d] # readAt[d],
                      readAt[d] # -1, NamedOnce(d)
               PROVE  readAt'[d] > readAt[d] + IntervalOf[d]
    OBVIOUS
  <2>1. /\ ReadDevice /\ owPhase = "poll" /\ pos <= Len(devices)
        /\ Age(devices[pos]) > IntervalOf[devices[pos].rom]
        /\ readAt' = [readAt EXCEPT ![devices[pos].rom] = owClock]
    BY DEF OneWireNext, Searching, PassReported, SearchOver, RemoveTurn, RemovalOver, SkipDevice,
       Sleep, ReadDevice, owVars
  <2>2. /\ DOMAIN devices = 1..Len(devices) /\ pos \in 1..Len(devices) /\ owNow = owClock
        /\ readAt \in [Roms -> Nat \cup {-1}] /\ owClock \in Nat /\ devices[pos].last \in Nat
    BY <2>1, OneWireParts
  <2>3. d = devices[pos].rom /\ readAt'[d] = owClock
    BY <2>1, <2>2
  <2>4. devices[pos].last = readAt[d]
    BY <2>2, <2>3 DEF OneWireInv, LastIsRead
  <2>5. IntervalOf[d] \in Nat
    BY OneWireConstants
  <2> QED
    BY <2>1, <2>2, <2>3, <2>4, <2>5 DEF Age
<1> QED
  BY <1>1, OneWireInvariant, PTL DEF OneWireSpec, ReadingsApart

\* The loop comes back to every device in its interval, one reading for each device
\* and the delay of a sleep, however many there are and whatever their intervals.
THEOREM DevicesReadInTime == OneWireSpec => []ReadInTime
<1>1. OneWireInv => ReadInTime
  <2> SUFFICES ASSUME OneWireInv, owPhase = "poll", NEW i \in 1..Len(devices),
                      pos <= i \/ pos > Len(devices), devices[i].last > 0
               PROVE  \E t \in ReadTimes, o \in Delays :
                          Age(devices[i]) <= IntervalOf[devices[i].rom] + Len(devices) * t + o
    BY OneWireParts DEF ReadInTime
  <2>1. PICK t \in ReadTimes, o \in Delays :
            Age(devices[i]) <= IntervalOf[devices[i].rom] + Turns(i) * t
                                   + IF i < pos THEN 0 ELSE o
    BY OneWireParts DEF OneWireInv, WaitsInTime
  <2>2. /\ t \in Nat /\ o \in Nat /\ Turns(i) \in Nat /\ Len(devices) \in Nat
        /\ Age(devices[i]) \in Int /\ IntervalOf[devices[i].rom] \in Nat /\ pos \in Nat
    BY OneWireConstants, WaitNumbers
  <2>3. pos <= Len(devices) + 1
    BY DEF OneWireInv, WaitsInTime
  <2>4. Turns(i) <= Len(devices)
    BY <2>2, <2>3 DEF Turns
  <2>5. Turns(i) * t <= Len(devices) * t /\ Turns(i) * t \in Nat /\ Len(devices) * t \in Nat
    BY <2>2, <2>4, Multiples
  <2> DEFINE turns == Turns(i) * t
             all == Len(devices) * t
  <2>6. Age(devices[i]) <= IntervalOf[devices[i].rom] + turns + IF i < pos THEN 0 ELSE o
    BY <2>1
  <2>7. turns \in Nat /\ all \in Nat /\ turns <= all
    BY <2>5
  <2> HIDE DEF turns, all
  <2>8. Age(devices[i]) <= IntervalOf[devices[i].rom] + all + o
    <3> DEFINE late == IF i < pos THEN 0 ELSE o
    <3>1. late \in Nat /\ late <= o
      BY <2>2
    <3>2. Age(devices[i]) <= IntervalOf[devices[i].rom] + turns + late
      BY <2>6
    <3> HIDE DEF late
    <3> QED
      BY <2>2, <2>7, <3>1, <3>2
  <2> QED
    BY <2>8 DEF all
<1> QED
  BY <1>1, OneWireInvariant, PTL
=============================================================================
