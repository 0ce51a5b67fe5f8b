------------------------------ MODULE RomSearch ------------------------------
(***************************************************************************)
(* The search for the devices on a 1-Wire bus, as onewire_service and      *)
(* onewire_tool run it until lastDevice is set: searchRom                  *)
(* (src/source/1-Wire/MaximInterface/MaximInterfaceCore/RomCommands.cpp).  *)
(* Each pass addresses all devices, and bit by bit keeps those that have   *)
(* the bit it chose, until one is left; where two devices differ it takes  *)
(* 0 first and remembers the last such place.                              *)
(*                                                                         *)
(* An identifier is a function from bit numbers to {0, 1}; its checksum is *)
(* taken to be valid.  lastFamilyDiscrepancy is left out: only             *)
(* skipCurrentFamily reads it, which no program here calls.                *)
(***************************************************************************)
EXTENDS Integers

CONSTANTS
    RomBits,      \* bits of an identifier: 64
    Roms,         \* identifiers of the devices there are
    MaxChanges    \* bound: devices plugged in or pulled out during the search

Bits == 1..RomBits

ASSUME RomAssumption ==
    /\ RomBits \in Nat \ {0}
    /\ Roms \subseteq [Bits -> {0, 1}]
    /\ MaxChanges \in Nat

VARIABLES
    bus,          \* devices attached to the bus
    search,       \* searchState: what the last pass left
    next,         \* newSearchState: what this pass has found so far
    bit,          \* idBitNumber; 0 between two passes
    active,       \* devices that still take part in the pass
    outcome,      \* "searching", "done" or "error"
    found,        \* history: identifiers reported
    stable,       \* history: devices attached from the beginning on
    pulled,       \* history: a device was pulled out
    changes       \* bound: changes so far

searchVars == <<bus, search, next, bit, active, outcome, found, stable, pulled, changes>>

SearchRomState == [romId |-> [n \in Bits |-> 0], lastDiscrepancy |-> 0, lastDevice |-> FALSE]

-----------------------------------------------------------------------------
\* What the master reads when the active devices send bit n, or its complement:
\* a 0 of any device wins.
ReadBit(n) == \A d \in active : d[n] = 1
ReadComplement(n) == \A d \in active : d[n] = 0

\* The branch searchRom asks for, and the one the bus makes the master take.  The
\* mutants take the last branch again, and 1 wherever there is a choice.
SearchBit_Same(n) == IF n > search.lastDiscrepancy THEN 0 ELSE search.romId[n]
SearchBit_Ones(n) == IF n >= search.lastDiscrepancy THEN 1 ELSE search.romId[n]

SearchBit(n) ==
    IF n = search.lastDiscrepancy THEN 1
    ELSE IF n > search.lastDiscrepancy THEN 0
    ELSE search.romId[n]

WriteBit(n) == IF ReadBit(n) THEN 1 ELSE IF ReadComplement(n) THEN 0 ELSE SearchBit(n)

RomInit ==
    /\ bus \in SUBSET Roms
    /\ search = SearchRomState
    /\ next = SearchRomState
    /\ bit = 0
    /\ active = {}
    /\ outcome = "searching"
    /\ found = {}
    /\ stable = bus
    /\ pulled = FALSE
    /\ changes = 0

\* Reset the bus and send the command: every device there takes part.
StartPass ==
    /\ outcome = "searching" /\ bit = 0
    /\ bus # {}
    /\ search' = IF search.lastDevice THEN SearchRomState ELSE search
    /\ next' = SearchRomState
    /\ bit' = 1
    /\ active' = bus
    /\ UNCHANGED <<bus, outcome, found, stable, pulled, changes>>

Triplet ==
    /\ outcome = "searching" /\ bit \in Bits
    /\ active # {}
    /\ LET w == WriteBit(bit)
       IN /\ next' = [next EXCEPT
                !.romId[bit] = w,
                !.lastDiscrepancy =
                    IF w = 0 /\ ~ReadBit(bit) /\ ~ReadComplement(bit) THEN bit ELSE @]
          /\ active' = {d \in active : d[bit] = w}
    /\ bit' = bit + 1
    /\ UNCHANGED <<bus, search, outcome, found, stable, pulled, changes>>

\* The end of a pass: the identifier is reported, and the loop of the caller
\* ends after the last device.
EndPass ==
    /\ outcome = "searching" /\ bit = RomBits + 1
    /\ search' = [next EXCEPT !.lastDevice = (next.lastDiscrepancy = 0)]
    /\ found' = found \cup {next.romId}
    /\ outcome' = IF next.lastDiscrepancy = 0 THEN "done" ELSE "searching"
    /\ bit' = 0
    /\ next' = SearchRomState
    /\ active' = {}
    /\ UNCHANGED <<bus, stable, pulled, changes>>

\* There is no slave, or the I2C master fails or finds the bus shorted, which may
\* happen at any time: the caller leaves its loop.
SearchError ==
    /\ outcome = "searching"
    /\ outcome' = "error"
    /\ bit' = 0
    /\ next' = SearchRomState
    /\ active' = {}
    /\ UNCHANGED <<bus, search, found, stable, pulled, changes>>

\* A device that is plugged in takes part from the next pass on; one that is
\* pulled out is silent at once.
Attach(d) ==
    /\ outcome = "searching" /\ changes < MaxChanges
    /\ bus' = bus \cup {d}
    /\ changes' = changes + 1
    /\ UNCHANGED <<search, next, bit, active, outcome, found, stable, pulled>>

Detach(d) ==
    /\ outcome = "searching" /\ changes < MaxChanges
    /\ d \in bus
    /\ bus' = bus \ {d}
    /\ active' = active \ {d}
    /\ stable' = stable \ {d}
    /\ pulled' = TRUE
    /\ changes' = changes + 1
    /\ UNCHANGED <<search, next, bit, outcome, found>>

Change == \E d \in Roms : Attach(d) \/ Detach(d)

RomNext == StartPass \/ Triplet \/ EndPass \/ SearchError \/ Change

RomSpec == RomInit /\ [][RomNext]_searchVars

-----------------------------------------------------------------------------
(* Properties.                                                             *)

RomStates == [romId : [Bits -> {0, 1}], lastDiscrepancy : 0..RomBits, lastDevice : BOOLEAN]

RomTypeOK ==
    /\ bus \subseteq Roms /\ stable \subseteq bus
    /\ active \subseteq bus
    /\ search \in RomStates /\ next \in RomStates
    /\ bit \in 0..RomBits + 1
    /\ outcome \in {"searching", "done", "error"}
    /\ found \subseteq [Bits -> {0, 1}]
    /\ pulled \in BOOLEAN
    /\ changes \in 0..MaxChanges

\* A search that ends without an error has found every device that was there
\* all the time, also when others were plugged in meanwhile.  (Pulling one out
\* may hide others: the search then follows bits of a device that is gone.)
SearchFindsAll == outcome = "done" /\ ~pulled => stable \subseteq found

\* The passes come to an end once the bus is left alone, whatever was plugged in or
\* pulled out in the middle of a pass: each takes a branch that none since has
\* taken.  (Devices that come and go for ever may lead a search in circles.)
SearchEnds == <>[][FALSE]_searchVars

\* No device is reported twice.
FoundOnce == [][EndPass /\ ~pulled => next.romId \notin found]_searchVars

-----------------------------------------------------------------------------
(* The inductive invariant behind the properties that are proved.          *)

SameBelow(d, e, n) == \A k \in Bits : k < n => d[k] = e[k]

\* At bit n the identifier e goes the way of 1 and d that of 0.
Forks(d, e, n) == SameBelow(d, e, n) /\ d[n] = 0 /\ e[n] = 1

\* d is left for a later pass: the way it went off was taken with 0, and is not
\* beyond the last such place.
Pending(d, state) ==
    \E n \in Bits : n <= state.lastDiscrepancy /\ Forks(state.romId, d, n)

\* Both ways of the last discrepancy have a device.
Branches(state, devs) ==
    state.lastDiscrepancy > 0 =>
        \E d \in devs : Forks(state.romId, d, state.lastDiscrepancy)

\* Between two passes: what is found lies before the last identifier, and what is
\* not found is still to come.
BetweenPasses ==
    /\ ~search.lastDevice
    /\ search.lastDiscrepancy = 0 => found = {}
    /\ search.lastDiscrepancy > 0 =>
          /\ search.romId \in bus
          /\ \A d \in stable \ found : Pending(d, search)
          /\ \A d \in found : d = search.romId \/ \E n \in Bits : Forks(d, search.romId, n)
    /\ Branches(search, bus)

\* Within a pass: up to the last discrepancy it goes the way of the pass before,
\* there it takes the other branch, and what it leaves is pending.
WithinPass ==
    /\ active # {}
    /\ \A d \in active : SameBelow(d, next.romId, bit)
    /\ next.lastDiscrepancy < bit
    /\ Branches(next, bus)
    /\ \A d \in stable \ found : d \in active \/ Pending(d, next)
    /\ bit <= search.lastDiscrepancy =>
          search.romId \in active /\ Branches(search, active)
    /\ search.lastDiscrepancy \in 1..bit - 1 =>
          Forks(search.romId, next.romId, search.lastDiscrepancy)

RomInv ==
    /\ RomTypeOK
    /\ outcome = "searching" /\ ~pulled => BetweenPasses /\ (bit > 0 => WithinPass)
    /\ SearchFindsAll
=============================================================================
