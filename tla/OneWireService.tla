--------------------------- MODULE OneWireService ---------------------------
(***************************************************************************)
(* onewire_service (src/source/1-Wire/onewire_service/mq_onewire_daemon.cpp): *)
(* the devices of the configuration are marked as the search of RomSearch  *)
(* reports them, those not found are removed, and the others are read      *)
(* again and again by one loop.                                            *)
(*                                                                         *)
(* A unit of time is half a second.  The temperature, its JSON message and *)
(* the errors of the configuration file are left out.                      *)
(***************************************************************************)
EXTENDS RomSearch, Sequences, SequencesExt

CONSTANTS
    Configurations,   \* the lists of identifiers a configuration may have
    Supported,        \* identifiers of the supported family (0x28)
    IntervalOf,       \* the interval of each device
    ReadTimes,        \* how long reading a device may take, failing included
    Oversleep,        \* how much longer than asked for a sleep may take
    Uptimes,          \* clock at the start: steady_clock counts from the boot
    OwMaxTime         \* bound: no pass begins later

ASSUME OneWireAssumption ==
    /\ Configurations \subseteq Seq(Roms)
    /\ Supported \subseteq Roms
    /\ IntervalOf \in [Roms -> Nat \ {0}]
    /\ ReadTimes \subseteq Nat /\ Oversleep \subseteq Nat /\ Uptimes \subseteq Nat
    /\ OwMaxTime \in Nat

VARIABLES
    devices,    \* _devices: [rom, found, last] with last for _last_refresh
    owPhase,    \* "search", "remove", "poll", "stopped" or "crashed"
    pos,        \* where the iterator of the loop is
    owNow,      \* now
    owClock,    \* the time
    configured, \* history: the identifiers of the configuration
    readAt      \* history: when the last reading of each device began, or -1

owVars == <<devices, owPhase, pos, owNow, owClock, configured, readAt>>

\* The first device of the list with the identifier, and 0 if there is none.  The
\* mutant compares too little of it.
FindIf_Prefix(list, rom) == SelectInSeq(list, LAMBDA d : \A n \in 1..RomBits - 1 : d.rom[n] = rom[n])
FindIf(list, rom) == SelectInSeq(list, LAMBDA d : d.rom = rom)

\* iterator->_found = true, which marks nothing past the end of the list.  (The
\* mutant marks the device after it.)
MarkFound_Next(list, i) ==
    IF i + 1 \in DOMAIN list THEN [list EXCEPT ![i + 1].found = TRUE] ELSE list
MarkFound(list, i) == IF i \in DOMAIN list THEN [list EXCEPT ![i].found = TRUE] ELSE list

\* A device of another family is erased, and the iterator then marks the one
\* that follows; nothing is harmed if there is none, for the memory is there.
ProcessRomDevice(list, rom) ==
    LET i == FindIf(list, rom)
    IN IF i = 0 THEN list
       ELSE IF rom \in Supported THEN MarkFound(list, i)
       ELSE MarkFound(RemoveAt(list, i), i)

OneWireInit ==
    /\ RomInit
    /\ configured \in Configurations
    /\ devices = [i \in DOMAIN configured |-> [rom |-> configured[i], found |-> FALSE, last |-> 0]]
    /\ owPhase = "search"
    /\ pos = 1
    /\ owClock \in Uptimes
    /\ owNow = owClock
    /\ readAt = [d \in Roms |-> -1]

\* The steps of the search that report nothing.
Searching ==
    /\ owPhase = "search"
    /\ StartPass \/ Triplet \/ SearchError \/ Change
    /\ UNCHANGED owVars

PassReported ==
    /\ owPhase = "search"
    /\ EndPass
    /\ devices' = ProcessRomDevice(devices, next.romId)
    /\ UNCHANGED <<owPhase, pos, owNow, owClock, configured, readAt>>

SearchOver ==
    /\ owPhase = "search" /\ outcome # "searching"
    /\ owPhase' = "remove"
    /\ UNCHANGED <<searchVars, devices, pos, owNow, owClock, configured, readAt>>

\* One turn of the removal loop: erase leaves the iterator at the next device,
\* and the loop then steps over it.  After the last one it steps past the end,
\* and walks on until the process is killed.
RemoveTurn ==
    /\ owPhase = "remove" /\ pos <= Len(devices)
    /\ devices' = IF devices[pos].found THEN devices ELSE RemoveAt(devices, pos)
    /\ pos' = pos + 1
    /\ owPhase' = IF pos + 1 > Len(devices') + 1 THEN "crashed" ELSE "remove"
    /\ UNCHANGED <<searchVars, owNow, owClock, configured, readAt>>

\* The list has been walked.
RemovalOver ==
    /\ owPhase = "remove" /\ pos = Len(devices) + 1
    /\ owPhase' = IF devices = <<>> THEN "stopped" ELSE "poll"
    /\ pos' = 1
    /\ UNCHANGED <<searchVars, devices, owNow, owClock, configured, readAt>>

Age(d) == owNow - d.last

\* now, after a reading that took t; the mutant does not look at the clock.
NowAfter_Kept(t) == owNow
NowAfter(t) == owClock + t

\* A device that is due is read, which takes time, and the loop looks at the
\* clock again.  The daemon ends at a device of another family.
ReadDevice ==
    /\ owPhase = "poll" /\ pos <= Len(devices)
    /\ Age(devices[pos]) > IntervalOf[devices[pos].rom]
    /\ IF devices[pos].rom \in Supported
       THEN \E t \in ReadTimes :
              /\ devices' = [devices EXCEPT ![pos].last = owNow]
              /\ readAt' = [readAt EXCEPT ![devices[pos].rom] = owClock]
              /\ owClock' = owClock + t
              /\ owNow' = NowAfter(t)
              /\ pos' = pos + 1
              /\ UNCHANGED owPhase
       ELSE /\ owPhase' = "stopped"
            /\ UNCHANGED <<devices, readAt, owClock, owNow, pos>>
    /\ UNCHANGED <<searchVars, configured>>

SkipDevice ==
    /\ owPhase = "poll" /\ pos <= Len(devices)
    /\ Age(devices[pos]) <= IntervalOf[devices[pos].rom]
    /\ pos' = pos + 1
    /\ UNCHANGED <<searchVars, devices, owPhase, owNow, owClock, configured, readAt>>

\* What is left until the first device is due; for the mutant, the last one.
NextRefresh_Last ==
    Max({IntervalOf[devices[i].rom] - Age(devices[i]) : i \in DOMAIN devices})
NextRefresh ==
    Min({IntervalOf[devices[i].rom] - Age(devices[i]) : i \in DOMAIN devices})

\* The loop sleeps if more than half a second is left; else it turns again and
\* again, and time passes meanwhile.
Sleep ==
    /\ owPhase = "poll" /\ pos = Len(devices) + 1
    /\ owClock < OwMaxTime
    /\ IF NextRefresh > 1
       THEN \E o \in Oversleep : owClock' = owClock + NextRefresh + o
       ELSE owClock' = owClock + 1
    /\ owNow' = owClock'
    /\ pos' = 1
    /\ UNCHANGED <<searchVars, devices, owPhase, configured, readAt>>

OneWireNext ==
    \/ Searching \/ PassReported \/ SearchOver
    \/ RemoveTurn \/ RemovalOver
    \/ ReadDevice \/ SkipDevice \/ Sleep

OneWireVars == <<searchVars, owVars>>

OneWireSpec == OneWireInit /\ [][OneWireNext]_OneWireVars

-----------------------------------------------------------------------------
(* Properties.                                                             *)

Listed == {devices[i].rom : i \in DOMAIN devices}
InConfiguration == {configured[i] : i \in DOMAIN configured}

\* A supported device of the configuration that was attached all the time is
\* read, whatever is missing before it in the list, if the search had no error
\* and nothing was pulled out: neither the search, nor the erasing of others in
\* ProcessRomDevice, nor the removal loop loses it.
AttachedIsListed ==
    owPhase = "poll" /\ outcome = "done" /\ ~pulled =>
        stable \cap Supported \cap InConfiguration \subseteq Listed

\* The configuration may name a device twice; the second one is never marked, and
\* is removed unless the loop steps over it.
NamedOnce(rom) ==
    \A i, j \in DOMAIN configured : configured[i] = rom /\ configured[j] = rom => i = j

\* The list has been walked, or the loop has left it.
Removed == owPhase \in {"poll", "stopped", "crashed"}

\* All devices of the configuration are supported, and none is named twice.
PlainConfiguration ==
    /\ InConfiguration \subseteq Supported
    /\ \A rom \in InConfiguration : NamedOnce(rom)

OnlyMissing(m) ==
    /\ m \in DOMAIN configured
    /\ \A i \in DOMAIN configured : (configured[i] \in found) = (i # m)

\* If one device of such a configuration is missing, and it is not the last, the
\* daemon goes on with exactly the others.
OneMissingIsRemoved ==
    /\ Removed /\ PlainConfiguration
    /\ \E m \in DOMAIN configured : OnlyMissing(m)
    /\ configured[Len(configured)] \in found
    =>
    owPhase = "poll" /\ Listed = InConfiguration \cap found

\* What the loop says it does, whichever are missing: each device that is not found
\* is reported, "removing it from list", and the daemon goes on with the others or
\* ends because there is "No device in devices list".
MissingAreRemoved ==
    Removed /\ PlainConfiguration =>
        /\ owPhase = IF InConfiguration \cap found = {} THEN "stopped" ELSE "poll"
        /\ Listed = InConfiguration \cap found

\* The loop keeps the intervals apart: a device that is named once is not read
\* again before its interval has passed since the last reading began, however long
\* the readings of the others took in between.
ReadingsApart ==
    [][\A d \in Roms :
        readAt'[d] # readAt[d] /\ readAt[d] # -1 /\ NamedOnce(d)
            => readAt'[d] > readAt[d] + IntervalOf[d]
      ]_OneWireVars

\* What a sleep takes too long, or half a second for a turn without one.
Delays == Oversleep \cup {1}

\* And no device waits longer than its interval, the longest reading for each
\* device, and such a delay.
ReadInTime ==
    owPhase = "poll" =>
        \A i \in DOMAIN devices :
            (pos <= i \/ pos > Len(devices)) /\ devices[i].last > 0 =>
                \E t \in ReadTimes, o \in Delays :
                    Age(devices[i]) <= IntervalOf[devices[i].rom] + Len(devices) * t + o

-----------------------------------------------------------------------------
(* The inductive invariant behind what is proved.                          *)

OneWireTypeOK ==
    /\ devices \in Seq([rom : Roms, found : BOOLEAN, last : Nat])
    /\ owPhase \in {"search", "remove", "poll", "stopped", "crashed"}
    /\ pos \in Nat \ {0}
    /\ owClock \in Nat /\ owNow = owClock
    /\ configured \in Configurations
    /\ readAt \in [Roms -> Nat \cup {-1}]

\* Until the list has been walked nothing is read.
NothingRead ==
    owPhase \in {"search", "remove"} =>
        /\ \A i \in DOMAIN devices : devices[i].last = 0
        /\ \A d \in Roms : readAt[d] = -1

\* What is supported stays in the list while the search lasts, and is marked when
\* it is found; what is marked stays.
FoundIsMarked ==
    \A rom \in Supported \cap InConfiguration :
        /\ owPhase = "search" => \E i \in DOMAIN devices : devices[i].rom = rom
        /\ rom \in found =>
              \E i \in DOMAIN devices : devices[i].rom = rom /\ devices[i].found

\* The list keeps the time of the last reading of a device that is named once.
LastIsRead ==
    \A i \in DOMAIN devices :
        NamedOnce(devices[i].rom) =>
            /\ \A j \in DOMAIN devices : devices[j].rom = devices[i].rom => i = j
            /\ readAt[devices[i].rom] # -1 => devices[i].last = readAt[devices[i].rom]

\* The list is that of the configuration, or that without number m.
AsConfigured ==
    /\ Len(devices) = Len(configured)
    /\ \A i \in DOMAIN configured :
          /\ devices[i].rom = configured[i]
          /\ devices[i].found = (configured[i] \in found)

Without(m) ==
    /\ Len(devices) = Len(configured) - 1
    /\ \A i \in DOMAIN devices :
          /\ devices[i].rom = configured[IF i < m THEN i ELSE i + 1]
          /\ owPhase = "remove" => devices[i].found

\* How the loop comes to the one device that is missing, and past it.
RemovesOne ==
    PlainConfiguration =>
        /\ owPhase = "search" => AsConfigured /\ pos = 1
        /\ \A m \in DOMAIN configured : OnlyMissing(m) =>
              \/ owPhase = "search"
              \/ owPhase = "remove" /\ pos <= m /\ AsConfigured
              \/ owPhase = "remove" /\ pos > m /\ m < Len(configured) /\ Without(m)
              \/ owPhase = "poll" /\ m < Len(configured) /\ Without(m)
              \/ owPhase = "crashed" /\ m = Len(configured)

\* The readings since the loop last came to a device, those of the pass before if
\* it has not come to it in this one.
Turns(i) == IF i < pos THEN pos - i ELSE Len(devices) - i + pos

\* A device has waited for these readings, and for the sleep if there was one since.
WaitsInTime ==
    owPhase = "poll" =>
        /\ devices # <<>> /\ pos <= Len(devices) + 1
        /\ \A i \in DOMAIN devices :
              devices[i].last > 0 =>
                  \E t \in ReadTimes, o \in Delays :
                      Age(devices[i]) <= IntervalOf[devices[i].rom] + Turns(i) * t
                                             + IF i < pos THEN 0 ELSE o

OneWireInv ==
    /\ RomInv
    /\ OneWireTypeOK /\ NothingRead
    /\ FoundIsMarked /\ LastIsRead /\ RemovesOne /\ WaitsInTime
=============================================================================
