------------------------------ MODULE MCDaemons ------------------------------
(***************************************************************************)
(* The daemons that share nothing but the broker, and the time strings of  *)
(* a script, for one run: each behaviour looks at one of them, and leaves  *)
(* the others where they began.                                            *)
(***************************************************************************)
EXTENDS TimeString, OneWireService, UnipiService, DhtService, ExeLife

VARIABLE which    \* the part that moves

Parts == {"time", "onewire", "unipi", "dht", "life"}

\* Dates around the ends of months and of a year, leap and not, and a weekday.
Dates == {<<2019, 0, 31, 4>>, <<2019, 1, 28, 4>>, <<2020, 1, 29, 6>>, <<2019, 3, 30, 2>>,
          <<2019, 11, 31, 2>>, <<2019, 3, 15, 1>>}
At(d, h, mi, s) ==
    [year |-> d[1], mon |-> d[2], mday |-> d[3], wday |-> d[4], hour |-> h, min |-> mi, sec |-> s]
SomeStarts == {At(d, h, mi, s) : d \in Dates, h \in {0, 5, 23}, mi \in {0, 59}, s \in {0, 59}}

Every(md, wd, h, mi, s) == [monthday |-> md, weekday |-> wd, hour |-> h, min |-> mi, sec |-> s]
SomeRequests ==
    {Every(md, -1, h, mi, s) : md \in {0, 1, 15, 30, 31, -1, -30, -31},
                               h \in {-1, 0, 5}, mi \in {-1, 0, 30}, s \in {-1, 20}}
        \cup {Every(0, wd, h, mi, s) : wd \in {0, 4}, h \in {-1, 5}, mi \in {-1, 30}, s \in {-1, 20}}

\* Four devices whose identifiers share prefixes; the last is of another family.
Rom(a, b, c) == 1 :> a @@ 2 :> b @@ 3 :> c
FourRoms == {Rom(0, 0, 0), Rom(0, 1, 0), Rom(1, 1, 0), Rom(1, 1, 1)}
ThreeSupported == FourRoms \ {Rom(1, 1, 1)}
\* Lists with the other family first, last, in the middle and not at all.
SomeConfigurations ==
    {<<Rom(0, 0, 0), Rom(0, 1, 0)>>, <<Rom(1, 1, 0), Rom(0, 0, 0), Rom(0, 1, 0)>>,
     <<Rom(1, 1, 1), Rom(0, 0, 0)>>, <<Rom(0, 0, 0), Rom(1, 1, 1), Rom(1, 1, 0)>>}
UnevenRomIntervals ==
    Rom(0, 0, 0) :> 4 @@ Rom(0, 1, 0) :> 6 @@ Rom(1, 1, 0) :> 9 @@ Rom(1, 1, 1) :> 4

\* Messages of two outputs: a relay twice, and a voltage in and out of range.
SomeMessages == {<< <<1, 1>>, <<2, 0>> >>, << <<2, 1>>, <<AO, 11>> >>, << <<AO, 10>>, <<1, 0>> >>}
OneCode == {-65537}
\* 65536 is the first code whose bit 16 is set and bit 17 is not.
EdgeCodes == {-131072, -1, 65535, 65536}

OneShortInterval == 1 :> 2 @@ 2 :> 22
MinusThirty == -30

Init ==
    /\ which \in Parts
    /\ TimeInit
    /\ which # "time" => tm = At(<<2019, 3, 15, 1>>, 0, 0, 0) /\ request = Every(0, 0, 5, 30, 20)
    /\ OneWireInit
    /\ which # "onewire" =>
          bus = {} /\ owClock = 0 /\ configured = <<Rom(0, 0, 0), Rom(0, 1, 0)>>
    /\ UnipiInit
    /\ which # "unipi" => \A r \in Relays : latch[r] = 0
    /\ DhtInit
    /\ which # "dht" => dhtClock = 0
    /\ LifeInit

Next ==
    /\ UNCHANGED which
    /\ \/ which = "time" /\ TimeNext /\ UNCHANGED <<OneWireVars, unipiVars, dhtVars, lifeVars>>
       \/ which = "onewire" /\ OneWireNext /\ UNCHANGED <<timeVars, unipiVars, dhtVars, lifeVars>>
       \/ which = "unipi" /\ UnipiNext /\ UNCHANGED <<timeVars, OneWireVars, dhtVars, lifeVars>>
       \/ which = "dht" /\ DhtNext /\ UNCHANGED <<timeVars, OneWireVars, unipiVars, lifeVars>>
       \/ which = "life" /\ LifeNext /\ UNCHANGED <<timeVars, OneWireVars, unipiVars, dhtVars>>

vars == <<which, timeVars, OneWireVars, unipiVars, dhtVars, lifeVars>>

\* The fairness of each part, asked for where it moves.
Fairness ==
    /\ WF_unipiVars(which = "unipi" /\ ThreadGoes)
    /\ WF_unipiVars(which = "unipi" /\ EnderGoes)
    /\ LifeFairness

Spec == Init /\ [][Next]_vars /\ Fairness

UnipiOnly == Init /\ which = "unipi" /\ [][Next]_vars
OneWireOnly == Init /\ which = "onewire" /\ [][Next]_vars
=============================================================================
