-------------------------- MODULE DhtServiceProofs --------------------------
(***************************************************************************)
(* Proofs about DhtService for all sensors, intervals and answers.         *)
(***************************************************************************)
EXTENDS DhtService, TLAPS

LEMMA DhtConstants ==
    /\ Sensors \in Nat \ {0} /\ Second \in Nat \ {0} /\ Attempts \in Nat \ {0}
    /\ DhtInterval \in [1..Sensors -> Nat]
    /\ \A m \in Measures : m \in Int
    /\ Lowest \in Int /\ Highest \in Int /\ Lowest <= Highest
    /\ \A o \in DhtOversleep : o \in Nat
    /\ \A t \in DhtUptimes : t \in Nat
BY DhtAssumption

\* A product or a quotient of times is a time.
LEMMA TimesAreNat ==
    /\ \A a \in Nat : a * Second \in Nat /\ a \div Second \in Nat
BY DhtConstants

LEMMA NothingGot ==
    /\ NoMeasure \in [1..3 -> Int] /\ NotGot \in [1..3 -> BOOLEAN]
    /\ \A j \in 1..3 : ~NotGot[j]
BY DEF NoMeasure, NotGot

LEMMA DhtInvInit == DhtInit => DhtInv
<1> SUFFICES ASSUME DhtInit PROVE DhtInv
  OBVIOUS
<1>1. DhtTypeOK
  BY DhtConstants, NothingGot DEF DhtInit, DhtTypeOK, NoneYet
<1>2. GotIsInBounds
  BY NothingGot DEF DhtInit, GotIsInBounds
<1>3. AverageInBounds
  BY DhtConstants DEF DhtInit, AverageInBounds
<1> QED
  BY <1>1, <1>2, <1>3 DEF DhtInit, DhtInv

-----------------------------------------------------------------------------

LEMMA DhtInvParts ==
    ASSUME DhtInv
    PROVE  /\ DhtTypeOK /\ GotIsInBounds /\ AverageInBounds
           /\ measure > 0 => dhtPos <= Sensors
           /\ dhtPos \in 1..Sensors + 1 /\ measure \in 0..4 /\ attempt \in 0..Attempts
           /\ measured \in [1..3 -> Int] /\ gotMeasure \in [1..3 -> BOOLEAN]
           /\ last \in [1..Sensors -> Nat] /\ began \in Nat /\ dhtClock \in Nat
           /\ wake \in Nat \cup {NoneYet} /\ published \in [sum : Int, divisor : Int]
<1>1. DhtTypeOK
  BY DEF DhtInv
<1> QED
  BY <1>1 DEF DhtInv, DhtTypeOK

\* What is thought to be the time to sleep stays one.
LEMMA SoonerIsTime ==
    ASSUME DhtTypeOK, NEW w \in Nat
    PROVE  Sooner(w) \in Nat \cup {NoneYet}
BY DEF DhtTypeOK, Sooner

LEMMA NotDueKeeps ==
    ASSUME DhtInv, NotDue
    PROVE  DhtInv'
<1>1. /\ dhtPos \in 1..Sensors /\ measure = 0 /\ last \in [1..Sensors -> Nat]
      /\ dhtClock \in Nat /\ DhtTypeOK
      /\ UNCHANGED <<measure, attempt, measured, gotMeasure, last, began, published, dhtClock>>
  <2>1. dhtPos <= Sensors /\ measure = 0
        /\ UNCHANGED <<measure, attempt, measured, gotMeasure, last, began, published, dhtClock>>
    BY DEF NotDue
  <2>2. dhtPos \in 1..Sensors
    BY <2>1, DhtInvParts, DhtConstants
  <2> QED
    BY Zenon, <2>1, <2>2, DhtInvParts
<1> DEFINE interval == DhtInterval[dhtPos] * Second
           rest == (interval - Elapsed(dhtPos)) \div Second
<1>2. interval \in Nat
  BY <1>1, DhtConstants, TimesAreNat
<1>3. Elapsed(dhtPos) \in Int /\ Elapsed(dhtPos) < interval
  BY <1>1 DEF Elapsed, NotDue
<1> HIDE DEF interval
<1>4. interval - Elapsed(dhtPos) \in Nat
  BY <1>2, <1>3
<1>5. rest \in Nat
  BY <1>4, TimesAreNat
<1>6. wake' = Sooner(rest) /\ dhtPos' = dhtPos + 1
  BY DEF NotDue, interval
<1> HIDE DEF rest
<1>7. wake' \in Nat \cup {NoneYet}
  BY <1>1, <1>5, <1>6, SoonerIsTime
<1>8. DhtTypeOK'
  BY <1>1, <1>6, <1>7, DhtConstants DEF DhtTypeOK
<1>9. GotIsInBounds' /\ AverageInBounds'
  BY <1>1 DEF DhtInv, GotIsInBounds, InBounds, AverageInBounds
<1> QED
  BY <1>1, <1>8, <1>9 DEF DhtInv

LEMMA BeginReadingKeeps ==
    ASSUME DhtInv, BeginReading
    PROVE  DhtInv'
<1>1. DhtTypeOK'
  <2>1. /\ dhtPos' \in 1..Sensors + 1 /\ measure' \in 0..4 /\ attempt' \in 0..Attempts
        /\ measured' \in [1..3 -> Int] /\ gotMeasure' \in [1..3 -> BOOLEAN]
    BY DhtInvParts, DhtConstants, NothingGot DEF BeginReading
  <2>2. /\ last' \in [1..Sensors -> Nat] /\ began' \in Nat /\ dhtClock' \in Nat
        /\ wake' \in Nat \cup {NoneYet} /\ published' \in [sum : Int, divisor : Int]
    BY DhtInvParts DEF BeginReading
  <2> QED
    BY Zenon, <2>1, <2>2 DEF DhtTypeOK
<1>2. GotIsInBounds'
  BY NothingGot DEF BeginReading, GotIsInBounds
<1>3. AverageInBounds'
  BY DEF BeginReading, DhtInv, AverageInBounds
<1> QED
  BY <1>1, <1>2, <1>3 DEF BeginReading, DhtInv

\* An answer out of bounds overwrites a measure that was not got.
LEMMA AttemptFailsKeeps ==
    ASSUME DhtInv, AttemptFails
    PROVE  DhtInv'
<1>1. /\ measure \in 1..3 /\ DhtTypeOK /\ GotIsInBounds /\ AverageInBounds
      /\ dhtPos <= Sensors /\ measured \in [1..3 -> Int]
      /\ gotMeasure \in [1..3 -> BOOLEAN] /\ dhtClock \in Nat /\ attempt \in 0..Attempts
      /\ UNCHANGED <<dhtPos, gotMeasure, last, began, wake, published>>
  BY DEF AttemptFails, DhtInv, DhtTypeOK
<1>2. /\ measured' \in [1..3 -> Int]
      /\ \A j \in 1..3 : j # measure => measured'[j] = measured[j]
  BY <1>1, DhtConstants DEF AttemptFails
<1>3. /\ measure' \in {measure, measure + 1} /\ attempt' \in 0..Attempts
      /\ dhtClock' \in Nat
  BY <1>1, DhtConstants DEF AttemptFails, MoreAttempts
<1>4. DhtTypeOK'
  BY <1>1, <1>2, <1>3 DEF DhtTypeOK
<1>5. GotIsInBounds'
  BY <1>1, <1>2, <1>3 DEF GotIsInBounds, InBounds
<1>6. AverageInBounds'
  BY <1>1 DEF AverageInBounds
<1> QED
  BY <1>1, <1>4, <1>5, <1>6 DEF DhtInv

LEMMA AttemptSucceedsKeeps ==
    ASSUME DhtInv, AttemptSucceeds
    PROVE  DhtInv'
<1>1. /\ measure \in 1..3 /\ DhtTypeOK /\ GotIsInBounds /\ AverageInBounds
      /\ dhtPos <= Sensors /\ measured \in [1..3 -> Int]
      /\ gotMeasure \in [1..3 -> BOOLEAN] /\ dhtClock \in Nat
      /\ UNCHANGED <<dhtPos, last, began, wake, published>>
      /\ measure' = measure + 1 /\ attempt' = 1
      /\ dhtClock' = dhtClock + Second
      /\ gotMeasure' = [gotMeasure EXCEPT ![measure] = TRUE]
  BY DEF AttemptSucceeds, DhtInv, DhtTypeOK
<1>2. /\ measured' \in [1..3 -> Int]
      /\ \A j \in 1..3 : j # measure => measured'[j] = measured[j]
      /\ InBounds(measured'[measure])
  BY <1>1, DhtConstants DEF AttemptSucceeds, InBounds
<1>3. gotMeasure' \in [1..3 -> BOOLEAN]
  BY <1>1
<1>4. DhtTypeOK'
  <2>1. /\ dhtPos' \in 1..Sensors + 1 /\ measure' \in 0..4 /\ attempt' \in 0..Attempts
        /\ measured' \in [1..3 -> Int] /\ gotMeasure' \in [1..3 -> BOOLEAN]
    BY <1>1, <1>2, <1>3, DhtConstants DEF DhtTypeOK
  <2>2. /\ last' \in [1..Sensors -> Nat] /\ began' \in Nat /\ dhtClock' \in Nat
        /\ wake' \in Nat \cup {NoneYet} /\ published' \in [sum : Int, divisor : Int]
    BY <1>1, DhtConstants DEF DhtTypeOK
  <2> QED
    BY Zenon, <2>1, <2>2 DEF DhtTypeOK
<1>5. GotIsInBounds'
  BY <1>1, <1>2 DEF GotIsInBounds, InBounds
<1>6. AverageInBounds'
  BY <1>1 DEF AverageInBounds
<1> QED
  BY <1>1, <1>4, <1>5, <1>6 DEF DhtInv

\* A measure that does not count adds nothing, and one that does adds a number
\* within the bounds.
LEMMA ShareInBounds ==
    ASSUME DhtTypeOK, GotIsInBounds, NEW j \in 1..3
    PROVE  \/ gotMeasure[j] /\ Counts(j) = 1 /\ Share(j) \in Int
              /\ Lowest <= Share(j) /\ Share(j) <= Highest
           \/ ~gotMeasure[j] /\ Counts(j) = 0 /\ Share(j) = 0
<1>1. measured[j] \in Int /\ gotMeasure[j] \in BOOLEAN
  BY DEF DhtTypeOK
<1>2. CASE gotMeasure[j]
  BY <1>1, <1>2 DEF GotIsInBounds, InBounds, Share, Counts
<1>3. CASE ~gotMeasure[j]
  BY <1>3 DEF Share, Counts
<1> QED
  BY <1>2, <1>3

LEMMA AverageOfSome ==
    ASSUME DhtTypeOK, GotIsInBounds, gotMeasure # NotGot
    PROVE  /\ Average \in [sum : Int, divisor : Int]
           /\ Average.divisor > 0
           /\ Average.sum >= Lowest * Average.divisor
           /\ Average.sum <= Highest * Average.divisor
<1> DEFINE a == Share(1)  b == Share(2)  c == Share(3)
           x == Counts(1)  y == Counts(2)  z == Counts(3)
<1>1. \E j \in 1..3 : gotMeasure[j]
  BY DEF DhtTypeOK, NotGot
<1>2. gotMeasure[1] \/ gotMeasure[2] \/ gotMeasure[3]
  BY <1>1
<1>3. \/ gotMeasure[1] /\ x = 1 /\ a \in Int /\ Lowest <= a /\ a <= Highest
      \/ ~gotMeasure[1] /\ x = 0 /\ a = 0
  BY ShareInBounds
<1>4. \/ gotMeasure[2] /\ y = 1 /\ b \in Int /\ Lowest <= b /\ b <= Highest
      \/ ~gotMeasure[2] /\ y = 0 /\ b = 0
  BY ShareInBounds
<1>5. \/ gotMeasure[3] /\ z = 1 /\ c \in Int /\ Lowest <= c /\ c <= Highest
      \/ ~gotMeasure[3] /\ z = 0 /\ c = 0
  BY ShareInBounds
<1>6. Average = [sum |-> a + b + c, divisor |-> x + y + z]
  BY DEF Average
<1>7. x = 1 \/ y = 1 \/ z = 1
  BY <1>2, <1>3, <1>4, <1>5
<1>8. (x = 1 /\ a \in Int /\ Lowest <= a /\ a <= Highest) \/ (x = 0 /\ a = 0)
  BY Zenon, <1>3
<1>9. (y = 1 /\ b \in Int /\ Lowest <= b /\ b <= Highest) \/ (y = 0 /\ b = 0)
  BY Zenon, <1>4
<1>10. (z = 1 /\ c \in Int /\ Lowest <= c /\ c <= Highest) \/ (z = 0 /\ c = 0)
  BY Zenon, <1>5
<1> HIDE DEF a, b, c, x, y, z
<1>11. /\ a + b + c \in Int /\ x + y + z \in 1..3
      /\ \/ x + y + z = 1 /\ Lowest <= a + b + c /\ a + b + c <= Highest
         \/ x + y + z = 2 /\ 2 * Lowest <= a + b + c /\ a + b + c <= 2 * Highest
         \/ x + y + z = 3 /\ 3 * Lowest <= a + b + c /\ a + b + c <= 3 * Highest
  <2>1. Lowest \in Int /\ Highest \in Int
    BY DhtConstants
  <2>2. /\ a + b \in Int
        /\ \/ x + y = 0 /\ a + b = 0 /\ x = 0 /\ y = 0
           \/ x + y = 1 /\ Lowest <= a + b /\ a + b <= Highest
           \/ x + y = 2 /\ 2 * Lowest <= a + b /\ a + b <= 2 * Highest
    BY <1>8, <1>9, <2>1
  <2>3. CASE z = 0 /\ c = 0
    BY <1>7, <2>1, <2>2, <2>3
  <2>4. CASE z = 1 /\ c \in Int /\ Lowest <= c /\ c <= Highest
    BY <2>1, <2>2, <2>4
  <2> QED
    BY <1>10, <2>3, <2>4
<1> DEFINE s == a + b + c
           d == x + y + z
<1>12. /\ s \in Int /\ d \in 1..3
      /\ \/ d = 1 /\ Lowest <= s /\ s <= Highest
         \/ d = 2 /\ 2 * Lowest <= s /\ s <= 2 * Highest
         \/ d = 3 /\ 3 * Lowest <= s /\ s <= 3 * Highest
  BY <1>11
<1>13. Average = [sum |-> s, divisor |-> d]
  BY <1>6
<1> HIDE DEF s, d
<1>14. d > 0 /\ Lowest * d <= s /\ s <= Highest * d
  BY <1>12, DhtConstants
<1> QED
  BY <1>12, <1>13, <1>14

LEMMA EndReadingKeeps ==
    ASSUME DhtInv, EndReading
    PROVE  DhtInv'
<1>1. /\ measure = 4 /\ DhtTypeOK /\ GotIsInBounds /\ AverageInBounds
      /\ dhtPos \in 1..Sensors /\ last \in [1..Sensors -> Nat] /\ began \in Nat
      /\ dhtClock \in Nat /\ published \in [sum : Int, divisor : Int]
      /\ last' = [last EXCEPT ![dhtPos] = began]
      /\ wake' = Sooner(DhtInterval[dhtPos]) /\ dhtPos' = dhtPos + 1
      /\ measure' = 0 /\ attempt' = 0 /\ began' = 0
      /\ measured' = NoMeasure /\ gotMeasure' = NotGot /\ dhtClock' = dhtClock
      /\ published' = IF gotMeasure = NotGot THEN published ELSE Average
  <2>1. measure = 4 /\ dhtPos \in 1..Sensors
    BY DhtInvParts, DhtConstants DEF EndReading
  <2> QED
    BY Zenon, <2>1, DhtInvParts DEF EndReading
<1>2. wake' \in Nat \cup {NoneYet}
  BY <1>1, DhtConstants, SoonerIsTime
<1>3. published' \in [sum : Int, divisor : Int] /\ AverageInBounds'
  <2>1. CASE gotMeasure = NotGot
    BY <1>1, <2>1 DEF AverageInBounds
  <2>2. CASE gotMeasure # NotGot
    BY <1>1, <2>2, AverageOfSome DEF AverageInBounds
  <2> QED
    BY <2>1, <2>2
<1>4. DhtTypeOK'
  <2>1. /\ dhtPos' \in 1..Sensors + 1 /\ measure' \in 0..4 /\ attempt' \in 0..Attempts
        /\ measured' \in [1..3 -> Int] /\ gotMeasure' \in [1..3 -> BOOLEAN]
    BY <1>1, DhtConstants, NothingGot
  <2>2. last' \in [1..Sensors -> Nat] /\ began' \in Nat /\ dhtClock' \in Nat
    BY <1>1
  <2> QED
    BY Zenon, <1>2, <1>3, <2>1, <2>2 DEF DhtTypeOK
<1>5. GotIsInBounds'
  BY <1>1, NothingGot DEF GotIsInBounds
<1> QED
  BY <1>1, <1>3, <1>4, <1>5 DEF DhtInv

LEMMA DhtSleepKeeps ==
    ASSUME DhtInv, DhtSleep
    PROVE  DhtInv'
<1>1. /\ dhtPos = Sensors + 1 /\ dhtPos' = 1 /\ wake' = NoneYet
      /\ DhtTypeOK /\ GotIsInBounds /\ AverageInBounds
      /\ wake \in Nat \cup {NoneYet} /\ dhtClock \in Nat
      /\ UNCHANGED <<measure, attempt, measured, gotMeasure, last, began, published>>
      /\ measure \in 0..4 /\ measure <= 0
  BY DhtConstants DEF DhtSleep, DhtInv, DhtTypeOK
<1>2. dhtClock' \in Nat
  <2>1. CASE wake > 0
    <3>1. wake \in Nat
      BY <1>1, <2>1 DEF NoneYet
    <3>2. PICK o \in DhtOversleep : dhtClock' = dhtClock + wake * Second + o
      BY <2>1 DEF DhtSleep
    <3>3. wake * Second \in Nat /\ o \in Nat
      BY <3>1, TimesAreNat, DhtConstants
    <3> QED
      BY <1>1, <3>2, <3>3
  <2>2. CASE ~(wake > 0)
    BY <1>1, <2>2 DEF DhtSleep
  <2> QED
    BY <2>1, <2>2
<1>3. DhtTypeOK'
  BY <1>1, <1>2, DhtConstants DEF DhtTypeOK
<1>4. GotIsInBounds' /\ AverageInBounds'
  BY <1>1 DEF GotIsInBounds, InBounds, AverageInBounds
<1> QED
  BY <1>1, <1>3, <1>4 DEF DhtInv

-----------------------------------------------------------------------------

LEMMA DhtInvStep == DhtInv /\ [DhtNext]_dhtVars => DhtInv'
<1> SUFFICES ASSUME DhtInv, [DhtNext]_dhtVars
             PROVE  DhtInv'
  OBVIOUS
<1>1. CASE UNCHANGED dhtVars
  BY <1>1 DEF dhtVars, DhtInv, DhtTypeOK, GotIsInBounds, InBounds, AverageInBounds
<1> QED
  BY <1>1, NotDueKeeps, BeginReadingKeeps, AttemptFailsKeeps, AttemptSucceedsKeeps,
     EndReadingKeeps, DhtSleepKeeps DEF DhtNext

\* The invariant of a reading holds whatever the sensors answer.
THEOREM DhtInvariant == DhtSpec => []DhtInv
<1>1. DhtInit => DhtInv
  BY DhtInvInit
<1>2. DhtInv /\ [DhtNext]_dhtVars => DhtInv'
  BY DhtInvStep
<1> QED
  BY <1>1, <1>2, PTL DEF DhtSpec

\* The variables of read_sensors and read_sensor have their types.
THEOREM DhtTypeCorrect == DhtSpec => []DhtTypeOK
<1>1. DhtInv => DhtTypeOK
  BY DEF DhtInv
<1> QED
  BY <1>1, DhtInvariant, PTL

\* What read_sensor publishes is an average of measures within the bounds, for
\* any bounds and answers.
THEOREM PublishedInBounds == DhtSpec => []AverageInBounds
<1>1. DhtInv => AverageInBounds
  BY DEF DhtInv
<1> QED
  BY <1>1, DhtInvariant, PTL

-----------------------------------------------------------------------------
(* How long a sensor waits.                                                *)

\* Products of times: one factor more, and a smaller factor.
LEMMA Times ==
    ASSUME NEW c \in Nat
    PROVE  /\ \A k \in Nat : k * c \in Nat /\ (k + 1) * c = k * c + c
           /\ \A j, k \in Nat : j <= k => j * c <= k * c
           /\ 0 * c = 0
OBVIOUS

LEMMA SecondsAre ==
    /\ \A k \in Nat : Seconds(k) \in Nat /\ Seconds(k + 1) = Seconds(k) + Second
    /\ \A j, k \in Nat : j <= k => Seconds(j) <= Seconds(k)
    /\ Seconds(0) = 0
BY DhtConstants, Times DEF Seconds

LEMMA ReadingsAre ==
    /\ LongestRead \in Nat
    /\ \A k \in Nat : Readings(k) \in Nat /\ Readings(k + 1) = Readings(k) + LongestRead
<1>1. LongestRead \in Nat
  <2>1. Attempts + 1 \in Nat /\ Second \in Nat
    BY DhtConstants
  <2> QED
    BY <2>1 DEF LongestRead
<1> QED
  BY <1>1, Times DEF Readings

\* All the attempts for a measure, with the pause after the last.
LEMMA MeasuringIs ==
    /\ \A k \in Nat : /\ Measuring(k) \in Nat
                      /\ Measuring(k + 1) = Measuring(k) + Seconds(Attempts) + Second
    /\ Measuring(0) = 0
    /\ LongestRead = Measuring(3)
<1> DEFINE one == (Attempts + 1) * Second
<1>1. Attempts \in Nat /\ Second \in Nat
  BY DhtConstants
<1>2. one = Seconds(Attempts) + Second /\ one \in Nat /\ Seconds(Attempts) \in Nat
  BY <1>1, Times DEF Seconds
<1>3. LongestRead = 3 * one
  BY <1>1 DEF LongestRead
<1>4. \A k : Measuring(k) = k * one
  BY DEF Measuring
<1> HIDE DEF one
<1>5. /\ \A k \in Nat : k * one \in Nat /\ (k + 1) * one = k * one + one
      /\ 0 * one = 0
  BY <1>2, Times
<1>6. \A k \in Nat : k * one + one = k * one + Seconds(Attempts) + Second
  BY <1>1, <1>2, <1>5
<1> QED
  BY <1>3, <1>4, <1>5, <1>6

LEMMA InTimeInit == DhtInit => InTimeInv
BY DhtConstants DEF DhtInit, InTimeInv, ReadingIsShort, AwakeInTime

LEMMA DhtNumbers ==
    ASSUME DhtInv
    PROVE  /\ measure \in 0..4 /\ attempt \in 0..Attempts /\ Attempts \in Nat
           /\ began \in Nat /\ dhtClock \in Nat /\ Second \in Nat
           /\ Reading \in Int
BY DhtInvParts, DhtConstants DEF Reading

\* A measure takes no longer than all its attempts and the last one's pause.
LEMMA ReadingKeeps ==
    ASSUME DhtInv, InTimeInv, [DhtNext]_dhtVars
    PROVE  ReadingIsShort'
<1>1. CASE AttemptFails \/ AttemptSucceeds
  <2>1. /\ measure \in 1..3 /\ attempt > 0 /\ began' = began
        /\ dhtClock - began <= Measuring(measure - 1) + Seconds(attempt - 1)
    BY <1>1, DhtNumbers DEF AttemptFails, AttemptSucceeds, InTimeInv, ReadingIsShort,
       Reading
  <2>2. \/ measure' = measure /\ attempt' = attempt + 1 /\ dhtClock' = dhtClock + Second
        \/ /\ measure' = measure + 1 /\ attempt' = 1
           /\ dhtClock' \in {dhtClock + Second, dhtClock + 2 * Second}
    BY <1>1 DEF AttemptFails, AttemptSucceeds
  <2>3. /\ measure - 1 \in Nat /\ (measure - 1) + 1 = measure
        /\ attempt - 1 \in Nat /\ (attempt - 1) + 1 = attempt
        /\ attempt - 1 <= Attempts - 1 /\ Attempts - 1 \in Nat /\ (Attempts - 1) + 1 = Attempts
    BY <2>1, DhtNumbers
  <2>4. /\ Seconds(attempt) = Seconds(attempt - 1) + Second
        /\ Seconds(attempt - 1) + Second <= Seconds(Attempts)
        /\ Seconds(attempt - 1) \in Nat /\ Seconds(Attempts) \in Nat
    BY <2>3, SecondsAre, DhtNumbers
  <2>5. /\ Measuring(measure) = Measuring(measure - 1) + Seconds(Attempts) + Second
        /\ Measuring(measure - 1) \in Nat
    BY <2>3, MeasuringIs
  <2>6. CASE measure' = measure /\ attempt' = attempt + 1 /\ dhtClock' = dhtClock + Second
    <3>1. dhtClock' - began <= Measuring(measure - 1) + Seconds(attempt)
      BY <2>1, <2>4, <2>5, <2>6, DhtNumbers
    <3>2. attempt' - 1 = attempt /\ attempt' > 0 /\ measure' # 4
      BY <2>1, <2>6, DhtNumbers
    <3> QED
      BY <2>1, <2>6, <3>1, <3>2 DEF ReadingIsShort, Reading
  <2>7. CASE /\ measure' = measure + 1 /\ attempt' = 1
             /\ dhtClock' \in {dhtClock + Second, dhtClock + 2 * Second}
    <3>1. dhtClock' - began <= Measuring(measure)
      BY <2>1, <2>4, <2>5, <2>7, DhtNumbers
    <3>2. measure' - 1 = measure /\ measure' # 0 /\ Seconds(attempt' - 1) = 0
      BY <2>1, <2>7, SecondsAre
    <3>3. Measuring(measure) \in Int
      BY <2>5, <2>4, DhtNumbers
    <3> QED
      BY <2>1, <2>7, <3>1, <3>2, <3>3 DEF ReadingIsShort, Reading
  <2> QED
    BY <2>2, <2>6, <2>7
<1>2. CASE BeginReading
  <2>1. measure' = 1 /\ attempt' = 1 /\ Reading' = 0
    BY <1>2, DhtNumbers DEF BeginReading, Reading
  <2>2. Measuring(1 - 1) + Seconds(1 - 1) = 0
    BY MeasuringIs, SecondsAre
  <2> QED
    BY <2>1, <2>2 DEF ReadingIsShort
<1>3. CASE NotDue \/ EndReading
  BY <1>3 DEF NotDue, EndReading, ReadingIsShort
<1>4. CASE DhtSleep
  BY <1>4, DhtConstants, DhtNumbers DEF DhtSleep, DhtInv, ReadingIsShort
<1>5. CASE UNCHANGED dhtVars
  BY <1>5 DEF dhtVars, InTimeInv, ReadingIsShort, Reading
<1> QED
  BY <1>1, <1>2, <1>3, <1>4, <1>5 DEF DhtNext

\* A reading that is over was not longer than the longest.
LEMMA ReadingEnds ==
    ASSUME DhtInv, InTimeInv, measure = 4
    PROVE  Reading <= LongestRead
<1>1. Reading <= Measuring(4 - 1) + Seconds(1 - 1)
  BY DEF InTimeInv, ReadingIsShort
<1>2. Measuring(4 - 1) + Seconds(1 - 1) = LongestRead
  BY MeasuringIs, SecondsAre, ReadingsAre
<1> QED
  BY <1>1, <1>2

-----------------------------------------------------------------------------

\* The times of one sensor.
LEMMA SensorTimes ==
    ASSUME DhtInv, NEW s \in 1..Sensors
    PROVE  /\ Elapsed(s) \in Int /\ Seconds(DhtInterval[s]) \in Nat
           /\ s < dhtPos => dhtPos - s \in Nat
           /\ ~(s < dhtPos) => Sensors - s + dhtPos \in Nat
           /\ s < dhtPos => Readings(dhtPos - s) \in Nat
           /\ ~(s < dhtPos) => Readings(Sensors - s + dhtPos) \in Nat
           /\ \A o \in Late : o \in Nat
<1>1. /\ dhtPos \in 1..Sensors + 1 /\ Sensors \in Nat /\ dhtClock \in Nat
      /\ last[s] \in Nat /\ DhtInterval[s] \in Nat
  BY DhtInvParts, DhtConstants
<1>2. /\ s < dhtPos => dhtPos - s \in Nat
      /\ ~(s < dhtPos) => Sensors - s + dhtPos \in Nat
  BY <1>1
<1>3. \A o \in Late : o \in Nat
  BY DhtConstants DEF Late
<1>4. Seconds(DhtInterval[s]) \in Nat
  BY <1>1, SecondsAre
<1>5. /\ s < dhtPos => Readings(dhtPos - s) \in Nat
      /\ ~(s < dhtPos) => Readings(Sensors - s + dhtPos) \in Nat
  BY <1>2, ReadingsAre
<1>6. Elapsed(s) \in Int
  BY <1>1 DEF Elapsed
<1> QED
  BY <1>2, <1>3, <1>4, <1>5, <1>6

\* While nothing else changes, a reading adds to what it takes what it adds to
\* the age of every sensor.
LEMMA AwakeInReading ==
    ASSUME DhtInv, InTimeInv, BeginReading \/ AttemptFails \/ AttemptSucceeds
    PROVE  AwakeInTime'
<1>1. /\ UNCHANGED <<dhtPos, last, wake>>
      /\ dhtClock' \in Int /\ Reading' \in Int
      /\ dhtClock' - dhtClock = Reading' - Reading
  BY DhtNumbers DEF BeginReading, AttemptFails, AttemptSucceeds, Reading
<1> SUFFICES ASSUME NEW s \in 1..Sensors, last[s] > 0
             PROVE  IF s < dhtPos
                    THEN Elapsed(s)' + Seconds(wake)
                             <= Seconds(DhtInterval[s]) + Readings(dhtPos - s) + Reading'
                    ELSE \E o \in Late :
                             Elapsed(s)' <= Seconds(DhtInterval[s])
                                           + Readings(Sensors - s + dhtPos)
                                           + Reading' + o
  BY <1>1 DEF AwakeInTime, InTimeInv, Seconds, Readings
<1>2. Elapsed(s)' = Elapsed(s) + (Reading' - Reading)
  <2>1. last[s] \in Nat
    BY DhtInvParts
  <2> QED
    BY <1>1, <2>1, DhtNumbers DEF Elapsed
<1>4. CASE s < dhtPos
  <2>1. Elapsed(s) + Seconds(wake) <= Seconds(DhtInterval[s]) + Readings(dhtPos - s) + Reading
    BY <1>4 DEF InTimeInv, AwakeInTime
  <2>2. Seconds(wake) \in Nat
    <3>1. wake \in Nat
      BY <1>4, DhtInvParts, DhtConstants DEF InTimeInv, AwakeInTime
    <3> QED
      BY <3>1, SecondsAre
  <2>3. Elapsed(s)' + Seconds(wake) <= Seconds(DhtInterval[s]) + Readings(dhtPos - s) + Reading'
    BY <1>1, <1>2, <1>4, <2>1, <2>2, SensorTimes, DhtNumbers
  <2> QED
    BY <1>4, <2>3
<1>5. CASE ~(s < dhtPos)
  <2>1. PICK o \in Late : Elapsed(s) <= Seconds(DhtInterval[s])
                                        + Readings(Sensors - s + dhtPos) + Reading + o
    BY <1>5 DEF InTimeInv, AwakeInTime
  <2>2. Elapsed(s)' <= Seconds(DhtInterval[s]) + Readings(Sensors - s + dhtPos) + Reading' + o
    BY <1>1, <1>2, <1>5, <2>1, SensorTimes, DhtNumbers
  <2> QED
    BY <1>5, <2>2
<1> QED
  BY <1>4, <1>5

LEMMA WholeParts ==
    ASSUME NEW d \in Nat, NEW c \in Nat, c > 0
    PROVE  (d \div c) * c <= d
OBVIOUS

\* What is left of an interval, in whole seconds, is no more than what is left.
LEMMA RestFits ==
    ASSUME NEW a \in Int, NEW k \in Nat, a < Seconds(k)
    PROVE  LET rest == (Seconds(k) - a) \div Second
           IN  rest \in Nat /\ Seconds(rest) <= Seconds(k) - a
<1> DEFINE d == Seconds(k) - a
           rest == d \div Second
<1>1. Seconds(k) \in Nat
  BY SecondsAre
<1>2. d \in Nat
  BY <1>1
<1> HIDE DEF d
<1>3. Second \in Nat /\ Second > 0
  BY DhtConstants
<1>4. (d \div Second) * Second <= d
  BY <1>2, <1>3, WholeParts
<1>5. rest \in Nat
  BY <1>2, TimesAreNat
<1> QED
  BY <1>4, <1>5 DEF Seconds, d

\* One reading more, one sensor further, and the sleep no longer.
LEMMA Waits ==
    ASSUME NEW age \in Int, NEW interval \in Nat, NEW before \in Nat, NEW reading \in Int,
           NEW longest \in Nat, reading <= longest
    PROVE  /\ \A long, short \in Nat :
                 age + long <= interval + before + reading /\ short <= long
                     => age + short <= interval + (before + longest)
           /\ \A o \in Nat :
                 age <= interval + before + reading + o
                     => age <= interval + (before + longest) + o
OBVIOUS

\* The time to sleep only gets shorter.
LEMMA SoonerIsSooner ==
    ASSUME DhtInv, NEW w \in Nat, wake' = Sooner(w)
    PROVE  /\ wake' \in Nat
           /\ Seconds(wake') <= Seconds(w)
           /\ wake # NoneYet => wake \in Nat /\ Seconds(wake') <= Seconds(wake)
<1>1. wake \in Nat \cup {NoneYet}
  BY DhtInvParts
<1>2. wake' \in Nat /\ wake' <= w /\ (wake # NoneYet => wake \in Nat /\ wake' <= wake)
  BY <1>1 DEF Sooner, NoneYet
<1> QED
  BY <1>2, SecondsAre

\* A sensor is passed or read: the others have waited for a reading more at
\* most.
LEMMA AwakeAfterSensor ==
    ASSUME DhtInv, InTimeInv, NEW p \in 1..Sensors, p = dhtPos, dhtPos' = dhtPos + 1,
           UNCHANGED dhtClock, Reading' = 0, Reading <= LongestRead,
           NEW w \in Nat, wake' = Sooner(w),
           \A s \in 1..Sensors : s # p => last'[s] = last[s],
           dhtClock - last'[p] + Seconds(w) <= Seconds(DhtInterval[p]) + LongestRead,
           last' \in [1..Sensors -> Nat]
    PROVE  AwakeInTime'
<1>1. dhtPos' > 1 /\ wake' # NoneYet
  BY SoonerIsSooner DEF NoneYet
<1> SUFFICES ASSUME NEW s \in 1..Sensors, last'[s] > 0
             PROVE  IF s < dhtPos'
                    THEN Elapsed(s)' + Seconds(wake')
                             <= Seconds(DhtInterval[s]) + Readings(dhtPos' - s) + 0
                    ELSE \E o \in Late :
                             Elapsed(s)' <= Seconds(DhtInterval[s])
                                           + Readings(Sensors - s + dhtPos') + 0 + o
  BY <1>1 DEF AwakeInTime, Seconds, Readings, LongestRead
<1>2. Seconds(wake') \in Nat /\ Seconds(w) \in Nat /\ LongestRead \in Nat
  BY SoonerIsSooner, SecondsAre, ReadingsAre
<1>3. /\ Sensors \in Nat /\ dhtClock \in Nat /\ Reading \in Int
      /\ last[s] \in Nat /\ last'[s] \in Nat
  BY DhtInvParts, DhtConstants, DhtNumbers
<1>7. Reading <= LongestRead
  OBVIOUS
<1>4. CASE s = p
  <2>1. Readings(0 + 1) = Readings(0) + LongestRead /\ Readings(0) \in Nat
    BY ReadingsAre
  <2>2. dhtPos' - s = 0 + 1 /\ s < dhtPos'
    BY <1>4
  <2>3. Elapsed(s)' = dhtClock - last'[p] /\ Elapsed(s)' \in Int
    BY <1>3, <1>4 DEF Elapsed
  <2>4. Seconds(wake') <= Seconds(w)
    BY SoonerIsSooner
  <2>5. Elapsed(s)' + Seconds(wake') <= Seconds(DhtInterval[s]) + LongestRead
    BY <1>2, <1>4, <2>3, <2>4, SensorTimes
  <2>6. Readings(dhtPos' - s) = Readings(0) + LongestRead
    BY <2>1, <2>2
  <2> QED
    BY <1>2, <2>1, <2>2, <2>3, <2>5, <2>6, SensorTimes
<1>5. CASE s < p
  <2>1. Elapsed(s) + Seconds(wake) <= Seconds(DhtInterval[s]) + Readings(dhtPos - s) + Reading
    BY <1>5 DEF InTimeInv, AwakeInTime
  <2>2. /\ s < dhtPos' /\ dhtPos' - s = (dhtPos - s) + 1 /\ dhtPos - s \in Nat
        /\ dhtPos > 1
    BY <1>3, <1>5
  <2>3. /\ Readings(dhtPos' - s) = Readings(dhtPos - s) + LongestRead
        /\ Readings(dhtPos - s) \in Nat
    BY <2>2, ReadingsAre
  <2>4. Elapsed(s)' = Elapsed(s)
    BY <1>5 DEF Elapsed
  <2>5. Seconds(wake') <= Seconds(wake) /\ Seconds(wake) \in Nat
    BY <2>2, SoonerIsSooner, SecondsAre DEF InTimeInv, AwakeInTime
  <2>6. Elapsed(s) + Seconds(wake')
            <= Seconds(DhtInterval[s]) + (Readings(dhtPos - s) + LongestRead)
    <3>1. Elapsed(s) \in Int /\ Seconds(DhtInterval[s]) \in Nat
      BY SensorTimes
    <3> QED
      BY Zenon, <1>2, <1>3, <1>7, <2>1, <2>3, <2>5, <3>1, Waits
  <2>7. Readings(dhtPos' - s) \in Nat
    BY <1>2, <2>3
  <2>8. Elapsed(s)' + Seconds(wake') <= Seconds(DhtInterval[s]) + Readings(dhtPos' - s)
    BY <2>3, <2>4, <2>6
  <2> QED
    BY <2>2, <2>7, <2>8, SensorTimes
<1>6. CASE s > p
  <2>1. PICK o \in Late : Elapsed(s) <= Seconds(DhtInterval[s])
                                        + Readings(Sensors - s + dhtPos) + Reading + o
    BY <1>6 DEF InTimeInv, AwakeInTime
  <2>2. /\ ~(s < dhtPos') /\ Sensors - s + dhtPos' = (Sensors - s + dhtPos) + 1
        /\ Sensors - s + dhtPos \in Nat /\ ~(s < dhtPos)
    BY <1>3, <1>6
  <2>3. /\ Readings(Sensors - s + dhtPos') = Readings(Sensors - s + dhtPos) + LongestRead
        /\ Readings(Sensors - s + dhtPos) \in Nat
    BY <2>2, ReadingsAre
  <2>4. Elapsed(s)' = Elapsed(s)
    BY <1>6 DEF Elapsed
  <2>5. Elapsed(s) <= Seconds(DhtInterval[s])
                      + (Readings(Sensors - s + dhtPos) + LongestRead) + o
    <3>1. Elapsed(s) \in Int /\ Seconds(DhtInterval[s]) \in Nat /\ o \in Nat
      BY SensorTimes
    <3> QED
      BY Zenon, <1>2, <1>3, <1>7, <2>1, <2>3, <3>1, Waits
  <2>6. /\ Seconds(DhtInterval[s]) \in Nat /\ o \in Nat
        /\ Readings(Sensors - s + dhtPos') \in Nat
    BY <1>2, <2>3, SensorTimes
  <2>7. Elapsed(s)' <= Seconds(DhtInterval[s]) + Readings(Sensors - s + dhtPos') + 0 + o
    BY <2>3, <2>4, <2>5, <2>6
  <2> QED
    BY <2>2, <2>7
<1> QED
  BY <1>4, <1>5, <1>6

LEMMA AwakePassing ==
    ASSUME DhtInv, InTimeInv, NotDue
    PROVE  AwakeInTime'
<1> DEFINE rest == (DhtInterval[dhtPos] * Second - Elapsed(dhtPos)) \div Second
<1>1. /\ dhtPos \in 1..Sensors /\ measure = 0 /\ last \in [1..Sensors -> Nat]
      /\ dhtPos' = dhtPos + 1 /\ wake' = Sooner(rest)
      /\ UNCHANGED <<measure, last, dhtClock>>
  <2>1. /\ dhtPos <= Sensors /\ measure = 0
        /\ dhtPos' = dhtPos + 1 /\ wake' = Sooner(rest)
        /\ measure' = measure /\ last' = last /\ dhtClock' = dhtClock
    BY DEF NotDue
  <2>2. dhtPos \in 1..Sensors /\ last \in [1..Sensors -> Nat]
    <3>1. dhtPos <= Sensors
      BY Zenon, <2>1
    <3> HIDE DEF rest
    <3>2. dhtPos \in 1..Sensors + 1 /\ last \in [1..Sensors -> Nat] /\ Sensors \in Nat
      BY DhtInvParts, DhtConstants
    <3> QED
      BY <3>1, <3>2
  <2> QED
    BY Zenon, <2>1, <2>2
<1>2. DhtInterval[dhtPos] \in Nat
  BY <1>1, DhtConstants
<1>3. Elapsed(dhtPos) \in Int /\ Elapsed(dhtPos) < Seconds(DhtInterval[dhtPos])
  BY <1>1, SensorTimes DEF NotDue, Seconds
<1>4. rest \in Nat /\ Seconds(rest) <= Seconds(DhtInterval[dhtPos]) - Elapsed(dhtPos)
  <2>1. rest = (Seconds(DhtInterval[dhtPos]) - Elapsed(dhtPos)) \div Second
    BY DEF Seconds
  <2> QED
    BY <1>2, <1>3, <2>1, RestFits
<1> HIDE DEF rest
<1>5. Reading = 0 /\ Reading' = 0
  BY <1>1 DEF Reading
<1>6. Reading <= LongestRead
  BY <1>5, ReadingsAre
<1>7. dhtClock - last'[dhtPos] + Seconds(rest) <= Seconds(DhtInterval[dhtPos]) + LongestRead
  <2>1. dhtClock - last'[dhtPos] = Elapsed(dhtPos)
    BY <1>1 DEF Elapsed
  <2>2. Seconds(rest) \in Nat /\ Seconds(DhtInterval[dhtPos]) \in Nat /\ LongestRead \in Nat
    BY <1>2, <1>4, SecondsAre, ReadingsAre
  <2> QED
    BY <1>3, <1>4, <2>1, <2>2
<1> QED
  BY <1>1, <1>4, <1>5, <1>6, <1>7, AwakeAfterSensor

LEMMA AwakeRead ==
    ASSUME DhtInv, InTimeInv, EndReading
    PROVE  AwakeInTime'
<1>1. /\ dhtPos \in 1..Sensors /\ measure = 4 /\ began \in Nat /\ dhtClock \in Nat
      /\ last \in [1..Sensors -> Nat] /\ last' = [last EXCEPT ![dhtPos] = began]
      /\ dhtPos' = dhtPos + 1 /\ wake' = Sooner(DhtInterval[dhtPos])
      /\ measure' = 0 /\ UNCHANGED dhtClock
  <2>1. /\ measure = 4 /\ last' = [last EXCEPT ![dhtPos] = began]
        /\ dhtPos' = dhtPos + 1 /\ wake' = Sooner(DhtInterval[dhtPos])
        /\ measure' = 0 /\ dhtClock' = dhtClock
    BY Zenon DEF EndReading
  <2>2. dhtPos \in 1..Sensors
    BY <2>1, DhtInvParts, DhtConstants
  <2> QED
    BY Zenon, <2>1, <2>2, DhtInvParts
<1>2. DhtInterval[dhtPos] \in Nat
  BY <1>1, DhtConstants
<1>3. /\ last' \in [1..Sensors -> Nat] /\ last'[dhtPos] = began
      /\ \A s \in 1..Sensors : s # dhtPos => last'[s] = last[s]
  BY <1>1
<1>4. Reading = dhtClock - began /\ Reading <= LongestRead /\ Reading' = 0
  BY <1>1, ReadingEnds DEF Reading
<1>5. dhtClock - last'[dhtPos] + Seconds(DhtInterval[dhtPos])
          <= Seconds(DhtInterval[dhtPos]) + LongestRead
  <2>1. Seconds(DhtInterval[dhtPos]) \in Nat /\ LongestRead \in Nat
    BY <1>2, SecondsAre, ReadingsAre
  <2> QED
    BY <1>1, <1>3, <1>4, <2>1
<1> QED
  BY <1>1, <1>2, <1>3, <1>4, <1>5, AwakeAfterSensor

\* When the cycle is over every sensor was counted in what it sleeps; the next
\* cycle has them all before it.
LEMMA AwakeAfterSleep ==
    ASSUME DhtInv, InTimeInv, DhtSleep
    PROVE  AwakeInTime'
<1>1. /\ dhtPos = Sensors + 1 /\ dhtPos' = 1 /\ UNCHANGED <<measure, last, began>>
      /\ Sensors \in Nat \ {0} /\ dhtClock \in Nat /\ last \in [1..Sensors -> Nat]
      /\ wake \in Nat \cup {NoneYet}
  BY DhtInvParts, DhtConstants DEF DhtSleep
<1>2. wake \in Nat /\ Seconds(wake) \in Nat
  <2>1. wake # NoneYet
    BY <1>1 DEF InTimeInv, AwakeInTime
  <2> QED
    BY <1>1, <2>1, SecondsAre
<1>3. measure = 0 /\ Reading = 0 /\ Reading' = 0
  <2>1. measure = 0
    BY <1>1, DhtInvParts, DhtConstants
  <2> QED
    BY <1>1, <2>1 DEF Reading
<1>4. PICK o \in Late : o \in Nat /\ dhtClock' = dhtClock + Seconds(wake) + o
  <2>1. CASE wake > 0
    BY <2>1, DhtConstants DEF DhtSleep, Late, Seconds
  <2>2. CASE ~(wake > 0)
    <3>1. Seconds(wake) = 0
      BY <1>2, <2>2, SecondsAre
    <3>2. dhtClock' = dhtClock + 1
      BY <2>2 DEF DhtSleep
    <3>3. dhtClock' = dhtClock + Seconds(wake) + 1
      BY <1>1, <3>1, <3>2
    <3> QED
      BY <3>3 DEF Late
  <2> QED
    BY <2>1, <2>2
<1> SUFFICES ASSUME NEW s \in 1..Sensors, last[s] > 0
             PROVE  /\ ~(s < dhtPos')
                    /\ Elapsed(s)' <= Seconds(DhtInterval[s])
                                      + Readings(Sensors - s + dhtPos') + 0 + o
  BY <1>1, <1>3 DEF AwakeInTime, Seconds, Readings, LongestRead
<1>5. s < dhtPos /\ Sensors - s + dhtPos' = dhtPos - s /\ ~(s < dhtPos')
  BY <1>1
<1>6. Elapsed(s) + Seconds(wake) <= Seconds(DhtInterval[s]) + Readings(dhtPos - s) + Reading
  BY <1>5 DEF InTimeInv, AwakeInTime
<1>7. /\ Elapsed(s) \in Int /\ Seconds(DhtInterval[s]) \in Nat
      /\ Readings(dhtPos - s) \in Nat
  BY <1>5, SensorTimes
<1>8. Elapsed(s)' = Elapsed(s) + Seconds(wake) + o
  <2>1. last[s] \in Nat /\ last'[s] = last[s]
    BY <1>1
  <2> QED
    BY <1>1, <1>2, <1>4, <2>1 DEF Elapsed
<1>9. Readings(Sensors - s + dhtPos') = Readings(dhtPos - s)
  BY <1>5
<1> QED
  BY <1>2, <1>3, <1>4, <1>5, <1>6, <1>7, <1>8, <1>9

LEMMA InTimeStep == DhtInv /\ InTimeInv /\ [DhtNext]_dhtVars => InTimeInv'
<1> SUFFICES ASSUME DhtInv, InTimeInv, [DhtNext]_dhtVars
             PROVE  AwakeInTime'
  BY ReadingKeeps DEF InTimeInv
<1>1. CASE UNCHANGED dhtVars
  BY <1>1 DEF dhtVars, InTimeInv, AwakeInTime, Elapsed, Reading
<1> QED
  BY <1>1, AwakePassing, AwakeInReading, AwakeRead, AwakeAfterSleep DEF DhtNext

\* The loop of dht_service comes back to every sensor in its interval, a reading
\* of each sensor and the delay of the sleep, for all numbers of sensors and all
\* intervals.
THEOREM SensorsReadInTime == DhtSpec => []SensorInTime
<1>1. DhtInit => DhtInv /\ InTimeInv
  BY DhtInvInit, InTimeInit
<1>2. DhtInv /\ InTimeInv /\ [DhtNext]_dhtVars => DhtInv' /\ InTimeInv'
  BY DhtInvStep, InTimeStep
<1>3. DhtInv /\ InTimeInv => SensorInTime
  <2> SUFFICES ASSUME DhtInv, InTimeInv, dhtPos <= Sensors, measure = 0, last[dhtPos] > 0
               PROVE  \E o \in Late : Elapsed(dhtPos) <=
                          DhtInterval[dhtPos] * Second + Sensors * LongestRead + o
    BY DEF SensorInTime
  <2>1. dhtPos \in 1..Sensors /\ Sensors \in Nat
    BY DhtInvParts, DhtConstants
  <2>2. PICK o \in Late : Elapsed(dhtPos) <= Seconds(DhtInterval[dhtPos])
                              + Readings(Sensors - dhtPos + dhtPos) + Reading + o
    BY <2>1 DEF InTimeInv, AwakeInTime
  <2>3. Sensors - dhtPos + dhtPos = Sensors
    BY <2>1
  <2>4. Reading = 0
    BY DEF Reading
  <2>5. /\ Seconds(DhtInterval[dhtPos]) \in Nat /\ Readings(Sensors) \in Nat
        /\ Elapsed(dhtPos) \in Int /\ o \in Nat
    BY <2>1, SensorTimes, ReadingsAre
  <2>6. Elapsed(dhtPos) <= Seconds(DhtInterval[dhtPos]) + Readings(Sensors) + o
    BY <2>2, <2>3, <2>4, <2>5
  <2> QED
    BY <2>6 DEF Seconds, Readings
<1> QED
  BY <1>1, <1>2, <1>3, PTL DEF DhtSpec

=============================================================================
