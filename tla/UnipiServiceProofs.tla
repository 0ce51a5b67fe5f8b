------------------------- MODULE UnipiServiceProofs -------------------------
(***************************************************************************)
(* Proofs about UnipiService for every interval, number of tries, board    *)
(* and message.                                                            *)
(***************************************************************************)
EXTENDS UnipiService, TLAPS

LEMMA BoundFacts ==
    /\ Interval \in Nat \ {0} /\ MaxTries \in Nat \ {0}
    /\ LongestReading = 2 * (MaxTries - 1) /\ LongestReading \in Nat
    /\ Bound \in Nat /\ Interval <= Bound /\ LongestReading <= Bound
<1>1. Interval \in Nat \ {0} /\ MaxTries \in Nat \ {0}
  BY Zenon, UnipiAssumption
<1>2. LongestReading = 2 * (MaxTries - 1) /\ LongestReading \in Nat
  BY <1>1 DEF LongestReading
<1> QED
  BY <1>1, <1>2 DEF Bound, Longer

LEMMA OtherConstants ==
    /\ AO \notin Relays
    /\ \A c \in Codes : c \in Int
    /\ MaxVoltage \in Nat /\ \A v \in Voltages : v \in Int
    /\ Messages \subseteq Seq(Instructions)
    /\ 0 \in 0..MaxMessages /\ 0 \in 0..MaxRestarts
    /\ MaxMessages \in Nat /\ MaxRestarts \in Nat
<1>1. /\ AO \notin Relays
      /\ Codes \subseteq -2 * TwoBytes .. 2 * TwoBytes - 1
      /\ MaxVoltage \in Nat /\ Voltages \subseteq Int
      /\ Messages \subseteq Seq(Instructions)
      /\ MaxMessages \in Nat /\ MaxRestarts \in Nat
  BY Zenon, UnipiAssumption
<1>2. \A c \in Codes : c \in Int
  <2>1. TwoBytes \in Int
    BY SMT DEF TwoBytes
  <2> QED
    BY <1>1, <2>1
<1>3. 0 \in 0..MaxMessages /\ 0 \in 0..MaxRestarts
  BY <1>1
<1> QED
  BY Zenon, <1>1, <1>2, <1>3

\* The times are numbers.
LEMMA TimeTypes ==
    ASSUME ReaderTypeOK
    PROVE  left \in Nat /\ age \in Nat /\ duration \in Nat /\ joining \in Nat
BY DEF ReaderTypeOK

\* What the invariant says while the process runs, and always.
LEMMA InvParts ==
    ASSUME UnipiInv
    PROVE  /\ ReaderTypeOK /\ OutputTypeOK /\ up \in BOOLEAN /\ restarts \in 0..MaxRestarts
           /\ OutputsAsAsked
           /\ up => ReaderTimes /\ JoinTimes /\ MirrorIsLatch
BY DEF UnipiInv, UnipiTypeOK

\* What a step of the reading thread or of the destructor leaves alone.
LEMMA OutputsKept ==
    ASSUME UnipiInv, UNCHANGED <<outputVars, restarts>>, up' = up \/ up' = FALSE
    PROVE  /\ up' => MirrorIsLatch'
           /\ OutputsAsAsked' /\ OutputTypeOK'
           /\ restarts' \in 0..MaxRestarts /\ up' \in BOOLEAN
<1>1. UNCHANGED <<latch, mirror, message, asked, messages>>
  BY DEF outputVars
<1>2. OutputTypeOK'
  BY <1>1, InvParts DEF OutputTypeOK
<1>3. up' \in BOOLEAN
  BY Zenon, InvParts
<1>4. (up' => MirrorIsLatch') /\ OutputsAsAsked'
  BY <1>1, InvParts DEF MirrorIsLatch, OutputsAsAsked
<1> QED
  BY <1>2, <1>3, <1>4, InvParts

\* Such a step keeps the invariant if it keeps what it says of the thread.
LEMMA ReaderStep ==
    ASSUME UnipiInv, UNCHANGED <<outputVars, restarts>>, up' = up \/ up' = FALSE,
           ReaderTypeOK', up' => ReaderTimes' /\ JoinTimes'
    PROVE  UnipiInv'
BY OutputsKept DEF UnipiInv, UnipiTypeOK

LEMMA UnipiInvInit == UnipiInit => UnipiInv
<1> SUFFICES ASSUME UnipiInit PROVE UnipiInv
  OBVIOUS
<1>1. latch \in [Outputs -> {0, 1}] /\ mirror = [r \in Relays |-> latch[r]]
  BY DEF UnipiInit, ReadState
<1>2. mirror \in [Relays -> {0, 1}] /\ \A r \in Relays : latch[r] \in {0, 1}
  BY <1>1 DEF Outputs
<1>3. OutputTypeOK
  <2>1. latch \in [Outputs -> Int] /\ asked = latch
    BY <1>1 DEF UnipiInit
  <2>2. message \in Seq(Instructions) /\ messages \in 0..MaxMessages
    BY OtherConstants DEF UnipiInit
  <2> QED
    BY Zenon, <2>1, <2>2, <1>2 DEF OutputTypeOK
<1>4. ReaderTypeOK /\ restarts \in 0..MaxRestarts
  BY BoundFacts, OtherConstants DEF UnipiInit, ReaderTypeOK
<1>5. ReaderTimes /\ JoinTimes
  BY BoundFacts DEF UnipiInit, ReaderTimes, JoinTimes, Bound, Lost
<1> QED
  BY <1>1, <1>3, <1>4, <1>5
     DEF UnipiInv, UnipiTypeOK, UnipiInit, MirrorIsLatch, OutputsAsAsked

-----------------------------------------------------------------------------
(* The reading thread.                                                     *)

LEMMA CheckKeeps ==
    ASSUME UnipiInv, Check
    PROVE  UnipiInv'
<1>1. /\ up /\ up' = up /\ reader = "check" /\ ReaderTimes /\ JoinTimes
      /\ UNCHANGED <<ender, notified, code, voltage, outputVars, restarts>>
      /\ ReaderTypeOK /\ age <= Bound + 1
  BY InvParts DEF Check, ReaderTimes
<1>2. CASE ~Runs
  <2>1. /\ reader' = "ended" /\ UNCHANGED <<channel, left, age, duration>>
        /\ joining' = joining
    BY <1>2, TimeTypes, <1>1 DEF Check
  <2>2. ReaderTypeOK' /\ ReaderTimes' /\ JoinTimes'
    BY <1>1, <2>1 DEF ReaderTypeOK, ReaderTimes, JoinTimes, Lost
  <2> QED
    BY <1>1, <2>2, ReaderStep
<1>3. CASE Runs
  <2>1. ender = "none" /\ ender' = "none" /\ joining = 0 /\ joining' = 0 /\ ~Lost'
    BY <1>1, <1>3 DEF Check, Runs, JoinTimes, Lost
  <2>2. \/ /\ reader' = "read" /\ channel' = 2 /\ left' = MaxTries /\ duration' = 0
           /\ UNCHANGED age
        \/ /\ age < Interval /\ reader' = "towait" /\ left' = Interval - age
           /\ UNCHANGED <<channel, age, duration>>
        \/ age = Interval /\ age' = age + 1 /\ UNCHANGED <<reader, channel, left, duration>>
    BY <1>1, <1>3, TimeTypes, BoundFacts DEF Check, SleepTime
  <2>3. ReaderTypeOK'
    BY <1>1, <2>1, <2>2, BoundFacts DEF ReaderTypeOK
  <2>4. ReaderTimes'
    BY <1>1, <2>2, TimeTypes, BoundFacts DEF ReaderTimes
  <2>5. JoinTimes'
    BY <2>1, BoundFacts DEF JoinTimes, Bound, Lost
  <2> QED
    BY <1>1, <2>3, <2>4, <2>5, ReaderStep
<1> QED
  BY <1>2, <1>3

LEMMA DecodeGivesInt ==
    ASSUME NEW c \in Int
    PROVE  Decode(c) \in Int
<1> DEFINE bytes == c % ThreeBytes
           negative == (bytes \div TwoBytes) % 4 # 0
<1>1. ThreeBytes \in Nat \ {0}
  BY SMT DEF ThreeBytes
<1>2. bytes \in Int
  BY <1>1
<1>3. Decode(c) = IF negative THEN bytes - ThreeBytes ELSE bytes
  BY Zenon DEF Decode
<1> HIDE DEF bytes, negative
<1> QED
  BY <1>1, <1>2, <1>3

LEMMA TryKeeps ==
    ASSUME UnipiInv, Try
    PROVE  UnipiInv'
<1>1. /\ up /\ reader = "read" /\ ReaderTimes /\ JoinTimes /\ ReaderTypeOK
      /\ age' = age + 1 /\ duration' = duration + 1 /\ ender' = ender /\ notified' = notified
      /\ joining' = (IF ender = "join" THEN joining + 1 ELSE joining)
      /\ UNCHANGED <<outputVars, restarts>>
  BY InvParts DEF Try
<1>2. /\ left \in 1..MaxTries /\ channel \in {1, 2}
      /\ duration <= (IF channel = 2 THEN 0 ELSE MaxTries - 1) + MaxTries - left
      /\ ender = "join" => Lost /\ joining <= duration
      /\ ender # "join" => joining = 0 /\ ~Lost
      /\ joining \in Nat /\ duration \in Nat /\ age \in Nat /\ left \in Nat
      /\ ender \in {"none", "notify", "join"} /\ code \in Int /\ voltage \in Int
  BY <1>1 DEF ReaderTimes, JoinTimes, ReaderTypeOK, Lost
<1>4. \A c \in Codes : c \in Int /\ Decode(c) \in Int
  <2>1. \A c \in Codes : c \in Int
    BY OtherConstants
  <2> QED
    BY <2>1, DecodeGivesInt
<1>5. CASE up' = FALSE /\ UNCHANGED <<reader, channel, left, code, voltage>>
  <2>1. ReaderTypeOK'
    BY <1>1, <1>2, <1>5 DEF ReaderTypeOK
  <2> QED
    BY <1>1, <1>5, <2>1, ReaderStep
<1>6. CASE /\ up' = up
           /\ \/ /\ left # 1 /\ left' = left - 1
                 /\ UNCHANGED <<reader, channel, code, voltage>>
              \/ /\ left # 1 /\ channel = 2 /\ channel' = 1 /\ left' = MaxTries
                 /\ UNCHANGED <<reader, code, voltage>>
              \/ /\ left # 1 /\ channel = 1 /\ reader' = "report"
                 /\ code' \in Int /\ voltage' \in Int
                 /\ UNCHANGED <<channel, left>>
  <2>1. ReaderTimes'
    BY <1>1, <1>2, <1>6, BoundFacts DEF ReaderTimes
  <2>2. JoinTimes'
    BY <1>1, <1>2, <1>6 DEF JoinTimes, Lost
  <2>3. ReaderTypeOK'
    BY <1>1, <1>2, <1>6, BoundFacts DEF ReaderTypeOK
  <2> QED
    BY <1>1, <1>6, <2>1, <2>2, <2>3, ReaderStep
<1>7. \/ /\ up' = FALSE
         /\ UNCHANGED <<reader, channel, left, code, voltage>>
      \/ /\ Look(FALSE) = "again" /\ left' = left - 1
         /\ UNCHANGED <<reader, channel, code, voltage, up>>
      \/ /\ Look(TRUE) = "done" /\ channel = 2
         /\ channel' = 1 /\ left' = MaxTries
         /\ UNCHANGED <<reader, code, voltage, up>>
      \/ /\ Look(TRUE) = "done" /\ channel = 1
         /\ \E c \in Codes : code' = c /\ voltage' = Decode(c)
         /\ reader' = "report"
         /\ UNCHANGED <<channel, left, up>>
  BY DEF Try
<1>8. (Look(FALSE) = "again" => left # 1) /\ (Look(TRUE) = "done" => left # 1)
  BY DEF Look
<1> QED
  BY <1>4, <1>5, <1>6, <1>7, <1>8

LEMMA ReportKeeps ==
    ASSUME UnipiInv, Report
    PROVE  UnipiInv'
<1>1. /\ up /\ up' = up /\ reader = "report" /\ duration <= LongestReading
      /\ JoinTimes /\ ReaderTypeOK
      /\ age' = duration /\ UNCHANGED <<duration, ender, joining, notified, outputVars, restarts>>
      /\ UNCHANGED <<channel, code, voltage>>
  BY InvParts DEF Report, ReaderTimes
<1>2. \/ duration < Interval /\ reader' = "towait" /\ left' = Interval - duration
      \/ duration >= Interval /\ reader' = "check" /\ left' = 0
  BY <1>1, TimeTypes, BoundFacts DEF Report, SleepTime
<1>3. ReaderTypeOK'
  BY <1>1, <1>2, BoundFacts DEF ReaderTypeOK
<1>4. ReaderTimes'
  BY <1>1, <1>2, TimeTypes, BoundFacts DEF ReaderTimes
<1>5. JoinTimes'
  BY <1>1, <1>2, TimeTypes, BoundFacts DEF JoinTimes, Lost
<1> QED
  BY <1>1, <1>3, <1>4, <1>5, ReaderStep

LEMMA SleepKeeps ==
    ASSUME UnipiInv, Block \/ Tick \/ Wake
    PROVE  UnipiInv'
<1>1. /\ up /\ up' = up /\ reader \in {"towait", "sleep"} /\ ReaderTypeOK
      /\ UNCHANGED <<duration, ender, notified, outputVars, restarts, channel, code, voltage>>
      /\ age + left = Interval
      /\ ender # "join" => joining = 0 /\ ~Lost
      /\ ender = "join" => Lost /\ joining + left <= Interval
  BY InvParts DEF Block, Tick, Wake, ReaderTimes, JoinTimes, Lost
<1>2. \/ reader' = "sleep" /\ UNCHANGED <<left, age, joining>>
      \/ /\ reader' = "check" /\ left' = 0 /\ UNCHANGED <<age, joining>>
      \/ /\ left > 0 /\ left' = left - 1 /\ age' = age + 1 /\ reader' = "sleep"
         /\ joining' = (IF ender = "join" THEN joining + 1 ELSE joining)
  BY <1>1 DEF Block, Tick, Wake
<1>3. ReaderTypeOK'
  BY <1>1, <1>2 DEF ReaderTypeOK
<1>4. ReaderTimes'
  BY <1>1, <1>2, TimeTypes, BoundFacts DEF ReaderTimes
<1>5. JoinTimes'
  BY <1>1, <1>2, TimeTypes, BoundFacts DEF JoinTimes, Lost
<1> QED
  BY <1>1, <1>3, <1>4, <1>5, ReaderStep

-----------------------------------------------------------------------------
(* The end of the process.                                                 *)

LEMMA DeathKeeps ==
    ASSUME UnipiInv, UNCHANGED <<readerVars, outputVars, restarts>>, up' = FALSE
    PROVE  UnipiInv'
<1>1. ReaderTypeOK'
  BY InvParts DEF readerVars, ReaderTypeOK, Lost
<1> QED
  BY <1>1, ReaderStep

LEMMA EnderKeeps ==
    ASSUME UnipiInv, LowerFlag \/ Notify
    PROVE  UnipiInv'
<1>1. /\ up /\ up' = up /\ ReaderTimes /\ JoinTimes /\ ReaderTypeOK
      /\ ender \in {"none", "notify"} /\ ender' \in {"notify", "join"}
      /\ UNCHANGED <<channel, age, duration, code, voltage, outputVars, restarts>>
  BY InvParts DEF LowerFlag, Notify
<1>2. joining = 0 /\ joining' = 0 /\ ~Lost
  BY <1>1 DEF LowerFlag, Notify, JoinTimes, Lost
<1>3. \/ UNCHANGED <<reader, left, notified>> /\ ender' = "notify"
      \/ /\ UNCHANGED <<reader, left>> /\ ender' = "join" /\ reader # "sleep"
         /\ notified' = reader
      \/ reader = "sleep" /\ reader' = "check" /\ left' = 0 /\ ender' = "join" /\ notified' = "sleep"
  BY <1>1 DEF LowerFlag, Notify
<1>4. ReaderTypeOK'
  BY <1>1, <1>2, <1>3 DEF ReaderTypeOK
<1>5. ReaderTimes'
  BY <1>1, <1>3, TimeTypes, BoundFacts DEF ReaderTimes
<1>6. JoinTimes'
  <2>1. CASE ender' = "notify"
    BY <1>2, <1>3, <2>1 DEF JoinTimes, Lost
  <2>2. CASE ender' = "join" /\ reader = "sleep"
    BY <1>2, <1>3, <2>2, BoundFacts DEF JoinTimes, Lost
  <2>3. CASE ender' = "join" /\ reader # "sleep" /\ notified' = reader
    <3>1. reader \in {"read", "report", "towait", "check", "ended"}
      BY <1>1, <2>3 DEF ReaderTypeOK
    <3>2. reader = "towait" => left <= Interval
      BY <1>1, TimeTypes, BoundFacts DEF ReaderTimes
    <3>3. UNCHANGED <<reader, left, duration>>
      BY <1>1, <1>3, <2>3
    <3> QED
      BY <1>1, <1>2, <2>3, <3>1, <3>2, <3>3, TimeTypes, BoundFacts DEF JoinTimes, Lost
  <2> QED
    BY <1>1, <1>3, <2>1, <2>2, <2>3
<1> QED
  BY <1>1, <1>4, <1>5, <1>6, ReaderStep

-----------------------------------------------------------------------------
(* The outputs.                                                            *)

\* The thread is left alone by what sets the outputs.
LEMMA OutputStep ==
    ASSUME UnipiInv, UNCHANGED <<readerVars, restarts>>, up' = up \/ up' = FALSE,
           OutputTypeOK', OutputsAsAsked', up' => MirrorIsLatch'
    PROVE  UnipiInv'
<1>1. UNCHANGED <<reader, channel, left, age, duration, ender, code, voltage, joining, notified>>
  BY DEF readerVars
<1>2. ReaderTypeOK'
  BY <1>1, InvParts DEF ReaderTypeOK, Lost
<1>3. up' => ReaderTimes' /\ JoinTimes'
  BY <1>1, InvParts DEF ReaderTimes, JoinTimes, Lost
<1> QED
  BY <1>2, <1>3, InvParts DEF UnipiInv, UnipiTypeOK

\* The first instruction of a message.
LEMMA HeadFacts ==
    ASSUME OutputTypeOK, message # <<>>
    PROVE  /\ Tail(message) \in Seq(Instructions)
           /\ Head(message)[1] \in Relays => Head(message)[2] \in {0, 1}
           /\ Head(message)[1] = AO => Head(message)[2] \in Int
<1>1. Head(message) \in Instructions /\ Tail(message) \in Seq(Instructions)
  BY DEF OutputTypeOK
<1> DEFINE h == Head(message)
<1>2. h \in Relays \X {0, 1} \/ h \in {AO} \X Voltages
  BY <1>1 DEF Instructions
<1> HIDE DEF h
<1>3. (h[1] \in Relays => h[2] \in {0, 1}) /\ (h[1] = AO => h[2] \in Int)
  BY <1>2, OtherConstants
<1> QED
  BY <1>1, <1>3 DEF h

LEMMA ArrivesKeeps ==
    ASSUME UnipiInv, Arrives
    PROVE  UnipiInv'
<1>1. OutputTypeOK /\ up /\ up' = up /\ MirrorIsLatch /\ OutputsAsAsked
      /\ UNCHANGED <<readerVars, restarts, latch, mirror, asked>>
  BY InvParts DEF Arrives
<1>2. message' \in Seq(Instructions) /\ messages' \in 0..MaxMessages
  BY <1>1, OtherConstants DEF Arrives, OutputTypeOK
<1>3. OutputTypeOK'
  BY <1>1, <1>2 DEF OutputTypeOK
<1> QED
  BY <1>1, <1>3, OutputStep DEF MirrorIsLatch, OutputsAsAsked

\* One relay changes: the others are written as the mirror has them, which is as
\* they are.
LEMMA SetRelayKeeps ==
    ASSUME UnipiInv, SetRelay
    PROVE  UnipiInv'
<1> DEFINE r == Head(message)[1]
           v == Head(message)[2]
           written == [o \in Outputs |-> IF o = r THEN v ELSE IF o = AO THEN latch[AO] ELSE mirror[o]]
<1>1. /\ up /\ OutputTypeOK /\ MirrorIsLatch /\ latch = asked
      /\ message # <<>> /\ r \in Relays
      /\ UNCHANGED <<readerVars, messages, restarts>>
  BY InvParts DEF SetRelay, OutputsAsAsked
<1>2. v \in {0, 1} /\ Tail(message) \in Seq(Instructions)
  BY <1>1, HeadFacts
<1>3. latch \in [Outputs -> Int] /\ mirror = [q \in Relays |-> latch[q]]
      /\ mirror \in [Relays -> {0, 1}] /\ \A q \in Relays : latch[q] \in {0, 1}
      /\ messages \in 0..MaxMessages
      /\ asked \in [Outputs -> Int] /\ message \in Seq(Instructions)
  BY <1>1 DEF OutputTypeOK, MirrorIsLatch
<1>4. \/ /\ latch' = written /\ mirror' = [q \in Relays |-> written[q]]
         /\ asked' = [asked EXCEPT ![r] = v]
         /\ message' = Tail(message) /\ up' = up
      \/ /\ latch' = written /\ asked' = [asked EXCEPT ![r] = v]
         /\ UNCHANGED <<mirror, message>> /\ up' = FALSE
      \/ UNCHANGED <<latch, mirror, asked, message>> /\ up' = FALSE
  BY Zenon DEF SetRelay
<1> HIDE DEF r, v
<1>5. written = [latch EXCEPT ![r] = v] /\ written \in [Outputs -> Int]
  <2>1. r \in Outputs /\ AO \notin Relays
    BY <1>1, OtherConstants DEF Outputs
  <2>2. \A o \in Outputs : o # r /\ o # AO => mirror[o] = latch[o]
    BY <1>3 DEF Outputs
  <2>3. \A o \in Outputs : written[o] = (IF o = r THEN v ELSE latch[o])
    BY <2>2
  <2>4. written = [o \in Outputs |-> IF o = r THEN v ELSE latch[o]]
    BY <2>3
  <2>5. [latch EXCEPT ![r] = v] = [o \in Outputs |-> IF o = r THEN v ELSE latch[o]]
    BY <1>3, <2>1
  <2>6. \A o \in Outputs : (IF o = r THEN v ELSE latch[o]) \in Int
    BY <1>2, <1>3
  <2>7. written \in [Outputs -> Int]
    BY <2>4, <2>6
  <2> QED
    BY Zenon, <2>4, <2>5, <2>7
<1>6. /\ \A q \in Relays : written[q] \in {0, 1}
      /\ [q \in Relays |-> written[q]] \in [Relays -> {0, 1}]
  BY <1>1, <1>2, <1>3, OtherConstants DEF Outputs
<1> HIDE DEF written
<1>7. OutputTypeOK'
  BY <1>1, <1>2, <1>3, <1>4, <1>5, <1>6 DEF OutputTypeOK
<1>8. OutputsAsAsked'
  <2>1. [asked EXCEPT ![r] = v] = written
    BY <1>1, <1>5
  <2> QED
    BY <1>1, <1>4, <2>1 DEF OutputsAsAsked
<1>9. up' => MirrorIsLatch'
  BY <1>4 DEF MirrorIsLatch
<1>10. UNCHANGED <<readerVars, restarts>> /\ (up' = up \/ up' = FALSE)
  BY Zenon, <1>1, <1>4
<1> QED
  BY <1>7, <1>8, <1>9, <1>10, OutputStep

LEMMA SetOutputKeeps ==
    ASSUME UnipiInv, SetOutput
    PROVE  UnipiInv'
<1>1. /\ up /\ up' = up /\ OutputTypeOK /\ MirrorIsLatch /\ latch = asked
      /\ message # <<>> /\ Head(message)[1] = AO
      /\ UNCHANGED <<readerVars, mirror, messages, restarts>>
  BY InvParts DEF SetOutput, OutputsAsAsked
<1>2. Head(message)[2] \in Int /\ message' \in Seq(Instructions)
  BY <1>1, HeadFacts DEF SetOutput
<1>3. latch \in [Outputs -> Int]
  BY <1>1 DEF OutputTypeOK
<1>4. latch' = asked' /\ latch' \in [Outputs -> Int] /\ \A q \in Relays : latch'[q] = latch[q]
  BY <1>1, <1>2, <1>3, OtherConstants DEF SetOutput, Outputs
<1>5. OutputTypeOK'
  BY <1>1, <1>2, <1>4 DEF OutputTypeOK
<1>6. OutputsAsAsked' /\ MirrorIsLatch'
  BY <1>1, <1>4 DEF OutputsAsAsked, MirrorIsLatch
<1> QED
  BY <1>1, <1>5, <1>6, OutputStep

\* A new process reads the relays back as they are, and turns off what was asked
\* of the analog output with it.
LEMMA RestartKeeps ==
    ASSUME UnipiInv, Restart
    PROVE  UnipiInv'
<1>1. /\ latch \in [Outputs -> Int] /\ \A q \in Relays : latch[q] \in {0, 1}
      /\ messages \in 0..MaxMessages /\ restarts \in 0..MaxRestarts
      /\ latch = asked
  BY InvParts DEF OutputTypeOK, OutputsAsAsked
<1>2. latch' \in [Outputs -> Int] /\ asked' = latch'
  <2>1. latch' = [latch EXCEPT ![AO] = 0] /\ asked' = [asked EXCEPT ![AO] = 0]
    BY DEF Restart
  <2>2. latch' = [o \in Outputs |-> IF o = AO THEN 0 ELSE latch[o]]
    BY <1>1, <2>1
  <2>3. \A o \in Outputs : (IF o = AO THEN 0 ELSE latch[o]) \in Int
    BY <1>1
  <2>4. latch' \in [Outputs -> Int]
    BY <2>2, <2>3
  <2> QED
    BY Zenon, <1>1, <2>1, <2>4
<1>3. \A q \in Relays : latch'[q] = latch[q]
  BY <1>1, OtherConstants DEF Restart, Outputs
<1>4. /\ \A q \in Relays : latch'[q] \in {0, 1}
      /\ mirror' = [q \in Relays |-> latch'[q]] /\ mirror' \in [Relays -> {0, 1}]
  BY <1>1, <1>3 DEF Restart, ReadState
<1>5. OutputTypeOK'
  <2>1. message' \in Seq(Instructions)
    BY DEF Restart
  <2> QED
    BY <1>1, <1>2, <1>4, <2>1 DEF Restart, OutputTypeOK
<1>6. ReaderTypeOK' /\ restarts' \in 0..MaxRestarts
  BY <1>1, BoundFacts, OtherConstants DEF Restart, ReaderTypeOK
<1>7. ReaderTimes' /\ JoinTimes'
  BY BoundFacts DEF Restart, ReaderTimes, JoinTimes, Bound, Lost
<1> QED
  BY <1>2, <1>4, <1>5, <1>6, <1>7
     DEF Restart, UnipiInv, UnipiTypeOK, MirrorIsLatch, OutputsAsAsked

-----------------------------------------------------------------------------
(* The theorems.                                                           *)

LEMMA UnipiInvStep == UnipiInv /\ [UnipiNext]_unipiVars => UnipiInv'
<1> SUFFICES ASSUME UnipiInv, [UnipiNext]_unipiVars
             PROVE  UnipiInv'
  OBVIOUS
<1>1. CASE Check
  BY <1>1, CheckKeeps
<1>2. CASE Try
  BY <1>2, TryKeeps
<1>3. CASE ConfigureFails \/ Exit
  BY <1>3, DeathKeeps DEF ConfigureFails, Exit
<1>4. CASE Report
  BY <1>4, ReportKeeps
<1>5. CASE Block \/ Tick \/ Wake
  BY <1>5, SleepKeeps
<1>6. CASE LowerFlag \/ Notify
  BY <1>6, EnderKeeps
<1>7. CASE Arrives
  BY <1>7, ArrivesKeeps
<1>8. CASE SetRelay
  BY <1>8, SetRelayKeeps
<1>9. CASE SetOutput
  BY <1>9, SetOutputKeeps
<1>10. CASE Restart
  BY <1>10, RestartKeeps
<1>11. CASE UNCHANGED unipiVars
  <2>1. UNCHANGED <<readerVars, outputVars, restarts, up>>
    BY <1>11 DEF unipiVars
  <2>2. OutputTypeOK' /\ OutputsAsAsked' /\ (up' => MirrorIsLatch')
    BY <2>1, OutputsKept
  <2> QED
    BY <2>1, <2>2, OutputStep
<1> QED
  BY <1>1, <1>2, <1>3, <1>4, <1>5, <1>6, <1>7, <1>8, <1>9, <1>10, <1>11 DEF UnipiNext

\* The invariant holds of every behaviour of the daemon, started as often as it
\* may be.
THEOREM UnipiInvariant == UnipiSpec => []UnipiInv
<1>1. UnipiInit => UnipiInv
  BY UnipiInvInit
<1>2. UnipiInv /\ [UnipiNext]_unipiVars => UnipiInv'
  BY UnipiInvStep
<1> QED
  BY <1>1, <1>2, PTL DEF UnipiSpec

\* The variables of the reading thread, the destructor and the outputs have their
\* types.
THEOREM UnipiTypeCorrect == UnipiSpec => []UnipiTypeOK
<1>1. UnipiInv => UnipiTypeOK
  BY DEF UnipiInv
<1> QED
  BY <1>1, UnipiInvariant, PTL

\* ~UniPi_Service does not wait in join for a thread that waited when it was notified,
\* and no longer than a report interval or one reading of both channels for one that
\* was on its way there.
THEOREM JoinIsBounded == UnipiSpec => []JoinBounded
<1>1. UnipiInv => JoinBounded
  <2> SUFFICES ASSUME UnipiInv, up PROVE joining <= IF Lost THEN Bound ELSE 0
    BY DEF JoinBounded, Bound
  <2>1. ReaderTypeOK /\ ReaderTimes /\ JoinTimes
    BY InvParts
  <2>2. CASE ender # "join"
    BY <2>1, <2>2, BoundFacts DEF JoinTimes
  <2>3. CASE ender = "join" /\ reader \in {"check", "ended"}
    BY <2>1, <2>3 DEF JoinTimes
  <2>4. CASE ender = "join" /\ reader \in {"read", "report"}
    <3>1. duration <= LongestReading
      BY <2>1, <2>4, BoundFacts DEF ReaderTypeOK, ReaderTimes
    <3> QED
      BY <2>1, <2>4, <3>1, TimeTypes, BoundFacts DEF JoinTimes
  <2>5. CASE ender = "join" /\ reader \in {"towait", "sleep"}
    BY <2>1, <2>5, TimeTypes, BoundFacts DEF JoinTimes
  <2> QED
    BY <2>1, <2>2, <2>3, <2>4, <2>5 DEF ReaderTypeOK
<1> QED
  BY <1>1, UnipiInvariant, PTL

\* The loop of the thread looks at the clock at most a unit after the interval,
\* or after one reading if that is longer.
THEOREM InputsReportedInTime == UnipiSpec => []ReportInTime
<1>1. UnipiInv => ReportInTime
  BY DEF UnipiInv, ReaderTimes, ReportInTime, Bound
<1> QED
  BY <1>1, UnipiInvariant, PTL

\* set_relay_value, which writes all relays from its mirror, changes only the one
\* it is asked to, and no relay that a message set is lost or changed by a write or
\* a reading back that fails, by the end of the process or by its next start.
THEOREM OutputsFollowMessages == UnipiSpec => []OutputsAsAsked
<1>1. UnipiInv => OutputsAsAsked
  BY DEF UnipiInv
<1> QED
  BY <1>1, UnipiInvariant, PTL
=============================================================================
