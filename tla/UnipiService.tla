---------------------------- MODULE UnipiService ----------------------------
(***************************************************************************)
(* unipi_service (src/source/unipi_service/mq_unipi_daemon_pi.cpp): a      *)
(* thread reads the two analog inputs from time to time, the thread of     *)
(* mosquitto sets relays and the analog output as messages tell it, and    *)
(* the destructor ends the first.                                          *)
(*                                                                         *)
(* A unit of time is what one try at the converter takes, 250 ms; no time  *)
(* passes in a step of the program.  The clock is not set meanwhile.  The  *)
(* digital inputs, whose events are passed on, and the EEPROM are left out. *)
(***************************************************************************)
EXTENDS Integers, Sequences

CONSTANTS
    Interval,     \* _analog_input_report_time
    MaxTries,     \* max_tries: 5
    Codes,        \* codes of 18 bits that the converter may send
    Relays,       \* relays of the board
    AO,           \* the analog output
    Voltages,     \* values a message may have for it
    MaxVoltage,   \* the highest it may be set to: 10 V
    Messages,     \* messages: sequences of <<output, value>>
    MaxMessages,  \* bound: messages
    MaxRestarts   \* bound: starts of the daemon after the first

TwoBytes == 65536
ThreeBytes == 16777216

Outputs == Relays \cup {AO}

\* What a message asks for an output.
Instructions == Relays \X {0, 1} \cup {AO} \X Voltages

ASSUME UnipiAssumption ==
    /\ Interval \in Nat \ {0} /\ MaxTries \in Nat \ {0}
    /\ Codes \subseteq -2 * TwoBytes .. 2 * TwoBytes - 1
    /\ AO \notin Relays
    /\ MaxVoltage \in Nat /\ Voltages \subseteq Int
    /\ Messages \subseteq Seq(Instructions)
    /\ MaxMessages \in Nat /\ MaxRestarts \in Nat

VARIABLES
    reader,     \* the thread: "check", "read", "report", "towait", "sleep" or "ended"
    channel,    \* the channel it reads: 2, then 1
    left,       \* max_tries in a reading, what is left to sleep in a sleep
    age,        \* now - _last_ai_report_time
    duration,   \* how long the reading has taken
    ender,      \* ~UniPi_Service: "none", "notify" or "join"
    up,         \* the process runs
    code,       \* the code last read
    voltage,    \* what it was converted to, in units of the converter
    latch,      \* the outputs of the board
    mirror,     \* _state of MCP23008
    message,    \* what CallBack has still to do
    asked,      \* history: what each output was last told to be
    joining,    \* history: time since the destructor notified the thread
    notified,   \* history: where that found the thread, "nowhere" before
    messages, restarts      \* bounds

readerVars == <<reader, channel, left, age, duration, ender, code, voltage, joining, notified>>
outputVars == <<latch, mirror, message, asked, messages>>
unipiVars == <<readerVars, outputVars, up, restarts>>

\* read_state: the relays as they are.  The mutant takes them to be off.
ReadState_Off == [r \in Relays |-> 0]
ReadState == [r \in Relays |-> latch[r]]

UnipiInit ==
    /\ reader = "check" /\ channel = 2 /\ left = 0
    /\ age = Interval + 1 /\ duration = 0
    /\ ender = "none" /\ joining = 0 /\ notified = "nowhere"
    /\ up = TRUE
    /\ code = 0 /\ voltage = 0
    /\ latch \in {f \in [Outputs -> {0, 1}] : f[AO] = 0}
    /\ mirror = ReadState
    /\ message = <<>>
    /\ asked = latch
    /\ messages = 0 /\ restarts = 0

-----------------------------------------------------------------------------
(* The reading thread.                                                     *)

\* _read_thread_run, which a mutant does not look at.
Runs_Always == TRUE
Runs == ender = "none"

\* What is left of the interval; a mutant waits for all of it.
SleepTime_Whole(diff) == Interval
SleepTime(diff) == Interval - diff

\* The condition of the loop, and what it finds.
Check ==
    /\ up /\ reader = "check"
    /\ IF ~Runs THEN reader' = "ended" /\ UNCHANGED <<channel, left, age, duration>>
       ELSE IF age > Interval
       THEN /\ reader' = "read" /\ channel' = 2 /\ left' = MaxTries
            /\ duration' = 0
            /\ UNCHANGED age
       ELSE IF age < Interval
       THEN reader' = "towait" /\ left' = SleepTime(age) /\ UNCHANGED <<channel, age, duration>>
       ELSE age' = age + 1 /\ UNCHANGED <<reader, channel, left, duration>>
    /\ joining' = IF age' > age /\ ender = "join" THEN joining + 1 ELSE joining
    /\ UNCHANGED <<ender, notified, code, voltage, outputVars, up, restarts>>

\* The three bytes that hold the code: if one of bits 16 and 17 is set, the top
\* byte is filled with ones.
Decode(c) ==
    LET bytes == c % ThreeBytes
    IN IF (bytes \div TwoBytes) % 4 # 0 THEN bytes - ThreeBytes ELSE bytes

\* The thread looks for an answer a quarter of a second later.  The last of the
\* tries is not used even if it is one, and the exception ends the process, as
\* does that of configure.
Look(ready) == IF left = 1 THEN "dead" ELSE IF ready THEN "done" ELSE "again"

\* The time of the report is that of the beginning of the reading.
Try ==
    /\ up /\ reader = "read"
    /\ age' = age + 1 /\ duration' = duration + 1
    /\ joining' = IF ender = "join" THEN joining + 1 ELSE joining
    /\ \/ /\ \E ready \in BOOLEAN : Look(ready) = "dead"
          /\ up' = FALSE
          /\ UNCHANGED <<reader, channel, left, code, voltage>>
       \/ /\ Look(FALSE) = "again"
          /\ left' = left - 1
          /\ UNCHANGED <<reader, channel, code, voltage, up>>
       \/ /\ Look(TRUE) = "done" /\ channel = 2
          /\ channel' = 1 /\ left' = MaxTries
          /\ UNCHANGED <<reader, code, voltage, up>>
       \/ /\ Look(TRUE) = "done" /\ channel = 1
          /\ \E c \in Codes : code' = c /\ voltage' = Decode(c)
          /\ reader' = "report"
          /\ UNCHANGED <<channel, left, up>>
    /\ UNCHANGED <<ender, notified, outputVars, restarts>>

ConfigureFails ==
    /\ up /\ reader = "read" /\ left = MaxTries
    /\ up' = FALSE
    /\ UNCHANGED <<readerVars, outputVars, restarts>>

Report ==
    /\ up /\ reader = "report"
    /\ age' = duration
    /\ IF duration < Interval
       THEN reader' = "towait" /\ left' = SleepTime(duration)
       ELSE reader' = "check" /\ left' = 0
    /\ UNCHANGED <<channel, duration, ender, joining, notified, code, voltage, outputVars, up, restarts>>

\* The destructor neither takes mymutex nor has the thread look at the flag again
\* before it waits.
Block ==
    /\ up /\ reader = "towait"
    /\ reader' = "sleep"
    /\ UNCHANGED <<channel, left, age, duration, ender, joining, notified, code, voltage, outputVars, up,
                   restarts>>

Tick ==
    /\ up /\ reader = "sleep" /\ left > 0
    /\ left' = left - 1
    /\ age' = age + 1
    /\ joining' = IF ender = "join" THEN joining + 1 ELSE joining
    /\ UNCHANGED <<reader, channel, duration, ender, notified, code, voltage, outputVars, up, restarts>>

\* wait_for returns, at its time, by itself, or when notified.
Wake ==
    /\ up /\ reader = "sleep"
    /\ reader' = "check" /\ left' = 0
    /\ UNCHANGED <<channel, age, duration, ender, joining, notified, code, voltage, outputVars, up,
                   restarts>>

TimeIsUp == left = 0 /\ Wake

-----------------------------------------------------------------------------
(* The destructor.                                                         *)

\* _read_thread_run = false
LowerFlag ==
    /\ up /\ ender = "none"
    /\ ender' = "notify"
    /\ UNCHANGED <<reader, channel, left, age, duration, joining, notified, code, voltage, outputVars, up,
                   restarts>>

\* notify_one wakes the thread if it waits, and is lost on one that has looked at
\* the flag and does not wait yet.  The mutant notifies nobody.
Notify_Forgotten ==
    /\ up /\ ender = "notify"
    /\ ender' = "join"
    /\ joining' = 0
    /\ notified' = reader
    /\ UNCHANGED <<reader, channel, left, age, duration, code, voltage, outputVars, up, restarts>>
Notify ==
    /\ up /\ ender = "notify"
    /\ ender' = "join"
    /\ joining' = 0
    /\ notified' = reader
    /\ IF reader = "sleep" THEN reader' = "check" /\ left' = 0 ELSE UNCHANGED <<reader, left>>
    /\ UNCHANGED <<channel, age, duration, code, voltage, outputVars, up, restarts>>

Exit ==
    /\ up /\ ender = "join" /\ reader = "ended"
    /\ up' = FALSE
    /\ UNCHANGED <<readerVars, outputVars, restarts>>

-----------------------------------------------------------------------------
(* The outputs.                                                            *)

\* The thread of mosquitto gets a message, and is not stopped by the destructor.
Arrives ==
    /\ up /\ message = <<>> /\ messages < MaxMessages
    /\ message' \in Messages
    /\ messages' = messages + 1
    /\ UNCHANGED <<readerVars, latch, mirror, asked, up, restarts>>

\* set_relay_value changes one bit of the mirror, writes all of them, and reads
\* them back.  If either fails, the exception leaves CallBack and ends the process;
\* a write that is said to have failed may have been done.
SetRelay ==
    /\ up /\ message # <<>> /\ Head(message)[1] \in Relays
    /\ LET r == Head(message)[1]
           v == Head(message)[2]
           written == [o \in Outputs |-> IF o = r THEN v ELSE IF o = AO THEN latch[AO] ELSE mirror[o]]
       IN \/ /\ latch' = written
             /\ asked' = [asked EXCEPT ![r] = v]
             /\ \/ /\ mirror' = [q \in Relays |-> written[q]]
                   /\ message' = Tail(message)
                   /\ UNCHANGED up
                \/ /\ up' = FALSE
                   /\ UNCHANGED <<mirror, message>>
          \/ /\ up' = FALSE
             /\ UNCHANGED <<latch, asked, mirror, message>>
    /\ UNCHANGED <<readerVars, messages, restarts>>

\* A voltage out of range is not set.
SetOutput ==
    /\ up /\ message # <<>> /\ Head(message)[1] = AO
    /\ LET v == Head(message)[2]
       IN IF v \in 0..MaxVoltage
          THEN latch' = [latch EXCEPT ![AO] = v] /\ asked' = [asked EXCEPT ![AO] = v]
          ELSE UNCHANGED <<latch, asked>>
    /\ message' = Tail(message)
    /\ UNCHANGED <<readerVars, mirror, messages, up, restarts>>

\* A new process finds the relays as they are, and turns the analog output off.
Restart ==
    /\ ~up /\ restarts < MaxRestarts
    /\ up' = TRUE
    /\ restarts' = restarts + 1
    /\ reader' = "check" /\ channel' = 2 /\ left' = 0
    /\ age' = Interval + 1 /\ duration' = 0
    /\ ender' = "none" /\ joining' = 0 /\ notified' = "nowhere"
    /\ code' = 0 /\ voltage' = 0
    /\ latch' = [latch EXCEPT ![AO] = 0]
    /\ mirror' = ReadState
    /\ asked' = [asked EXCEPT ![AO] = 0]
    /\ message' = <<>>
    /\ UNCHANGED messages

UnipiNext ==
    \/ Check \/ Try \/ ConfigureFails \/ Report \/ Block \/ Tick \/ Wake
    \/ LowerFlag \/ Notify \/ Exit
    \/ Arrives \/ SetRelay \/ SetOutput
    \/ Restart

\* The thread and the destructor go on, and time passes.
ThreadGoes == Check \/ Try \/ Report \/ Block \/ Tick \/ TimeIsUp
EnderGoes == Notify \/ Exit

UnipiFairness == WF_unipiVars(ThreadGoes) /\ WF_unipiVars(EnderGoes)

UnipiSpec == UnipiInit /\ [][UnipiNext]_unipiVars
UnipiFairSpec == UnipiSpec /\ UnipiFairness

-----------------------------------------------------------------------------
(* Properties.                                                             *)

ReaderTypeOK ==
    /\ reader \in {"check", "read", "report", "towait", "sleep", "ended"}
    /\ channel \in {1, 2}
    /\ left \in Nat /\ age \in Nat /\ duration \in Nat /\ joining \in Nat
    /\ ender \in {"none", "notify", "join"}
    /\ notified \in {"nowhere", "check", "read", "report", "towait", "sleep", "ended"}
    /\ code \in Int /\ voltage \in Int

OutputTypeOK ==
    /\ latch \in [Outputs -> Int] /\ asked \in [Outputs -> Int]
    /\ \A r \in Relays : latch[r] \in {0, 1}
    /\ mirror \in [Relays -> {0, 1}]
    /\ message \in Seq(Instructions)
    /\ messages \in 0..MaxMessages

UnipiTypeOK ==
    /\ ReaderTypeOK /\ OutputTypeOK
    /\ up \in BOOLEAN /\ restarts \in 0..MaxRestarts

\* The longest a reading of both channels takes.
LongestReading == 2 * (MaxTries - 1)

Longer(a, b) == IF a > b THEN a ELSE b

\* The notification found the thread on its way to a wait that does not end by it.
Lost == notified \in {"read", "report", "towait"}

\* The destructor does not wait for a thread it finds waiting, about to look at the
\* flag, or ended.  If nobody waited for the notification, the thread goes on for the
\* rest of a reading and of a report interval, and no longer.
JoinBounded == up => joining <= IF Lost THEN Longer(Interval, LongestReading) ELSE 0

\* What the destructor says of join: "this may take up to 10 secs".
TenSeconds == 40
JoinInTenSeconds == joining <= TenSeconds

\* The inputs are read when the interval is over, however long reading took.
ReportInTime ==
    up /\ reader = "check" => age <= Longer(Interval, LongestReading) + 1

\* The destructor returns, or the process ends because the converter does not
\* answer.
UnipiEnds == ender = "notify" ~> ~up

\* A relay is as the last message told it to be, and as it was found at first if
\* none did: setting one of them does not disturb the others, and neither the end
\* of the process, in the middle of a message too, nor a new one changes any.
\* The analog output is off from each start until a message sets it.
OutputsAsAsked == latch = asked

\* What "sign bit" says: the number sent by the converter is what is reported.
SignIsOneBit == voltage = code

-----------------------------------------------------------------------------
(* The inductive invariant behind the safety properties that are proved.   *)

Bound == Longer(Interval, LongestReading)

\* The time a reading has taken, and what is left of an interval.
ReaderTimes ==
    /\ reader = "read" =>
          /\ left \in 1..MaxTries
          /\ duration <= (IF channel = 2 THEN 0 ELSE MaxTries - 1) + MaxTries - left
    /\ reader = "report" => duration <= LongestReading
    /\ reader \in {"towait", "sleep"} => age + left = Interval
    /\ reader = "check" => age <= Bound + 1

\* A thread that reads when it is notified began before, and one that waits after
\* it was notified did not wait then.
JoinTimes ==
    /\ ender # "join" => joining = 0 /\ ~Lost
    /\ ender = "join" =>
          /\ reader \in {"read", "report"} => Lost /\ joining <= duration
          /\ reader \in {"towait", "sleep"} => Lost /\ joining + left <= Interval
          /\ reader \in {"check", "ended"} => joining <= IF Lost THEN Bound ELSE 0

\* The mirror is the board's relays.
MirrorIsLatch == mirror = [r \in Relays |-> latch[r]]

UnipiInv ==
    /\ UnipiTypeOK
    /\ up => ReaderTimes /\ JoinTimes /\ MirrorIsLatch
    /\ OutputsAsAsked
=============================================================================
