-------------------------- MODULE DbServiceProofs --------------------------
(***************************************************************************)
(* Proofs about DbService for every configuration, every message and every *)
(* bound: averages miss no sample and lie within their samples, the        *)
(* precision of a value separates its rows, also across restarts, and no   *)
(* value is starved by the others of its sensor.                           *)
(***************************************************************************)
EXTENDS DbService, FiniteSetTheorems, WellFoundedInduction, TLAPS

LEMMA ValuesAreValues ==
    ASSUME NEW s \in Sensors
    PROVE  /\ Len(ValuesOf[s]) \in Nat
           /\ ValuesIn(s) \subseteq Values
           /\ \A i \in 1..Len(ValuesOf[s]) : ValuesOf[s][i] \in Values
BY ConfigAssumption DEF ValuesIn

\* Once the configuration is read, a sensor with an averaged value has no
\* interval of its own.
LEMMA AveragesAreUngated ==
    ASSUME IInv, phase # "config", NEW s \in Sensors, NEW v \in ValuesIn(s),
           v \in Averaging
    PROVE  gate[s] = 0
<1>1. PICK i \in 1..Len(ValuesOf[s]) : v = ValuesOf[s][i]
  BY DEF ValuesIn
<1>2. loaded[s] = Len(ValuesOf[s])
  BY DEF IInv, NoGateForAverages
<1> QED
  BY <1>1, <1>2 DEF IInv, NoGateForAverages

LEMMA InvInit == Init => IInv
<1> SUFFICES ASSUME Init PROVE IInv
  OBVIOUS
<1>1. Shape
  BY ValuesAreValues DEF Init, Shape
<1>2. NoGateForAverages
  BY DEF Init, NoGateForAverages
<1>3. PastTimes /\ SamplesSettled
  BY ConfigAssumption DEF Init, PastTimes, SamplesSettled, InHand, Settled,
     Since, Times
<1>4. LastIsInDatabase
  BY DEF Init, LastIsInDatabase
<1> QED
  BY <1>1, <1>2, <1>3, <1>4 DEF IInv

-----------------------------------------------------------------------------
(* The configuration.                                                      *)

\* An averaged value takes the interval from its sensor, and nothing gives it
\* back.
LEMMA AverageUngates ==
    ASSUME NEW g, NEW v, v \in Averaging \/ g = 0
    PROVE  Common(g, v) = 0
BY Zenon DEF Common

LEMMA LoadKeeps ==
    ASSUME IInv, NEW s \in Sensors, LoadValue(s)
    PROVE  IInv'
<1> USE DEF LoadValue, sensorVars, messageVars, databaseVars
<1>1. Shape'
  BY ValuesAreValues DEF IInv, Shape
<1>2. NoGateForAverages'
  <2>1. \A t \in Sensors : t # s => loaded'[t] = loaded[t] /\ gate'[t] = gate[t]
    BY DEF IInv, Shape
  <2>2. /\ loaded'[s] = loaded[s] + 1
        /\ gate'[s] = Common(gate[s], ValuesOf[s][loaded[s] + 1])
        /\ loaded[s] \in Nat
    BY DEF IInv, Shape
  <2>3. ASSUME NEW i \in 1..loaded'[s], ValuesOf[s][i] \in Averaging
        PROVE  gate'[s] = 0
    <3>1. CASE i = loaded[s] + 1
      BY <2>2, <2>3, <3>1, AverageUngates
    <3>2. CASE i \in 1..loaded[s]
      BY <2>2, <2>3, <3>2, AverageUngates DEF IInv, NoGateForAverages
    <3> QED
      BY <2>2, <3>1, <3>2
  <2> QED
    BY <2>1, <2>3 DEF IInv, NoGateForAverages
<1>3. PastTimes' /\ SamplesSettled' /\ LastIsInDatabase'
  BY DEF IInv, PastTimes, SamplesSettled, InHand, Settled, LastIsInDatabase
<1> QED
  BY <1>1, <1>2, <1>3 DEF IInv

LEMMA RestoreKeeps ==
    ASSUME IInv, Restore
    PROVE  IInv'
<1> USE DEF Restore, configVars, messageVars
<1>1. Shape'
  BY DEF IInv, Shape, Restored
<1>2. NoGateForAverages'
  BY DEF IInv, NoGateForAverages
<1>3. PastTimes' /\ SamplesSettled'
  BY DEF IInv, PastTimes, SamplesSettled, InHand, Settled
<1>4. LastIsInDatabase'
  BY DEF LastIsInDatabase, Restored
<1> QED
  BY <1>1, <1>2, <1>3, <1>4 DEF IInv

LEMMA RestartKeeps ==
    ASSUME IInv, Restart
    PROVE  IInv'
<1> USE DEF Restart, databaseVars
<1>1. Shape'
  BY ValuesAreValues DEF IInv, Shape
<1>2. NoGateForAverages'
  BY DEF NoGateForAverages
<1>3. PastTimes' /\ SamplesSettled'
  BY ConfigAssumption DEF IInv, PastTimes, SamplesSettled, InHand, Settled,
     Since, Times
<1>4. LastIsInDatabase'
  BY DEF LastIsInDatabase
<1> QED
  BY <1>1, <1>2, <1>3, <1>4 DEF IInv

-----------------------------------------------------------------------------
(* A message arrives.                                                      *)

LEMMA ReceiveKeeps ==
    ASSUME IInv, NEW s \in Sensors, Receive(s)
    PROVE  IInv'
<1>1. PICK gap \in 1..MaxGap, keys \in SUBSET ValuesIn(s) :
        \E m \in Messages(keys) :
            /\ now' = now + gap
            /\ Hear(m, now')
            /\ \/ Ignore(s, m, now')
               \/ GiveUp(s, m)
               \/ Accept(s, m)
  BY DEF Receive
<1>2. PICK m \in Messages(keys) :
        /\ now' = now + gap
        /\ Hear(m, now')
        /\ \/ Ignore(s, m, now')
           \/ GiveUp(s, m)
           \/ Accept(s, m)
  BY <1>1
<1>3. /\ DOMAIN m \subseteq ValuesIn(s)
      /\ NumbersIn(m) \subseteq ValuesIn(s)
  BY DEF Messages, NumbersIn
<1>4. now \in Nat /\ now' \in Nat /\ now' > now
  BY <1>2, BoundAssumption DEF IInv, Shape
<1>5. /\ phase = "idle"
      /\ UNCHANGED <<loaded, gate, lastVal, events, row, refused>>
  BY <1>2 DEF Receive, Ignore, GiveUp, Accept, configVars, databaseVars,
     sensorVars
<1>6. \/ (phase' = "idle" /\ sensor' = sensor)
      \/ (phase' = "message" /\ sensor' = s /\ msg' = m)
  BY <1>2, <1>5 DEF Ignore, GiveUp, Accept, messageVars
<1>7. \A v \in Values :
        heard'[v] = IF v \in NumbersIn(m) THEN heard[v] \cup {now'}
                                          ELSE heard[v]
  BY <1>2 DEF Hear
<1>8. Shape'
  <2>1. DOMAIN heard' = Values
    BY <1>2 DEF Hear
  <2> QED
    BY <1>3, <1>4, <1>5, <1>6, <2>1 DEF IInv, Shape
<1>9. NoGateForAverages'
  BY <1>5 DEF IInv, NoGateForAverages
<1>10. PastTimes'
  <2> SUFFICES ASSUME NEW v \in Values
               PROVE  /\ heard'[v] \subseteq 0..now'
                      /\ Times(events'[v]) \subseteq 0..now'
                      /\ InHand(v)' => /\ now' \in heard'[v]
                                       /\ now' \notin Times(events'[v])
    BY DEF PastTimes, InHand
  <2>1. heard[v] \subseteq 0..now /\ Times(events[v]) \subseteq 0..now
    BY DEF IInv, PastTimes
  <2>2. events'[v] = events[v]
    BY <1>5
  <2>3. heard'[v] \subseteq 0..now' /\ Times(events'[v]) \subseteq 0..now'
    <3>1. 0..now \subseteq 0..now' /\ now' \in 0..now'
      BY <1>4
    <3> QED
      BY <1>7, <2>1, <2>2, <3>1
  <2>4. now' \notin Times(events'[v])
    BY <1>4, <2>1, <2>2
  <2>5. InHand(v)' => now' \in heard'[v]
    BY <1>6, <1>7 DEF InHand
  <2> QED
    BY <2>3, <2>4, <2>5
<1>11. SamplesSettled'
  <2> SUFFICES ASSUME NEW v \in Averaging \ cut'
               PROVE  Since(Settled(v)', events'[v]) = Times(events'[v])
    BY DEF SamplesSettled, Settled, InHand, Since
  <2>1. v \in Values /\ cut \subseteq cut'
    BY <1>2, ConfigAssumption DEF Ignore, GiveUp, Accept
  <2>2. Settled(v) = heard[v]
    BY <1>5 DEF Settled, InHand
  <2>3. now' \notin heard[v]
    BY <1>4, <2>1 DEF IInv, PastTimes
  <2>4. Settled(v)' = heard[v]
    <3>1. CASE v \notin NumbersIn(m)
      BY <1>6, <1>7, <2>1, <3>1 DEF Settled, InHand
    <3>2. CASE v \in NumbersIn(m)
      <4>1. ~Ignore(s, m, now')
        BY <1>3, <1>5, <3>2, AveragesAreUngated DEF Ignore
      <4>2. ~GiveUp(s, m)
        BY <3>2 DEF GiveUp
      <4>3. InHand(v)'
        BY <1>2, <3>2, <4>1, <4>2 DEF Accept, InHand
      <4> QED
        BY <1>7, <2>1, <2>3, <3>2, <4>3 DEF Settled
    <3> QED
      BY <3>1, <3>2
  <2> QED
    BY <1>5, <2>1, <2>2, <2>4 DEF IInv, SamplesSettled
<1>12. LastIsInDatabase'
  BY <1>5 DEF IInv, LastIsInDatabase
<1> QED
  BY <1>8, <1>9, <1>10, <1>11, <1>12 DEF IInv

-----------------------------------------------------------------------------
(* The values of a message.                                                *)

\* A value that was handled is not in hand any more; the others are as before.
LEMMA HandledValue ==
    ASSUME IInv, NEW v \in Values, Handle(v), UNCHANGED phase
    PROVE  \A w \in Values : InHand(w)' <=> (InHand(w) /\ w # v)
BY DEF Handle, Without, InHand, NumbersIn

\* What a handled value v leaves alone: nothing but its own samples, its own
\* times and its own row may have changed.
LEMMA HandleKeeps ==
    ASSUME IInv, NEW v \in Values, Handle(v),
           UNCHANGED <<phase, loaded, gate, sensor, now>>,
           DOMAIN lastVal' = Values, DOMAIN row' = Values,
           DOMAIN events' = Values, DOMAIN heard' = Values,
           \A w \in Values \ {v} :
               /\ heard'[w] = heard[w]
               /\ events'[w] = events[w]
               /\ lastVal'[w] = lastVal[w]
               /\ row'[w] = row[w],
           cut' \ {v} = cut \ {v},
           refused' \ {v} = refused \ {v},
           heard'[v] \subseteq 0..now,
           Times(events'[v]) \subseteq 0..now,
           v \in Averaging \ cut' =>
               Since(heard'[v], events'[v]) = Times(events'[v]),
           Precision[v] # 0 /\ v \notin refused' => lastVal'[v] = row'[v].val
    PROVE  IInv'
<1>1. Shape'
  <2>1. DOMAIN msg' \subseteq DOMAIN msg
    BY DEF Handle, Without
  <2> QED
    BY <2>1 DEF IInv, Shape
<1>2. NoGateForAverages'
  BY DEF IInv, NoGateForAverages
<1>3. PastTimes'
  <2> SUFFICES ASSUME NEW w \in Values
               PROVE  /\ heard'[w] \subseteq 0..now'
                      /\ Times(events'[w]) \subseteq 0..now'
                      /\ InHand(w)' => /\ now' \in heard'[w]
                                       /\ now' \notin Times(events'[w])
    BY DEF PastTimes, InHand
  <2>1. CASE w = v
    BY <2>1, HandledValue
  <2>2. CASE w # v
    BY <2>2, HandledValue DEF IInv, PastTimes
  <2> QED
    BY <2>1, <2>2
<1>4. SamplesSettled'
  <2> SUFFICES ASSUME NEW w \in Averaging \ cut'
               PROVE  Since(Settled(w)', events'[w]) = Times(events'[w])
    BY DEF SamplesSettled, Settled, InHand, Since
  <2>1. w \in Values
    BY ConfigAssumption
  <2>2. CASE w = v
    <3>1. Settled(w)' = heard'[w]
      BY <2>2, HandledValue DEF Settled
    <3> QED
      BY <2>2, <3>1
  <2>3. CASE w # v
    <3>1. Settled(w)' = Settled(w) /\ w \notin cut
      BY <2>1, <2>3, HandledValue DEF Settled
    <3> QED
      BY <2>1, <2>3, <3>1 DEF IInv, SamplesSettled
  <2> QED
    BY <2>2, <2>3
<1>5. LastIsInDatabase'
  BY DEF IInv, LastIsInDatabase
<1> QED
  BY <1>1, <1>2, <1>3, <1>4, <1>5 DEF IInv

LEMMA OneMoreTime ==
    ASSUME NEW A, NEW t, NEW x
    PROVE  Times(A \cup {[at |-> t, val |-> x]}) = Times(A) \cup {t}
<1>1. \A e : Times(A \cup {e}) = Times(A) \cup {e.at}
  BY DEF Times
<1> QED
  BY <1>1

\* The sample that a message adds is the last and the only one since the others.
LEMMA SampleSettles ==
    ASSUME IInv, NEW v \in Averaging \ cut, InHand(v), NEW x
    PROVE  LET E == events[v] \cup {[at |-> now, val |-> x]}
           IN  Since(heard[v], E) = Times(E)
<1> DEFINE E == events[v] \cup {[at |-> now, val |-> x]}
<1>1. Times(E) = Times(events[v]) \cup {now}
  BY OneMoreTime
<1> HIDE DEF E
<1>2. /\ now \in Nat /\ now \in heard[v]
      /\ heard[v] \subseteq 0..now /\ Times(events[v]) \subseteq 0..now
      /\ now \notin Times(events[v])
  BY ConfigAssumption DEF IInv, Shape, PastTimes
<1>3. Since(heard[v] \ {now}, events[v]) = Times(events[v])
  BY DEF IInv, SamplesSettled, Settled
<1>4. ASSUME NEW t
      PROVE  t \in Since(heard[v], E) <=> t \in Times(E)
  <2>1. CASE t = now
    BY <1>1, <1>2, <2>1 DEF Since
  <2>2. CASE t # now
    <3>1. t \in heard[v] => ~(now <= t)
      BY <1>2, <2>2
    <3>2. t \in Since(heard[v], E) <=> t \in Since(heard[v] \ {now}, events[v])
      BY <1>1, <2>2, <3>1 DEF Since
    <3> QED
      BY <1>1, <1>3, <2>2, <3>2
  <2> QED
    BY <2>1, <2>2
<1> QED
  BY <1>4 DEF E, Since, Times

LEMMA SkipKeeps ==
    ASSUME IInv, NEW v \in Values, Skip(v)
    PROVE  IInv'
<1>1. v \notin Averaging
  BY DEF Skip, TooEarly
<1>2. heard[v] \subseteq 0..now /\ Times(events[v]) \subseteq 0..now
  BY DEF IInv, PastTimes
<1>3. phase # "config"
  BY DEF Skip, Handle
<1> QED
  BY <1>1, <1>2, <1>3, HandleKeeps
  DEF IInv, Shape, LastIsInDatabase, Skip, configVars, sensorVars, databaseVars

\* The numbers that are lost with the rest of a message are accounted for.
LEMMA GiveUpRestKeeps ==
    ASSUME IInv, NEW v \in Values, GiveUpRest(v)
    PROVE  IInv'
<1> USE DEF GiveUpRest, configVars, sensorVars, databaseVars
<1>1. Shape' /\ NoGateForAverages' /\ LastIsInDatabase'
  BY DEF IInv, Shape, NoGateForAverages, LastIsInDatabase
<1>2. PastTimes'
  BY DEF IInv, PastTimes, InHand
<1>3. SamplesSettled'
  <2> SUFFICES ASSUME NEW w \in Averaging \ cut'
               PROVE  Since(Settled(w)', events'[w]) = Times(events'[w])
    BY DEF SamplesSettled, Settled, InHand, Since
  <2>1. Settled(w)' = Settled(w) /\ w \notin cut
    BY DEF Settled, InHand
  <2> QED
    BY <2>1 DEF IInv, SamplesSettled
<1> QED
  BY <1>1, <1>2, <1>3 DEF IInv

\* A number that was looked at joins the samples, if there are any or if it is
\* within the interval of the average; otherwise there are none.
LEMMA SampleKeeps ==
    ASSUME IInv, NEW v \in Values, Sample(v) \/ KeepSample(v)
    PROVE  IInv'
<1>1. /\ Handle(v) /\ InHand(v) /\ phase # "config"
      /\ UNCHANGED <<phase, loaded, gate, sensor, now, lastVal, row, refused,
                     heard, cut>>
  BY DEF Sample, KeepSample, Look, Handle, InHand, NumbersIn, configVars,
     databaseVars
<1>2. /\ now \in Nat /\ DOMAIN events = Values
      /\ heard[v] \subseteq 0..now /\ Times(events[v]) \subseteq 0..now
  BY DEF IInv, Shape, PastTimes
<1>3. /\ DOMAIN events' = Values
      /\ \A w \in Values \ {v} : events'[w] = events[w]
  BY <1>2 DEF Sample, KeepSample
<1>4. CASE events'[v] = events[v] \cup {[at |-> now, val |-> msg[v].val]}
  <2>1. Times(events'[v]) = Times(events[v]) \cup {now}
    <3>1. Times(events[v] \cup {[at |-> now, val |-> msg[v].val]})
              = Times(events[v]) \cup {now}
      BY OneMoreTime
    <3> QED
      BY <1>4, <3>1
  <2>2. Times(events'[v]) \subseteq 0..now
    BY <1>2, <2>1
  <2>3. v \in Averaging \ cut => Since(heard[v], events'[v]) = Times(events'[v])
    BY <1>1, <1>4, SampleSettles
  <2> QED
    BY <1>1, <1>2, <1>3, <2>2, <2>3, HandleKeeps
    DEF IInv, Shape, LastIsInDatabase
<1>5. CASE ~Averaged(v) /\ events'[v] = events[v]
  <2>1. v \in Averaging => Since(heard[v], events'[v]) = Times(events'[v])
    BY <1>5 DEF Averaged, Since, Times
  <2> QED
    BY <1>1, <1>2, <1>3, <1>5, <2>1, HandleKeeps
    DEF IInv, Shape, LastIsInDatabase
<1> QED
  BY <1>2, <1>4, <1>5 DEF Samples, Sample, KeepSample

\* The number stored is the one remembered, or the row is noted as refused; it
\* is the first of the next samples.
LEMMA StoreNumberKeeps ==
    ASSUME IInv, NEW v \in Values, StoreNumber(v)
    PROVE  IInv'
<1>1. Handle(v) /\ UNCHANGED <<phase, loaded, gate, sensor, now>>
  BY DEF StoreNumber, Look, configVars
<1>2. now \in Nat
  BY DEF IInv, Shape
<1>3. /\ DOMAIN lastVal' = Values
      /\ DOMAIN events' = Values /\ DOMAIN heard' = Values
      /\ \A w \in Values \ {v} : /\ heard'[w] = heard[w]
                                /\ events'[w] = events[w]
                                /\ lastVal'[w] = lastVal[w]
      /\ heard'[v] = {now}
      /\ cut' \ {v} = cut \ {v}
  BY DEF StoreNumber, IInv, Shape
<1>4. PICK x : /\ lastVal'[v] = x
               /\ events'[v] = {[at |-> now, val |-> x]}
               /\ InsertReal(v, x)
  BY DEF StoreNumber, IInv, Shape
<1>5. /\ DOMAIN row' = Values
      /\ \A w \in Values \ {v} : row'[w] = row[w]
      /\ refused' \ {v} = refused \ {v}
      /\ v \notin refused' => lastVal'[v] = row'[v].val
  BY <1>4 DEF IInv, Shape, InsertReal, Refuse
<1>6. Times(events'[v]) = {now}
  BY <1>4 DEF Times
<1>7. Since(heard'[v], events'[v]) = Times(events'[v])
  BY <1>2, <1>3, <1>6 DEF Since
<1>8. heard'[v] \subseteq 0..now /\ Times(events'[v]) \subseteq 0..now
  BY <1>2, <1>3, <1>6
<1> QED
  BY <1>1, <1>3, <1>5, <1>7, <1>8, HandleKeeps

\* What is no number is no sample.
LEMMA OthersKeep ==
    ASSUME IInv, NEW v \in Values, StoreBoolean(v) \/ Unexpected(v)
    PROVE  IInv'
<1> USE DEF StoreBoolean, Unexpected, Look
<1>1. /\ Handle(v) /\ ~InHand(v) /\ phase # "config"
      /\ UNCHANGED <<phase, loaded, gate, sensor, now, lastVal, events, row,
                     refused, heard, cut>>
  BY DEF Handle, InHand, NumbersIn, configVars, sensorVars, databaseVars
<1>2. heard[v] \subseteq 0..now /\ Times(events[v]) \subseteq 0..now
  BY DEF IInv, PastTimes
<1>3. v \in Averaging \ cut => Since(heard[v], events[v]) = Times(events[v])
  BY <1>1 DEF IInv, SamplesSettled, Settled
<1> QED
  BY <1>1, <1>2, <1>3, HandleKeeps DEF IInv, Shape, LastIsInDatabase

LEMMA FinishKeeps ==
    ASSUME IInv, FinishMessage
    PROVE  IInv'
<1> USE DEF FinishMessage, configVars, sensorVars, messageVars, databaseVars
<1>1. Shape' /\ NoGateForAverages' /\ LastIsInDatabase'
  BY DEF IInv, Shape, NoGateForAverages, LastIsInDatabase
<1>2. \A v : ~InHand(v) /\ ~InHand(v)'
  BY DEF InHand, NumbersIn, NoMessage
<1>3. PastTimes'
  BY <1>2 DEF IInv, PastTimes
<1>4. SamplesSettled'
  BY <1>2 DEF IInv, SamplesSettled, Settled
<1> QED
  BY <1>1, <1>3, <1>4 DEF IInv

-----------------------------------------------------------------------------
(* The theorems.                                                           *)

LEMMA InvStep == IInv /\ [Next]_vars => IInv'
<1> SUFFICES ASSUME IInv, [Next]_vars PROVE IInv'
  OBVIOUS
<1>1. ASSUME NEW s \in Sensors, LoadValue(s) PROVE IInv'
  BY <1>1, LoadKeeps
<1>2. ASSUME NEW s \in Sensors, Receive(s) PROVE IInv'
  BY <1>2, ReceiveKeeps
<1>3. CASE Restore
  BY <1>3, RestoreKeeps
<1>4. ASSUME NEW v \in Values, HandleValue(v) PROVE IInv'
  BY <1>4, SkipKeeps, GiveUpRestKeeps, SampleKeeps, StoreNumberKeeps, OthersKeep
  DEF HandleValue
<1>5. CASE FinishMessage
  BY <1>5, FinishKeeps
<1>6. CASE Restart
  BY <1>6, RestartKeeps
<1>7. CASE UNCHANGED vars
  BY <1>7 DEF vars, configVars, sensorVars, messageVars, databaseVars, ageVars,
     IInv, Shape, NoGateForAverages, PastTimes, SamplesSettled,
     LastIsInDatabase, InHand, Settled
<1> QED
  BY <1>1, <1>2, <1>3, <1>4, <1>5, <1>6, <1>7 DEF Next

\* The inductive invariant holds of every run of the daemon.
THEOREM DbInvariant == Spec => []IInv
  BY InvInit, InvStep, PTL DEF Spec

\* "if there is a single value with averaging we need to read all messages to
\* get the average" (db_sqlite3_daemon.cpp:216): whatever else is configured
\* for the sensor and in whatever order, between messages the samples of an
\* average are all the numbers received since the first of them.
THEOREM SamplesKept == Spec => []EverySampleAveraged
<1>1. IInv => EverySampleAveraged
  BY DEF IInv, SamplesSettled, EverySampleAveraged, Settled, InHand
<1> QED
  BY <1>1, DbInvariant, PTL

\* The number that a new one is compared with (db_sqlite3_daemon.cpp:444) is
\* the one in the database, through skipped numbers and restarts, unless SQLite
\* refused the row.
THEOREM LastStored == Spec => []LastIsInDatabase
<1>1. IInv => LastIsInDatabase
  BY DEF IInv
<1> QED
  BY <1>1, DbInvariant, PTL

\* Rows that follow one another differ by the precision of their value, also
\* when the daemon was restarted between them (db_sqlite3_daemon.cpp:256), if
\* SQLite refused nothing in between.
THEOREM RowsDiffer == Spec => RowsApart
<1> DEFINE Apart == \A v \in Values :
                       row'[v] # row[v] /\ Precision[v] # 0 /\ v \notin refused =>
                           ~Near(row[v].val, row'[v].val, Precision[v])
<1>1. IInv /\ [Next]_vars => [Apart]_vars
  <2> SUFFICES ASSUME IInv, Next, NEW v \in Values, row'[v] # row[v],
                      Precision[v] # 0, v \notin refused
               PROVE  ~Near(row[v].val, row'[v].val, Precision[v])
    OBVIOUS
  <2>1. PICK w \in Values : StoreNumber(w)
    BY DEF Next, HandleValue, LoadValue, Receive, Restore, Skip, GiveUpRest,
       Sample, KeepSample, StoreBoolean, Unexpected, FinishMessage, Restart,
       databaseVars
  <2>2. w = v /\ row'[v].val = NewNumber(v)
    BY <2>1 DEF StoreNumber, InsertReal, Refuse, IInv, Shape
  <2>3. lastVal[v] = row[v].val
    BY <2>1 DEF IInv, LastIsInDatabase, StoreNumber, Look, Handle
  <2> QED
    BY <2>1, <2>2, <2>3 DEF StoreNumber
<1> QED
  BY <1>1, DbInvariant, PTL DEF Spec, RowsApart

-----------------------------------------------------------------------------
(* gcd.  A set of numbers has a least one; so an argument by the least     *)
(* number for which something fails stands for an induction.               *)

LEMMA LeastNumber ==
    ASSUME NEW B, B \subseteq Nat, B # {}
    PROVE  \E m \in B : \A k \in B : m <= k
<1> DEFINE T == {0..n : n \in B}
<1>1. T # {} /\ T \subseteq FiniteSubsetsOf(Nat)
  <2>1. \A n \in B : IsFiniteSet(0..n) /\ 0..n \subseteq Nat
    BY FS_Interval
  <2>2. \A n \in B : 0..n \in FiniteSubsetsOf(Nat)
    BY <2>1 DEF FiniteSubsetsOf
  <2> QED
    BY <2>2
<1>2. IsWellFoundedOn(StrictSubsetOrdering(Nat), FiniteSubsetsOf(Nat))
  BY FS_StrictSubsetOrderingWellFounded
<1>3. PICK x \in T : \A y \in T : ~(<<y, x>> \in StrictSubsetOrdering(Nat))
  <2> HIDE DEF T
  <2> QED
    BY <1>1, <1>2, WFMin
<1>4. PICK m \in B : x = 0..m
  BY <1>3
<1>5. ASSUME NEW k \in B, ~(m <= k) PROVE FALSE
  <2>1. 0..k \subseteq 0..m /\ 0..k # 0..m
    BY <1>5
  <2>2. <<0..k, 0..m>> \in StrictSubsetOrdering(Nat)
    BY <2>1 DEF StrictSubsetOrdering
  <2>3. 0..k \in T
    OBVIOUS
  <2> QED
    BY <1>3, <1>4, <2>2, <2>3
<1> QED
  BY <1>4, <1>5

\* One round of the recursion for a divisor y.
Round(h, y) == [x \in Nat |-> IF y = 0 THEN x ELSE h[x % y][y]]
\* The functions that obey the recursion up to n.
UpTo(n) == {h \in [0..n -> [Nat -> Nat]] : \A y \in 0..n : h[y] = Round(h, y)}

LEMMA RoundType ==
    ASSUME NEW y \in Nat, NEW h, \A z \in 0..y-1 : h[z] \in [Nat -> Nat]
    PROVE  /\ Round(h, y) \in [Nat -> Nat]
           /\ y # 0 => \A x \in Nat : x % y \in 0..y-1
<1>1. ASSUME y # 0, NEW x \in Nat PROVE x % y \in 0..y-1
  BY <1>1
<1> QED
  BY <1>1 DEF Round

LEMMA RoundDepends ==
    ASSUME NEW y \in Nat, NEW h, NEW k, \A z \in 0..y-1 : h[z] = k[z]
    PROVE  Round(h, y) = Round(k, y)
<1>1. ASSUME y # 0, NEW x \in Nat PROVE x % y \in 0..y-1
  BY <1>1
<1> QED
  BY <1>1 DEF Round

LEMMA UpToUnique ==
    ASSUME NEW m \in Nat, NEW n \in Nat, NEW h \in UpTo(m), NEW k \in UpTo(n)
    PROVE  \A y \in Nat : y <= m /\ y <= n => h[y] = k[y]
<1> DEFINE B == {y \in Nat : y <= m /\ y <= n /\ h[y] # k[y]}
<1> SUFFICES ASSUME B # {} PROVE FALSE
  OBVIOUS
<1>1. PICK y \in B : \A z \in B : y <= z
  <2> HIDE DEF B
  <2>1. B \subseteq Nat
    BY DEF B
  <2> QED
    BY <2>1, LeastNumber
<1>2. \A z \in 0..y-1 : h[z] = k[z]
  BY <1>1
<1>3. h[y] = Round(h, y) /\ k[y] = Round(k, y)
  BY <1>1 DEF UpTo
<1> QED
  BY <1>1, <1>2, <1>3, RoundDepends

LEMMA UpToExists == \A n \in Nat : UpTo(n) # {}
<1> DEFINE B == {n \in Nat : UpTo(n) = {}}
<1> SUFFICES ASSUME B # {} PROVE FALSE
  OBVIOUS
<1>1. PICK n \in B : \A m \in B : n <= m
  <2> HIDE DEF B
  <2>1. B \subseteq Nat
    BY DEF B
  <2> QED
    BY <2>1, LeastNumber
<1>2. PICK h : \A z \in 0..n-1 : h[z] \in [Nat -> Nat] /\ h[z] = Round(h, z)
  <2>1. CASE n = 0
    BY <2>1
  <2>2. CASE n # 0
    <3>1. n - 1 \in Nat /\ UpTo(n-1) # {}
      BY <1>1, <2>2
    <3>2. PICK h \in UpTo(n-1) : TRUE
      BY <3>1
    <3> QED
      BY <3>1, <3>2 DEF UpTo
  <2> QED
    BY <2>1, <2>2
<1> DEFINE k == [y \in 0..n |-> IF y = n THEN Round(h, n) ELSE h[y]]
<1>3. \A z \in 0..n-1 : k[z] = h[z]
  BY <1>1
<1>4. k \in [0..n -> [Nat -> Nat]]
  <2>1. Round(h, n) \in [Nat -> Nat]
    BY <1>1, <1>2, RoundType
  <2>2. \A y \in 0..n : y # n => y \in 0..n-1
    BY <1>1
  <2> QED
    BY <1>2, <2>1, <2>2
<1>5. ASSUME NEW y \in 0..n PROVE k[y] = Round(k, y)
  <2>1. Round(k, y) = Round(h, y)
    <3>1. \A z \in 0..y-1 : k[z] = h[z]
      BY <1>1, <1>3
    <3> HIDE DEF k
    <3> QED
      BY <3>1, RoundDepends
  <2> QED
    BY <1>1, <1>2, <2>1
<1>6. k \in UpTo(n)
  BY <1>4, <1>5 DEF UpTo
<1> QED
  BY <1>1, <1>6

\* The recursion of gcd is well founded.
LEMMA GcdIsRecursive ==
    /\ gcd = [y \in Nat |-> Round(gcd, y)]
    /\ gcd \in [Nat -> [Nat -> Nat]]
<1> DEFINE part == [n \in Nat |-> CHOOSE h : h \in UpTo(n)]
           f == [y \in Nat |-> part[y][y]]
<1>1. \A n \in Nat : part[n] \in UpTo(n)
  BY UpToExists
<1> HIDE DEF part
<1>2. ASSUME NEW y \in Nat PROVE f[y] = Round(f, y) /\ f[y] \in [Nat -> Nat]
  <2>1. part[y] \in UpTo(y) /\ y \in 0..y /\ f[y] = part[y][y]
    BY <1>1
  <2>2. f[y] = Round(part[y], y) /\ f[y] \in [Nat -> Nat]
    <3> HIDE DEF f
    <3> QED
      BY <2>1 DEF UpTo
  <2>3. \A z \in 0..y-1 : part[y][z] = f[z]
    BY <1>1, UpToUnique
  <2> HIDE DEF f
  <2> QED
    BY <2>2, <2>3, RoundDepends
<1>3. f = [y \in Nat |-> Round(f, y)]
  BY <1>2
<1> HIDE DEF f
<1> DEFINE Solves(g) == g = [y \in Nat |-> Round(g, y)]
<1>4. gcd = CHOOSE g : Solves(g)
  BY DEF gcd, Round
<1>5. Solves(f)
  BY <1>3
<1>6. Solves(gcd)
  <2> HIDE DEF Solves
  <2> QED
    BY <1>4, <1>5
<1>7. \A y \in Nat : gcd[y] \in [Nat -> Nat]
  <2> DEFINE B == {y \in Nat : gcd[y] \notin [Nat -> Nat]}
  <2> SUFFICES ASSUME B # {} PROVE FALSE
    OBVIOUS
  <2>1. PICK y \in B : \A z \in B : y <= z
    <3> HIDE DEF B
    <3>1. B \subseteq Nat
      BY DEF B
    <3> QED
      BY <3>1, LeastNumber
  <2>2. \A z \in 0..y-1 : gcd[z] \in [Nat -> Nat]
    BY <2>1
  <2>3. gcd[y] = Round(gcd, y)
    BY <1>6, <2>1
  <2> QED
    BY <2>1, <2>2, <2>3, RoundType
<1> QED
  BY <1>6, <1>7
-----------------------------------------------------------------------------
(* The intervals.                                                          *)

LEMMA SensorOfValue ==
    ASSUME NEW v \in Values
    PROVE  /\ SensorOf(v) \in Sensors
           /\ v \in ValuesIn(SensorOf(v))
           /\ \A s \in Sensors : v \in ValuesIn(s) => SensorOf(v) = s
<1>1. PICK s \in Sensors : \A t \in Sensors : v \in ValuesIn(t) <=> t = s
  BY SensorAssumption
<1> QED
  BY <1>1 DEF SensorOf

\* The common interval of numbers is a number.
LEMMA CommonIsNumber ==
    ASSUME NEW g \in Nat \cup {Unset}, NEW v \in Values
    PROVE  Common(g, v) \in Nat
<1>1. Interval[v] \in Nat
  BY ConfigAssumption
<1>2. CASE v \in Averaging \/ g = 0 \/ g = Unset
  BY <1>1, <1>2 DEF Common
<1>3. CASE g \in Nat
  BY <1>1, <1>3, GcdIsRecursive DEF Common
<1> QED
  BY <1>2, <1>3

LEMMA DueInit == Init => DueInv
<1> SUFFICES ASSUME Init PROVE DueInv
  OBVIOUS
<1>1. GatesAreNumbers
  BY DEF Init, GatesAreNumbers
<1>2. AgesArePast
  BY DEF Init, AgesArePast
<1>3. RestartedInTime
  BY SensorOfValue, ConfigAssumption DEF Init, RestartedInTime, Unhandled
<1>4. LookedAtWhenDue
  BY DEF Init, LookedAtWhenDue
<1> QED
  BY <1>1, <1>2, <1>3, <1>4 DEF DueInv

LEMMA DueConfig ==
    ASSUME IInv, DueInv, (\E s \in Sensors : LoadValue(s)) \/ Restore \/ Restart
    PROVE  DueInv'
<1>1. CASE \E s \in Sensors : LoadValue(s)
  <2>1. PICK s \in Sensors : LoadValue(s)
    BY <1>1
  <2> USE <2>1 DEF LoadValue, sensorVars, messageVars, ageVars
  <2>2. /\ gate' = [gate EXCEPT ![s] = Common(@, ValuesOf[s][loaded[s] + 1])]
        /\ loaded' = [loaded EXCEPT ![s] = @ + 1]
        /\ DOMAIN gate = Sensors /\ loaded \in [Sensors -> Nat]
    BY DEF IInv, Shape
  <2>3. gate'[s] \in Nat
    <3>1. ValuesOf[s][loaded[s] + 1] \in Values
      BY <2>2, ValuesAreValues
    <3> QED
      BY <2>2, <3>1, CommonIsNumber DEF DueInv, GatesAreNumbers
  <2>4. GatesAreNumbers'
    BY <2>2, <2>3 DEF DueInv, GatesAreNumbers
  <2>5. AgesArePast' /\ RestartedInTime' /\ LookedAtWhenDue'
    BY DEF DueInv, AgesArePast, RestartedInTime, LookedAtWhenDue, Unhandled
  <2> QED
    BY <2>4, <2>5 DEF DueInv
<1>2. CASE Restore
  <2> USE <1>2 DEF Restore, configVars, messageVars, ageVars
  <2>1. GatesAreNumbers' /\ AgesArePast' /\ RestartedInTime'
    BY DEF DueInv, GatesAreNumbers, AgesArePast, RestartedInTime, Unhandled
  <2>2. \A v \in Values : ~(passed[v] > looked[v])
    BY DEF DueInv, AgesArePast
  <2> QED
    BY <2>1, <2>2 DEF DueInv, LookedAtWhenDue
<1>3. CASE Restart
  <2> USE <1>3 DEF Restart
  <2>1. GatesAreNumbers'
    BY DEF GatesAreNumbers
  <2>2. AgesArePast'
    BY DEF IInv, Shape, AgesArePast
  <2>3. RestartedInTime'
    BY SensorOfValue, ConfigAssumption DEF RestartedInTime, Unhandled
  <2> QED
    BY <2>1, <2>2, <2>3 DEF DueInv, LookedAtWhenDue
<1> QED
  BY <1>1, <1>2, <1>3

\* The interval of the sensor of a value, once the configuration is read.
LEMMA GateOfValue ==
    ASSUME IInv, DueInv, phase # "config", NEW v \in Values
    PROVE  gate[SensorOf(v)] \in Nat
<1>1. loaded[SensorOf(v)] = Len(ValuesOf[SensorOf(v)])
  BY SensorOfValue DEF IInv, NoGateForAverages
<1>2. Len(ValuesOf[SensorOf(v)]) > 0
  BY SensorOfValue, ValuesAreValues DEF ValuesIn
<1> QED
  BY <1>1, <1>2, SensorOfValue DEF DueInv, GatesAreNumbers

\* What an ignored message passes over is not yet due: the sensor was last
\* restarted within the interval of the value.
LEMMA DueReceive ==
    ASSUME IInv, DueInv, NEW s \in Sensors, Receive(s)
    PROVE  DueInv'
<1>1. PICK gap \in 1..MaxGap, keys \in SUBSET ValuesIn(s) :
        \E m \in Messages(keys) :
            /\ now' = now + gap
            /\ \/ Ignore(s, m, now')
               \/ GiveUp(s, m)
               \/ Accept(s, m)
  BY DEF Receive
<1>2. PICK m \in Messages(keys) :
        /\ now' = now + gap
        /\ \/ Ignore(s, m, now')
           \/ GiveUp(s, m)
           \/ Accept(s, m)
  BY <1>1
<1>3. /\ DOMAIN m \subseteq ValuesIn(s)
      /\ phase = "idle"
      /\ UNCHANGED <<loaded, gate, sLast, vLast, looked>>
      /\ absent \subseteq absent'
  BY <1>2 DEF Messages, Receive, Ignore, GiveUp, Accept, configVars, sensorVars
<1>4. now \in Nat /\ now' \in Nat /\ now' > now
  BY <1>2, BoundAssumption DEF IInv, Shape
<1>5. Interval \in [Values -> Nat]
  BY ConfigAssumption
<1>6. \A v \in Values : /\ vLast[v] \in 0..now /\ looked[v] \in 0..now
                        /\ passed[v] \in 0..now /\ vLast[v] <= looked[v]
                        /\ sLast[SensorOf(v)] \in 0..now
  BY SensorOfValue DEF DueInv, AgesArePast
<1>7. GatesAreNumbers'
  BY <1>3 DEF DueInv, GatesAreNumbers
<1>8. /\ passed' \in [Values -> 0..now']
      /\ phase' # "config"
  BY <1>2, <1>3, <1>4 DEF Ignore, GiveUp, Accept, DueInv, AgesArePast
<1>9. AgesArePast'
  <2>1. 0..now \subseteq 0..now'
    BY <1>4
  <2> QED
    BY <1>3, <1>8, <2>1 DEF DueInv, AgesArePast
<1>10. RestartedInTime'
  <2> SUFFICES ASSUME NEW v \in Values, v \notin absent', v \notin Unhandled'
               PROVE  /\ sLast[SensorOf(v)] <= looked[v] + Interval[v]
                      /\ ~(phase' = "message" /\ SensorOf(v) = sensor')
    BY <1>3 DEF RestartedInTime, Unhandled
  <2>1. sLast[SensorOf(v)] <= looked[v] + Interval[v]
    BY <1>3 DEF DueInv, RestartedInTime, Unhandled
  <2>2. ASSUME phase' = "message", SensorOf(v) = sensor' PROVE FALSE
    <3>1. Accept(s, m) /\ v \in ValuesIn(s)
      BY <1>2, <1>3, <2>2, SensorOfValue DEF Ignore, GiveUp, Accept
    <3> QED
      BY <2>2, <3>1 DEF Accept, Unhandled
  <2> QED
    BY <2>1, <2>2
<1>11. LookedAtWhenDue'
  <2> SUFFICES ASSUME NEW v \in Values, v \notin absent', passed'[v] > looked[v]
               PROVE  passed'[v] < looked[v] + Interval[v] + gate[SensorOf(v)]
    BY <1>3, Zenon DEF LookedAtWhenDue
  <2>1. gate[SensorOf(v)] \in Nat
    BY <1>3, GateOfValue
  <2>2. CASE passed'[v] = passed[v]
    BY <1>3, <2>2 DEF DueInv, LookedAtWhenDue
  <2>3. CASE passed'[v] # passed[v]
    <3>1. Ignore(s, m, now') /\ v \in DOMAIN m /\ passed'[v] = now'
      BY <1>2, <2>3 DEF Ignore, GiveUp, Accept, DueInv, AgesArePast
    <3>2. SensorOf(v) = s
      BY <1>3, <3>1, SensorOfValue
    <3>3. now' - sLast[s] < gate[s]
      BY <3>1 DEF Ignore
    <3>4. sLast[s] <= looked[v] + Interval[v]
      BY <1>3, <3>2 DEF DueInv, RestartedInTime, Unhandled
    <3> QED
      BY <1>4, <1>5, <1>6, <2>1, <3>1, <3>2, <3>3, <3>4
  <2> QED
    BY <2>2, <2>3
<1> QED
  BY <1>7, <1>9, <1>10, <1>11 DEF DueInv

\* What handling a value changes: it was skipped within its interval or looked
\* at; in the latter case it may be stored.
LEMMA DueHandle ==
    ASSUME IInv, DueInv, NEW v \in Values, HandleValue(v), ~GiveUpRest(v)
    PROVE  DueInv'
<1>1. /\ phase = "message" /\ v \in DOMAIN msg /\ phase' = "message"
      /\ Unhandled' = Unhandled \ {v}
      /\ UNCHANGED <<loaded, gate, sensor, now>>
  BY DEF HandleValue, Skip, Sample, KeepSample, StoreNumber, StoreBoolean,
     Unexpected, Look, Handle, Without, Unhandled, configVars
<1>2. \/ /\ now - vLast[v] < Interval[v]
         /\ passed' = [passed EXCEPT ![v] = now]
         /\ UNCHANGED <<sLast, vLast, looked, absent>>
      \/ /\ looked' = [looked EXCEPT ![v] = now]
         /\ absent' = absent \ {v}
         /\ passed' = passed
         /\ \/ vLast' = [vLast EXCEPT ![v] = now] /\ sLast' = [sLast EXCEPT ![sensor] = now]
            \/ UNCHANGED <<sLast, vLast>>
  BY DEF HandleValue, Skip, Sample, KeepSample, StoreNumber, StoreBoolean,
     Unexpected, Look, TooEarly, Age, sensorVars
<1>3. /\ now \in Nat /\ sensor \in Sensors
      /\ SensorOf(v) = sensor
      /\ \A w \in Unhandled : w \in Values => SensorOf(w) = sensor
  BY <1>1, SensorOfValue DEF IInv, Shape, Unhandled
<1>4. Interval \in [Values -> Nat]
  BY ConfigAssumption
<1>5. /\ sLast \in [Sensors -> 0..now] /\ vLast \in [Values -> 0..now]
      /\ looked \in [Values -> 0..now] /\ passed \in [Values -> 0..now]
      /\ \A w \in Values : vLast[w] <= looked[w] /\ SensorOf(w) \in Sensors
  BY SensorOfValue DEF DueInv, AgesArePast
<1>6. GatesAreNumbers'
  BY <1>1 DEF DueInv, GatesAreNumbers
<1>7. AgesArePast'
  <2>1. /\ sLast' \in [Sensors -> 0..now] /\ vLast' \in [Values -> 0..now]
        /\ looked' \in [Values -> 0..now] /\ passed' \in [Values -> 0..now]
        /\ \A w \in Values : vLast'[w] <= looked'[w]
    BY <1>2, <1>3, <1>5
  <2> QED
    BY <1>1, <2>1 DEF AgesArePast
<1>8. RestartedInTime'
  <2> SUFFICES ASSUME NEW w \in Values, w \notin absent', w \notin Unhandled'
               PROVE  /\ sLast'[SensorOf(w)] <= looked'[w] + Interval[w]
                      /\ SensorOf(w) = sensor => now <= looked'[w] + Interval[w]
    BY <1>1 DEF RestartedInTime
  <2>1. SensorOf(w) = sensor => now <= looked'[w] + Interval[w]
    <3>1. CASE w = v
      BY <1>2, <1>3, <1>4, <1>5, <3>1
    <3>2. CASE w # v
      <4>1. w \notin absent /\ w \notin Unhandled /\ looked'[w] = looked[w]
        BY <1>1, <1>2, <1>5, <3>2
      <4>2. SensorOf(w) = sensor => now <= looked[w] + Interval[w]
        BY <1>1, <4>1, Zenon DEF DueInv, RestartedInTime
      <4> QED
        BY <4>1, <4>2
    <3> QED
      BY <3>1, <3>2
  <2>2. sLast'[SensorOf(w)] <= looked'[w] + Interval[w]
    <3>1. CASE SensorOf(w) = sensor
      <4>1. sLast'[sensor] <= now
        BY <1>2, <1>3, <1>5
      <4> QED
        BY <1>2, <1>3, <1>4, <1>5, <2>1, <3>1, <4>1
    <3>2. CASE SensorOf(w) # sensor
      <4>1. /\ w # v /\ w \notin absent /\ w \notin Unhandled
            /\ looked'[w] = looked[w] /\ sLast'[SensorOf(w)] = sLast[SensorOf(w)]
        BY <1>1, <1>2, <1>3, <1>5, <3>2
      <4> QED
        BY <4>1 DEF DueInv, RestartedInTime
    <3> QED
      BY <3>1, <3>2
  <2> QED
    BY <2>1, <2>2
<1>9. LookedAtWhenDue'
  <2> SUFFICES ASSUME NEW w \in Values, w \notin absent', passed'[w] > looked'[w]
               PROVE  passed'[w] < looked'[w] + Interval[w] + gate[SensorOf(w)]
    BY <1>1, Zenon DEF LookedAtWhenDue
  <2>1. gate[SensorOf(w)] \in Nat
    BY <1>1, GateOfValue
  <2>2. CASE w = v
    BY <1>2, <1>3, <1>4, <1>5, <2>1, <2>2
  <2>3. CASE w # v
    <3>1. w \notin absent /\ passed'[w] = passed[w] /\ looked'[w] = looked[w]
      BY <1>2, <1>5, <2>3
    <3>2. passed[w] < looked[w] + Interval[w] + gate[SensorOf(w)]
      BY <1>1, <3>1 DEF DueInv, LookedAtWhenDue
    <3> QED
      BY <3>1, <3>2
  <2> QED
    BY <2>2, <2>3
<1> QED
  BY <1>6, <1>7, <1>8, <1>9 DEF DueInv

LEMMA DueOthers ==
    ASSUME IInv, DueInv,
           (\E v \in Values : GiveUpRest(v)) \/ FinishMessage \/ UNCHANGED vars
    PROVE  DueInv'
<1>1. /\ UNCHANGED <<loaded, gate, sLast, vLast, looked, passed, now, sensor>>
      /\ absent \subseteq absent'
      /\ \/ UNCHANGED <<phase, msg>>
         \/ phase' = "idle" /\ phase # "config" /\ Unhandled \subseteq absent'
  BY DEF GiveUpRest, FinishMessage, Unhandled, NoMessage, vars, configVars, sensorVars,
     messageVars, ageVars
<1>2. GatesAreNumbers' /\ AgesArePast'
  BY <1>1 DEF DueInv, GatesAreNumbers, AgesArePast
<1>3. RestartedInTime'
  BY <1>1 DEF DueInv, RestartedInTime, Unhandled
<1>4. LookedAtWhenDue'
  BY <1>1 DEF DueInv, LookedAtWhenDue
<1> QED
  BY <1>2, <1>3, <1>4 DEF DueInv

LEMMA DueStep == IInv /\ DueInv /\ [Next]_vars => DueInv'
BY DueConfig, DueReceive, DueHandle, DueOthers DEF Next, HandleValue

\* A value that every message carries is looked at within the sum of its interval
\* and that of its sensor, whatever rows the other values of the sensor cause
\* (db_sqlite3_daemon.cpp:341, 360): it is not starved.
THEOREM DueValuesAreLookedAt == Spec => []LookedAtWhenDue
<1>1. Spec => []DueInv
  BY DbInvariant, DueInit, DueStep, PTL DEF Spec
<1>2. DueInv => LookedAtWhenDue
  BY DEF DueInv
<1> QED
  BY <1>1, <1>2, PTL

-----------------------------------------------------------------------------
(* Averages.                                                               *)

\* A set of integers between two bounds, or a finite one, has a least and a
\* greatest element.
LEMMA BoundedMinMax ==
    ASSUME NEW S, S # {}, NEW a \in Int, NEW b \in Int, S \subseteq a..b
    PROVE  /\ Min(S) \in S /\ \A y \in S : Min(S) <= y
           /\ Max(S) \in S /\ \A y \in S : y <= Max(S)
<1>1. \E x \in S : \A y \in S : x <= y
  <2> DEFINE B == {x - a : x \in S}
  <2>1. B \subseteq Nat /\ B # {}
    <3>1. \A x \in S : x - a \in Nat
      OBVIOUS
    <3> QED
      BY <3>1
  <2> HIDE DEF B
  <2>2. PICK m \in B : \A k \in B : m <= k
    BY <2>1, LeastNumber
  <2>3. PICK x \in S : m = x - a
    BY DEF B
  <2>4. \A y \in S : y - a \in B
    BY DEF B
  <2> QED
    BY <2>2, <2>3, <2>4
<1>2. \E x \in S : \A y \in S : x >= y
  <2> DEFINE B == {b - x : x \in S}
  <2>1. B \subseteq Nat /\ B # {}
    <3>1. \A x \in S : b - x \in Nat
      OBVIOUS
    <3> QED
      BY <3>1
  <2> HIDE DEF B
  <2>2. PICK m \in B : \A k \in B : m <= k
    BY <2>1, LeastNumber
  <2>3. PICK x \in S : m = b - x
    BY DEF B
  <2>4. \A y \in S : b - y \in B
    BY DEF B
  <2> QED
    BY <2>2, <2>3, <2>4
<1>3. Min(S) \in S /\ \A y \in S : Min(S) <= y
  BY <1>1 DEF Min
<1>4. Max(S) \in S /\ \A y \in S : Max(S) >= y
  BY <1>2 DEF Max
<1> QED
  BY <1>3, <1>4

LEMMA FiniteIsBounded ==
    ASSUME NEW F, IsFiniteSet(F), F \subseteq Int
    PROVE  \E a, b \in Int : F \subseteq a..b
<1> DEFINE Bounded(A) == \E a, b \in Int : A \subseteq a..b
           T == {A \in SUBSET F : ~Bounded(A)}
<1> SUFFICES ASSUME T # {} PROVE FALSE
  OBVIOUS
<1>1. T \subseteq FiniteSubsetsOf(F)
  BY FS_Subset DEF FiniteSubsetsOf
<1>2. IsWellFoundedOn(StrictSubsetOrdering(F), FiniteSubsetsOf(F))
  BY FS_StrictSubsetOrderingWellFounded
<1>3. PICK A \in T : \A B \in T : ~(<<B, A>> \in StrictSubsetOrdering(F))
  <2> HIDE DEF T
  <2> QED
    BY <1>1, <1>2, WFMin
<1>4. ~Bounded(A) /\ A \subseteq F
  OBVIOUS
<1>5. A # {}
  BY <1>4, 0 \in Int
<1>6. PICK x \in A : x \in Int
  BY <1>4, <1>5
<1>7. Bounded(A \ {x})
  <2>1. <<A \ {x}, A>> \in StrictSubsetOrdering(F)
    BY <1>4, <1>6 DEF StrictSubsetOrdering
  <2> QED
    BY <1>3, <1>4, <2>1
<1>8. PICK a \in Int, b \in Int : A \ {x} \subseteq a..b
  BY <1>7
<1>9. PICK c \in Int, d \in Int : c <= a /\ c <= x /\ b <= d /\ x <= d
  <2> DEFINE c == IF x < a THEN x ELSE a
             d == IF x > b THEN x ELSE b
  <2>1. c \in Int /\ d \in Int /\ c <= a /\ c <= x /\ b <= d /\ x <= d
    BY <1>6, <1>8
  <2> QED
    BY <2>1
<1>10. A \subseteq c..d
  BY <1>6, <1>8, <1>9
<1> QED
  BY <1>4, <1>10

\* One step of the recursion.
Slice(E, h, t) ==
    IF t = First(E) THEN 0
    ELSE h[Before(E, t)]
         + (NumberAt(E, Before(E, t)) + NumberAt(E, t)) * (t - Before(E, t))

\* Samples as the daemon has them when it takes an average.
Averageable(E, n) ==
    /\ n \in Nat
    /\ E # {} /\ Times(E) \subseteq 0..n
    /\ \A e \in E : e.val \in Int

LEMMA TimesOfSamples ==
    ASSUME NEW E, NEW n, Averageable(E, n)
    PROVE  /\ First(E) \in Times(E) /\ \A t \in Times(E) : First(E) <= t
           /\ Last(E) \in Times(E) /\ \A t \in Times(E) : t <= Last(E)
           /\ \A t \in Times(E) : t # First(E) =>
                  Before(E, t) \in Times(E) /\ Before(E, t) < t
<1>1. Times(E) # {} /\ 0 \in Int /\ n \in Int /\ Times(E) \subseteq 0..n
  BY DEF Averageable, Times
<1>2. /\ First(E) \in Times(E) /\ \A t \in Times(E) : First(E) <= t
      /\ Last(E) \in Times(E) /\ \A t \in Times(E) : t <= Last(E)
  BY <1>1, BoundedMinMax DEF First, Last
<1>3. ASSUME NEW t \in Times(E), t # First(E)
      PROVE  Before(E, t) \in Times(E) /\ Before(E, t) < t
  <2> DEFINE S == {u \in Times(E) : u < t}
  <2>1. First(E) \in S /\ S \subseteq 0..n
    BY <1>1, <1>2, <1>3
  <2>2. Max(S) \in S
    <3> HIDE DEF S
    <3> QED
      BY <1>1, <2>1, BoundedMinMax
  <2> QED
    BY <2>2 DEF Before
<1> QED
  BY <1>2, <1>3

LEMMA NumberOfSample ==
    ASSUME NEW E, NEW t \in Times(E)
    PROVE  \E e \in E : NumberAt(E, t) = e.val
BY DEF Times, NumberAt

LEMMA SliceType ==
    ASSUME NEW E, NEW n, Averageable(E, n), NEW t \in Times(E), NEW h,
           \A u \in Times(E) : u < t => h[u] \in Int
    PROVE  Slice(E, h, t) \in Int
<1>1. CASE t = First(E)
  BY <1>1 DEF Slice
<1>2. CASE t # First(E)
  <2>1. Before(E, t) \in Times(E) /\ h[Before(E, t)] \in Int
    BY <1>2, TimesOfSamples
  <2>2. NumberAt(E, t) \in Int /\ NumberAt(E, Before(E, t)) \in Int
    BY <2>1, NumberOfSample DEF Averageable
  <2>3. t \in Int /\ Before(E, t) \in Int
    BY <2>1 DEF Averageable
  <2> QED
    BY <1>2, <2>1, <2>2, <2>3 DEF Slice
<1> QED
  BY <1>1, <1>2

LEMMA SliceDepends ==
    ASSUME NEW E, NEW n, Averageable(E, n), NEW t \in Times(E), NEW h, NEW k,
           \A u \in Times(E) : u < t => h[u] = k[u]
    PROVE  Slice(E, h, t) = Slice(E, k, t)
<1>1. t # First(E) => h[Before(E, t)] = k[Before(E, t)]
  BY TimesOfSamples
<1> QED
  BY <1>1 DEF Slice

\* The recursion over the samples is well founded.
LEMMA AreaIsRecursive ==
    ASSUME NEW E, NEW n, Averageable(E, n)
    PROVE  /\ AreaTill(E) \in [Times(E) -> Int]
           /\ \A t \in Times(E) : AreaTill(E)[t] = Slice(E, AreaTill(E), t)
<1> DEFINE Solved(h, m) == \A t \in Times(E) : t <= m => h[t] = Slice(E, h, t)
           Reached(m) == \E h \in [Times(E) -> Int] : Solved(h, m)
<1>1. Reached(n)
  <2> DEFINE B == {m \in Nat : ~Reached(m)}
  <2> SUFFICES ASSUME B # {} PROVE FALSE
    BY DEF Averageable
  <2>1. PICK m \in B : \A k \in B : m <= k
    <3>1. B \subseteq Nat
      OBVIOUS
    <3> HIDE DEF B
    <3> QED
      BY <3>1, LeastNumber
  <2>2. PICK h \in [Times(E) -> Int] :
           \A t \in Times(E) : t < m => h[t] = Slice(E, h, t)
    <3>1. CASE m = 0
      <4>1. [t \in Times(E) |-> 0] \in [Times(E) -> Int]
        OBVIOUS
      <4>2. \A t \in Times(E) : ~(t < 0)
        BY DEF Averageable
      <4> QED
        BY <3>1, <4>1, <4>2
    <3>2. CASE m # 0
      <4>1. m - 1 \in Nat /\ m - 1 < m
        BY <2>1, <3>2
      <4>2. Reached(m - 1)
        BY <2>1, <4>1
      <4>3. \A t \in Times(E) : t < m => t <= m - 1
        BY <2>1 DEF Averageable
      <4> QED
        BY <4>2, <4>3
    <3> QED
      BY <3>1, <3>2
  <2> DEFINE k == [t \in Times(E) |-> IF t = m THEN Slice(E, h, m) ELSE h[t]]
  <2>3. \A u \in Times(E) : u < m => k[u] = h[u]
    BY <2>1 DEF Averageable
  <2>4. k \in [Times(E) -> Int]
    <3>1. m \in Times(E) => Slice(E, h, m) \in Int
      BY <2>2, SliceType
    <3> QED
      BY <2>2, <3>1
  <2>5. ASSUME NEW t \in Times(E), t <= m PROVE k[t] = Slice(E, k, t)
    <3>1. Slice(E, k, t) = Slice(E, h, t)
      <4>1. \A u \in Times(E) : u < t => k[u] = h[u]
        <5>1. t \in Nat /\ m \in Nat /\ \A u \in Times(E) : u \in Nat
          BY <2>1 DEF Averageable
        <5> HIDE DEF k
        <5> QED
          BY <2>3, <2>5, <5>1
      <4> HIDE DEF k
      <4> QED
        BY <4>1, SliceDepends
    <3>2. t # m => t < m
      BY <2>1, <2>5 DEF Averageable
    <3> QED
      BY <2>2, <3>1, <3>2
  <2> HIDE DEF k
  <2>6. Reached(m)
    BY <2>4, <2>5
  <2> QED
    BY <2>1, <2>6
<1>2. PICK h \in [Times(E) -> Int] : \A t \in Times(E) : h[t] = Slice(E, h, t)
  BY <1>1 DEF Averageable
<1> DEFINE Solves(g) == g = [t \in Times(E) |-> Slice(E, g, t)]
<1>3. AreaTill(E) = CHOOSE g : Solves(g)
  BY DEF AreaTill, Slice
<1>4. Solves(h)
  BY <1>2
<1>5. Solves(AreaTill(E))
  <2> HIDE DEF Solves
  <2> QED
    BY <1>3, <1>4
<1>6. \A t \in Times(E) : AreaTill(E)[t] = Slice(E, AreaTill(E), t)
  BY <1>5
<1>7. \A t \in Times(E) : AreaTill(E)[t] \in Int
  <2> DEFINE B == {t \in Times(E) : AreaTill(E)[t] \notin Int}
  <2> SUFFICES ASSUME B # {} PROVE FALSE
    OBVIOUS
  <2>1. PICK t \in B : \A u \in B : t <= u
    <3>1. B \subseteq Nat
      BY DEF Averageable
    <3> HIDE DEF B
    <3> QED
      BY <3>1, LeastNumber
  <2>2. \A u \in Times(E) : u < t => AreaTill(E)[u] \in Int
    BY <2>1 DEF Averageable
  <2> QED
    BY <1>6, <2>1, <2>2, SliceType
<1> QED
  BY <1>5, <1>7

\* Two numbers between lo and hi, held for d, are between lo and hi held for d.
LEMMA TrapezoidInRange ==
    ASSUME NEW lo \in Int, NEW hi \in Int, NEW x \in lo..hi, NEW y \in lo..hi,
           NEW d \in Nat
    PROVE  2 * lo * d <= (x + y) * d /\ (x + y) * d <= 2 * hi * d
<1>1. \A p, q \in Int : p <= q => p * d <= q * d
  OBVIOUS
<1>2. 2 * lo <= x + y /\ x + y <= 2 * hi
  OBVIOUS
<1> QED
  BY <1>1, <1>2

LEMMA AreaInRange ==
    ASSUME NEW E, NEW n, Averageable(E, n), NEW lo \in Int, NEW hi \in Int,
           \A e \in E : e.val \in lo..hi
    PROVE  \A t \in Times(E) :
               /\ 2 * lo * (t - First(E)) <= AreaTill(E)[t]
               /\ AreaTill(E)[t] <= 2 * hi * (t - First(E))
<1> DEFINE Within(t) == /\ 2 * lo * (t - First(E)) <= AreaTill(E)[t]
                        /\ AreaTill(E)[t] <= 2 * hi * (t - First(E))
           B == {t \in Times(E) : ~Within(t)}
<1> SUFFICES ASSUME B # {} PROVE FALSE
  OBVIOUS
<1>1. PICK t \in B : \A u \in B : t <= u
  <2>1. B \subseteq Nat
    BY DEF Averageable
  <2> HIDE DEF B
  <2> QED
    BY <2>1, LeastNumber
<1>2. t \in Times(E) /\ ~Within(t)
  OBVIOUS
<1>3. \A u \in Times(E) : u \in Nat
  BY DEF Averageable
<1>4. First(E) \in Nat
  BY <1>3, TimesOfSamples
<1>5. t # First(E)
  <2>1. ASSUME t = First(E) PROVE FALSE
    <3>1. AreaTill(E)[t] = 0
      BY <1>2, <2>1, AreaIsRecursive DEF Slice
    <3> QED
      BY <1>2, <1>4, <2>1, <3>1
  <2> QED
    BY <2>1
<1> DEFINE u == Before(E, t)
           x == NumberAt(E, u)
           y == NumberAt(E, t)
<1>6. u \in Times(E) /\ u < t
  BY <1>2, <1>5, TimesOfSamples
<1>7. Within(u)
  <2>1. ~(t <= u)
    BY <1>2, <1>3, <1>6
  <2> QED
    BY <1>1, <1>6, <2>1
<1>8. AreaTill(E)[t] = AreaTill(E)[u] + (x + y) * (t - u)
  <2>1. AreaTill(E)[t] = Slice(E, AreaTill(E), t)
    BY <1>2, AreaIsRecursive
  <2> QED
    BY <1>5, <2>1 DEF Slice
<1>9. x \in lo..hi /\ y \in lo..hi
  BY <1>2, <1>6, NumberOfSample
<1>10. AreaTill(E)[u] \in Int /\ u \in Nat /\ t \in Nat
  BY <1>2, <1>3, <1>6, AreaIsRecursive
<1> HIDE DEF u, x, y
<1>11. t - u \in Nat
  BY <1>6, <1>10
<1>12. 2 * lo * (t - u) <= (x + y) * (t - u) /\ (x + y) * (t - u) <= 2 * hi * (t - u)
  BY <1>9, <1>11, TrapezoidInRange
<1>13. \A c \in Int : 2 * c * (t - First(E)) = 2 * c * (u - First(E)) + 2 * c * (t - u)
  BY <1>4, <1>10
<1>14. (x + y) * (t - u) \in Int
  BY <1>9, <1>10
<1> QED
  BY <1>2, <1>4, <1>7, <1>8, <1>10, <1>12, <1>13, <1>14

LEMMA QuotientInRange ==
    ASSUME NEW a \in Int, NEW b \in Nat \ {0}, NEW lo \in Int, NEW hi \in Int,
           lo * b <= a, a <= hi * b
    PROVE  a \div b \in lo..hi
<1> DEFINE q == a \div b
<1>1. q \in Int /\ q * b <= a /\ a < (q + 1) * b
  BY SMTT(30)
<1> HIDE DEF q
<1>2. lo * b < (q + 1) * b /\ q * b <= hi * b
  BY <1>1
<1>3. \A p, r \in Int : p * b < r * b => p < r
  OBVIOUS
<1>4. \A p, r \in Int : p * b <= r * b => p <= r
  OBVIOUS
<1> QED
  BY <1>1, <1>2, <1>3, <1>4 DEF q

\* The average of samples at two times or more is between their bounds.
LEMMA AverageWithin ==
    ASSUME NEW E, NEW n, Averageable(E, n), NEW lo \in Int, NEW hi \in Int,
           \A e \in E : e.val \in lo..hi,
           NEW t \in Times(E), NEW u \in Times(E), t # u
    PROVE  Average(E) \in lo..hi
<1>1. Last(E) \in Nat /\ First(E) \in Nat /\ First(E) < Last(E)
  <2>1. /\ First(E) \in Times(E) /\ First(E) <= t /\ First(E) <= u
        /\ Last(E) \in Times(E) /\ t <= Last(E) /\ u <= Last(E)
    BY TimesOfSamples
  <2>2. \A w \in Times(E) : w \in Nat
    BY DEF Averageable
  <2> QED
    BY <2>1, <2>2
<1> DEFINE a == AreaTill(E)[Last(E)]
           b == 2 * (Last(E) - First(E))
<1>2. a \in Int
  BY TimesOfSamples, AreaIsRecursive
<1>3. b \in Nat \ {0}
  BY <1>1
<1>4. /\ 2 * lo * (Last(E) - First(E)) <= a
      /\ a <= 2 * hi * (Last(E) - First(E))
  BY TimesOfSamples, AreaInRange
<1>5. \A c \in Int : 2 * c * (Last(E) - First(E)) = c * b
  BY <1>1
<1>6. lo * b <= a /\ a <= hi * b
  BY <1>4, <1>5
<1>7. Average(E) = a \div b
  BY DEF Average
<1> HIDE DEF a, b
<1> QED
  BY <1>2, <1>3, <1>6, <1>7, QuotientInRange

\* A message has integers for its numbers.
LEMMA NumbersOfMessage ==
    ASSUME NEW keys, NEW m \in Messages(keys), NEW v \in NumbersIn(m)
    PROVE  m[v].val \in Int
<1>1. v \in keys /\ m[v] \in Content /\ m[v].kind = "number"
  BY DEF Messages, NumbersIn
<1>2. m[v] \in [kind : {"number"}, val : Numbers]
  BY <1>1 DEF Content
<1> QED
  BY <1>2, NumbersAssumption

\* The samples that an average is taken of.
LEMMA SamplesOfAverage ==
    ASSUME IInv, SamplesAreNumbers, NEW v \in Values, InHand(v), Averaged(v)
    PROVE  /\ IsFiniteSet(Samples(v)) /\ Averageable(Samples(v), now)
           /\ \E t, u \in Times(Samples(v)) : t # u
<1> DEFINE new == [at |-> now, val |-> msg[v].val]
<1>1. Samples(v) = events[v] \cup {new}
  BY DEF Samples
<1>2. Times(Samples(v)) = Times(events[v]) \cup {now}
  <2>1. Times(events[v] \cup {new}) = Times(events[v]) \cup {now}
    BY Zenon, OneMoreTime
  <2> QED
    BY Zenon, <1>1, <2>1
<1>3. msg[v].val \in Int /\ new.val = msg[v].val
  BY DEF SamplesAreNumbers, InHand
<1>4. /\ now \in Nat
      /\ Times(events[v]) \subseteq 0..now /\ now \notin Times(events[v])
  BY DEF IInv, Shape, PastTimes
<1>5. events[v] # {} /\ Times(events[v]) # {}
  BY DEF Averaged, Times
<1> HIDE DEF new
<1>6. IsFiniteSet(Samples(v))
  BY <1>1, FS_AddElement DEF SamplesAreNumbers
<1>7. Averageable(Samples(v), now)
  <2>1. \A e \in Samples(v) : e.val \in Int
    BY <1>1, <1>3 DEF SamplesAreNumbers
  <2>2. Times(Samples(v)) \subseteq 0..now
    BY <1>2, <1>4
  <2>3. Samples(v) # {}
    BY <1>1
  <2> QED
    BY <1>4, <2>1, <2>2, <2>3 DEF Averageable
<1> QED
  BY <1>2, <1>4, <1>5, <1>6, <1>7

LEMMA NewNumberInRange ==
    ASSUME IInv, SamplesAreNumbers, NEW v \in Values, InHand(v)
    PROVE  /\ NewNumber(v) \in Int
           /\ LET vals == {e.val : e \in Samples(v)}
              IN  Averaged(v) => NewNumber(v) \in Min(vals)..Max(vals)
<1> DEFINE vals == {e.val : e \in Samples(v)}
<1>1. CASE Averaged(v)
  <2>1. /\ IsFiniteSet(Samples(v)) /\ Averageable(Samples(v), now)
        /\ \E t, u \in Times(Samples(v)) : t # u
    BY <1>1, SamplesOfAverage
  <2>2. IsFiniteSet(vals)
    <3> DEFINE f == [e \in Samples(v) |-> e.val]
    <3>1. f \in Surjection(Samples(v), vals)
      BY DEF Surjection
    <3> HIDE DEF f, vals
    <3> QED
      BY <2>1, <3>1, FS_Surjection
  <2>3. vals # {} /\ vals \subseteq Int
    BY <2>1 DEF Averageable
  <2>4. \A e \in Samples(v) : e.val \in vals
    OBVIOUS
  <2> HIDE DEF vals
  <2>5. PICK a \in Int, b \in Int : vals \subseteq a..b
    BY <2>2, <2>3, FiniteIsBounded
  <2>6. /\ Min(vals) \in vals /\ \A x \in vals : Min(vals) <= x
        /\ Max(vals) \in vals /\ \A x \in vals : x <= Max(vals)
    BY <2>3, <2>5, BoundedMinMax
  <2>7. Min(vals) \in Int /\ Max(vals) \in Int
    BY <2>3, <2>6
  <2>8. \A e \in Samples(v) : e.val \in Min(vals)..Max(vals)
    <3>1. \A x \in vals : x \in Min(vals)..Max(vals)
      BY <2>3, <2>6, <2>7
    <3> QED
      BY Zenon, <2>4, <3>1
  <2>9. Average(Samples(v)) \in Min(vals)..Max(vals)
    BY <2>1, <2>7, <2>8, AverageWithin
  <2> QED
    BY <1>1, <2>7, <2>9 DEF NewNumber, vals
<1>2. CASE ~Averaged(v)
  BY <1>2 DEF NewNumber, SamplesAreNumbers, InHand
<1> QED
  BY <1>1, <1>2

LEMMA NumbersInit == Init => SamplesAreNumbers
BY FS_EmptySet DEF Init, SamplesAreNumbers

\* Whatever leaves the samples alone and gives the message no new values.
LEMMA NumbersStay ==
    ASSUME SamplesAreNumbers, UNCHANGED events,
           phase' = "message" =>
               /\ phase = "message"
               /\ \A w \in NumbersIn(msg') : w \in NumbersIn(msg) /\ msg'[w] = msg[w]
    PROVE  SamplesAreNumbers'
<1>1. phase' = "message" => \A w \in NumbersIn(msg)' : msg'[w].val \in Int
  <2>1. NumbersIn(msg)' = NumbersIn(msg')
    BY DEF NumbersIn
  <2> QED
    BY <2>1 DEF SamplesAreNumbers
<1> QED
  BY <1>1 DEF SamplesAreNumbers

LEMMA HandledNumbers ==
    ASSUME NEW v \in Values, Handle(v)
    PROVE  \A w \in NumbersIn(msg') : w \in NumbersIn(msg) /\ msg'[w] = msg[w]
BY DEF Handle, Without, NumbersIn

LEMMA NumbersReceive ==
    ASSUME IInv, SamplesAreNumbers, NEW s \in Sensors, Receive(s)
    PROVE  SamplesAreNumbers'
<1> DEFINE Handled(m) == Ignore(s, m, now') \/ GiveUp(s, m) \/ Accept(s, m)
<1>0. PICK keys \in SUBSET ValuesIn(s) : \E m \in Messages(keys) : Handled(m)
  BY DEF Receive
<1>1. PICK m \in Messages(keys) : Handled(m)
  BY <1>0
<1>2. phase = "idle" /\ UNCHANGED events
  BY <1>1 DEF Receive, Ignore, GiveUp, Accept, sensorVars
<1>3. phase' # "message" \/ msg' = m
  BY <1>1, <1>2 DEF Ignore, GiveUp, Accept
<1>4. \A w \in NumbersIn(m) : m[w].val \in Int
  BY NumbersOfMessage
<1>5. NumbersIn(msg)' = NumbersIn(msg')
  BY DEF NumbersIn
<1> QED
  BY <1>2, <1>3, <1>4, <1>5 DEF SamplesAreNumbers

\* A message's number becomes a sample, or the number stored replaces them all.
LEMMA NumbersSampled ==
    ASSUME IInv, SamplesAreNumbers, NEW v \in Values,
           Sample(v) \/ KeepSample(v) \/ StoreNumber(v)
    PROVE  SamplesAreNumbers'
<1>1. Handle(v) /\ phase = "message" /\ phase' = phase /\ InHand(v)
  BY DEF Sample, KeepSample, StoreNumber, Look, Handle, InHand, NumbersIn
<1>2. \A w \in NumbersIn(msg)' : msg'[w].val \in Int
  <2>1. NumbersIn(msg)' = NumbersIn(msg')
    BY DEF NumbersIn
  <2> QED
    BY <1>1, <2>1, HandledNumbers DEF SamplesAreNumbers
<1>3. PICK E : /\ \A w \in Values : events'[w] = IF w = v THEN E ELSE events[w]
               /\ IsFiniteSet(E) /\ \A e \in E : e.val \in Int
  <2> DEFINE new == [at |-> now, val |-> msg[v].val]
  <2>1. new.val \in Int
    BY <1>1 DEF SamplesAreNumbers, InHand
  <2>2. DOMAIN events = Values
    BY DEF IInv, Shape
  <2>3. CASE Sample(v)
    <3>1. events' = [events EXCEPT ![v] = @ \cup {new}]
      BY <2>3 DEF Sample
    <3> HIDE DEF new
    <3>2. IsFiniteSet(events[v] \cup {new})
      BY FS_AddElement DEF SamplesAreNumbers
    <3>3. \A e \in events[v] \cup {new} : e.val \in Int
      BY <2>1 DEF SamplesAreNumbers
    <3> QED
      BY <2>2, <3>1, <3>2, <3>3
  <2>4. CASE KeepSample(v)
    <3>1. events' = [events EXCEPT ![v] = Samples(v)]
      BY <2>4 DEF KeepSample
    <3>2. IsFiniteSet(Samples(v)) /\ \A e \in Samples(v) : e.val \in Int
      <4>1. CASE Averaged(v)
        BY <1>1, <4>1, SamplesOfAverage DEF Averageable
      <4>2. CASE ~Averaged(v)
        BY <4>2 DEF Samples, SamplesAreNumbers
      <4> QED
        BY <4>1, <4>2
    <3> QED
      BY <2>2, <3>1, <3>2
  <2>5. CASE StoreNumber(v)
    <3> DEFINE stored == [at |-> now, val |-> NewNumber(v)]
    <3>1. events' = [events EXCEPT ![v] = {stored}]
      BY <2>5 DEF StoreNumber
    <3>2. stored.val \in Int
      BY <1>1, NewNumberInRange
    <3> HIDE DEF stored
    <3>3. IsFiniteSet({stored})
      BY FS_Singleton
    <3> QED
      BY <2>2, <3>1, <3>2, <3>3
  <2> QED
    BY <2>3, <2>4, <2>5
<1> QED
  BY <1>2, <1>3 DEF SamplesAreNumbers

LEMMA NumbersStep == IInv /\ SamplesAreNumbers /\ [Next]_vars => SamplesAreNumbers'
<1> SUFFICES ASSUME IInv, SamplesAreNumbers, [Next]_vars PROVE SamplesAreNumbers'
  OBVIOUS
<1>1. ASSUME NEW s \in Sensors, LoadValue(s) PROVE SamplesAreNumbers'
  BY <1>1, NumbersStay DEF LoadValue, sensorVars, messageVars
<1>2. ASSUME NEW s \in Sensors, Receive(s) PROVE SamplesAreNumbers'
  BY <1>2, NumbersReceive
<1>3. CASE Restore
  BY <1>3, NumbersStay DEF Restore, messageVars
<1>4. ASSUME NEW v \in Values, Skip(v) \/ StoreBoolean(v) \/ Unexpected(v)
      PROVE  SamplesAreNumbers'
  <2>1. Handle(v) /\ phase' = phase /\ UNCHANGED events
    BY <1>4 DEF Skip, StoreBoolean, Unexpected, Look, sensorVars
  <2> QED
    BY <2>1, HandledNumbers, NumbersStay
<1>5. ASSUME NEW v \in Values, GiveUpRest(v) PROVE SamplesAreNumbers'
  BY <1>5, NumbersStay DEF GiveUpRest, sensorVars
<1>6. ASSUME NEW v \in Values, Sample(v) \/ KeepSample(v) \/ StoreNumber(v)
      PROVE  SamplesAreNumbers'
  BY <1>6, NumbersSampled
<1>7. CASE FinishMessage
  BY <1>7, NumbersStay DEF FinishMessage, sensorVars
<1>8. CASE Restart
  BY <1>8, FS_EmptySet DEF Restart, SamplesAreNumbers
<1>9. CASE UNCHANGED vars
  BY <1>9, NumbersStay DEF vars, sensorVars, messageVars
<1> QED
  BY <1>1, <1>2, <1>3, <1>4, <1>5, <1>6, <1>7, <1>8, <1>9 DEF Next, HandleValue

\* The average that is stored lies between the least and the greatest of its
\* samples: the weights of the loop at db_sqlite3_daemon.cpp:431 add up to one,
\* whatever the times between the samples.
THEOREM AveragesAreInRange == Spec => AverageInRange
<1> DEFINE Held == \A v \in Values :
                      row'[v] # row[v] /\ Averaged(v) =>
                          LET vals == {e.val : e \in Samples(v)}
                          IN  row'[v].val \in Min(vals)..Max(vals)
<1>1. IInv /\ SamplesAreNumbers /\ [Next]_vars => [Held]_vars
  <2> SUFFICES ASSUME IInv, SamplesAreNumbers, Next, NEW v \in Values,
                      row'[v] # row[v], Averaged(v)
               PROVE  LET vals == {e.val : e \in Samples(v)}
                      IN  row'[v].val \in Min(vals)..Max(vals)
    OBVIOUS
  <2>1. PICK w \in Values : StoreNumber(w)
    BY DEF Next, HandleValue, LoadValue, Receive, Restore, Skip, GiveUpRest,
       Sample, KeepSample, StoreBoolean, Unexpected, FinishMessage, Restart,
       databaseVars
  <2>2. w = v /\ row'[v].val = NewNumber(v)
    BY <2>1 DEF StoreNumber, InsertReal, Refuse, IInv, Shape
  <2>3. InHand(v)
    BY <2>1, <2>2 DEF StoreNumber, Look, Handle, InHand, NumbersIn
  <2> QED
    BY <2>2, <2>3, NewNumberInRange
<1>2. Spec => []SamplesAreNumbers
  BY DbInvariant, NumbersInit, NumbersStep, PTL DEF Spec
<1> QED
  BY <1>1, <1>2, DbInvariant, PTL DEF Spec, AverageInRange

=============================================================================
