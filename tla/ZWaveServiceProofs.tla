------------------------- MODULE ZWaveServiceProofs -------------------------
(***************************************************************************)
(* Proofs about ZWaveService for every configuration, every timing of      *)
(* nodes, reports and messages, and every bound.                           *)
(***************************************************************************)
EXTENDS ZWaveService, TLAPS

LEMMA RefreshFacts ==
    ASSUME NEW v \in Values
    PROVE  /\ Refresh(v) \in Nat
           /\ Limit[v] \in Nat
           /\ Refresh(v) # 0 => Refresh(v) >= Limit[v]
BY ConfigAssumption DEF Refresh

LEMMA SensorOfValue ==
    ASSUME NEW v \in Values
    PROVE  SensorOf(v) \in Sensors /\ v \in ValuesIn(SensorOf(v))
<1>1. PICK s \in Sensors : v \in ValuesIn(s)
  BY SensorAssumption
<1> QED
  BY <1>1 DEF SensorOf

LEMMA InvInit == Init => IInv
<1> SUFFICES ASSUME Init PROVE IInv
  OBVIOUS
<1>1. TypeOK
  <2>1. /\ lastRefresh \in [Values -> 0..now]
        /\ lastPub \in [Values -> {None} \cup 0..now]
        /\ lastForced \in [Values -> {None} \cup 0..now]
    BY DEF Init
  <2>2. /\ now \in 0..MaxTime /\ next \in 0..MaxSleep /\ msgs \in 0..MaxMsgs
        /\ requested \in 0..now /\ passAt \in 0..now /\ healAt \in 0..now
        /\ wakeAt \in Nat
    BY TimeAssumption DEF Init
  <2>3. /\ phase = "home" /\ homeId \in BOOLEAN /\ initialized \in BOOLEAN
        /\ cb \in [sensor : Sensors, keys : SUBSET Labels] \cup {NoMessage}
        /\ informed \subseteq Nodes /\ waiting \subseteq Values
        /\ listed \subseteq Values /\ todo \subseteq listed
        /\ labelled \subseteq Values /\ read \subseteq Status /\ write \subseteq Set
        /\ idMap \subseteq labelled \cap read /\ nameMap \subseteq Sensors
        /\ skipped \subseteq Values /\ asked \subseteq Values /\ written \subseteq Values
    BY DEF Init
  <2> QED
    BY <2>1, <2>2, <2>3 DEF TypeOK
<1>2. SetupPhases /\ PassPhase /\ NotSleptPast /\ ForcedReportPasses
  BY DEF Init, SetupPhases, PassPhase, NotSleptPast, ForcedReportPasses
<1>3. WaitPhases /\ SetterPhases /\ NewsInOrder
  BY DEF Init, WaitPhases, SetterPhases, NewsInOrder, None
<1> QED
  BY <1>1, <1>2, <1>3 DEF IInv

-----------------------------------------------------------------------------
(* Steps that leave the times of values alone keep what is said of them,   *)
(* whatever they do to the rest, as long as it is no pass of the main loop *)
(* and no sleep.                                                           *)

LEMMA NewsKept ==
    ASSUME IInv, UNCHANGED <<refreshVars, now, passAt>>,
           phase' \notin {"pass", "sleep"}
    PROVE  NewsInOrder' /\ PassPhase' /\ ForcedReportPasses' /\ NotSleptPast'
BY DEF IInv, refreshVars, NewsInOrder, PassPhase, ForcedReportPasses,
   NotSleptPast

\* Neither does anything change for a pass or a sleep that goes on.
LEMMA PassKept ==
    ASSUME IInv,
           UNCHANGED <<refreshVars, now, passAt, phase, todo, listed, skipped, next>>
    PROVE  NewsInOrder' /\ PassPhase' /\ ForcedReportPasses' /\ NotSleptPast'
BY DEF IInv, refreshVars, NewsInOrder, PassPhase, ForcedReportPasses,
   NotSleptPast, LastNews

\* Phases say nothing but of these variables.
LEMMA SetupKept ==
    ASSUME IInv, UNCHANGED <<phase, waitVars, todo, setupVars>>
    PROVE  SetupPhases' /\ WaitPhases'
BY DEF IInv, waitVars, setupVars, SetupPhases, WaitPhases

\* Setting values goes on as before if the lists of writable values do.
LEMMA SetterKept ==
    ASSUME IInv, UNCHANGED <<listed, write, nameMap, setVars>>,
           phase' # "setup" \/ UNCHANGED <<phase, todo>>
    PROVE  SetterPhases'
BY DEF IInv, SetterPhases, setVars

-----------------------------------------------------------------------------
(* The main thread until it is initialized.                                *)

LEMMA DriverReadyKeeps ==
    ASSUME IInv, DriverReady
    PROVE  IInv'
<1> USE DEF DriverReady, passVars
<1>1. TypeOK'
  BY DEF IInv, TypeOK, setupVars, refreshVars, setVars
<1>2. SetupPhases' /\ WaitPhases'
  BY DEF IInv, SetupPhases, WaitPhases, setupVars
<1>3. NewsInOrder' /\ PassPhase' /\ ForcedReportPasses' /\ NotSleptPast'
  BY PassKept
<1>4. SetterPhases'
  BY SetterKept DEF setupVars
<1> QED
  BY <1>1, <1>2, <1>3, <1>4 DEF IInv

LEMMA NodeInfoKeeps ==
    ASSUME IInv, NEW n \in Nodes, NodeInfo(n)
    PROVE  IInv'
<1> USE DEF NodeInfo, passVars
<1>1. TypeOK'
  BY DEF IInv, TypeOK, setupVars, refreshVars, setVars
<1>2. SetupPhases' /\ WaitPhases'
  BY DEF IInv, SetupPhases, WaitPhases, setupVars
<1>3. NewsInOrder' /\ PassPhase' /\ ForcedReportPasses' /\ NotSleptPast'
  BY PassKept
<1>4. SetterPhases'
  BY SetterKept DEF setupVars
<1> QED
  BY <1>1, <1>2, <1>3, <1>4 DEF IInv

LEMMA GotHomeIdKeeps ==
    ASSUME IInv, GotHomeId
    PROVE  IInv'
<1> USE DEF GotHomeId, passVars
<1>1. TypeOK'
  BY DEF IInv, TypeOK, setupVars, refreshVars, setVars
<1>2. SetupPhases' /\ WaitPhases'
  BY DEF IInv, SetupPhases, WaitPhases, setupVars
<1>3. NewsInOrder' /\ PassPhase' /\ ForcedReportPasses' /\ NotSleptPast'
  BY NewsKept
<1>4. SetterPhases'
  BY SetterKept DEF setupVars
<1> QED
  BY <1>1, <1>2, <1>3, <1>4 DEF IInv

\* The entries of a node that is given up are all gone, also those that are
\* still to be checked.
LEMMA CheckNodeKeeps ==
    ASSUME IInv, NEW v \in Values, CheckNode(v)
    PROVE  IInv'
<1> USE DEF CheckNode, passVars
<1>1. listed' \subseteq listed /\ (v \in listed' => NodeOf[v] \in informed)
  BY DEF Identified, Removed, OfSameNode
<1>2. phase = "poll" /\ todo = {} /\ idMap = {} /\ nameMap = {}
  BY DEF IInv, SetupPhases
<1>3. TypeOK'
  BY <1>1, <1>2 DEF IInv, TypeOK, setupVars, refreshVars, setVars
<1>4. SetupPhases'
  BY DEF IInv, SetupPhases, setupVars
<1>5. WaitPhases'
  BY <1>1, <1>2 DEF IInv, WaitPhases, setupVars
<1>6. NewsInOrder' /\ PassPhase' /\ ForcedReportPasses' /\ NotSleptPast'
  BY NewsKept
<1>7. SetterPhases'
  BY <1>2 DEF IInv, SetterPhases, setupVars, setVars
<1> QED
  BY <1>3, <1>4, <1>5, <1>6, <1>7 DEF IInv

LEMMA BeginSetupKeeps ==
    ASSUME IInv, BeginSetup
    PROVE  IInv'
<1> USE DEF BeginSetup, passVars
<1>1. TypeOK'
  BY DEF IInv, TypeOK, waitVars, setupVars, refreshVars, setVars
<1>2. SetupPhases' /\ WaitPhases'
  BY DEF IInv, SetupPhases, WaitPhases, waitVars, setupVars
<1>3. NewsInOrder' /\ PassPhase' /\ ForcedReportPasses' /\ NotSleptPast'
  BY NewsKept
<1>4. SetterPhases'
  BY DEF IInv, SetupPhases, SetterPhases, setupVars, setVars
<1> QED
  BY <1>1, <1>2, <1>3, <1>4 DEF IInv

LEMMA SetupKeeps ==
    ASSUME IInv, NEW v \in Values, Setup(v)
    PROVE  IInv'
<1> USE DEF Setup, passVars
<1>1. v \in listed /\ v \notin idMap
  BY DEF IInv, TypeOK, SetupPhases
<1>2. /\ labelled' \subseteq labelled \cup {v} /\ labelled \subseteq labelled'
      /\ read' \subseteq read /\ read \ {v} \subseteq read'
      /\ write' \subseteq write
      /\ idMap' \subseteq idMap \cup ({v} \cap labelled' \cap read')
      /\ nameMap' \subseteq nameMap \cup {SensorOf(v)}
  BY DEF SetupInvalid, SetupValid
<1>3. TypeOK'
  BY <1>1, <1>2, SensorOfValue DEF IInv, TypeOK, waitVars, refreshVars, setVars
<1>4. SetupPhases'
  BY <1>1, <1>2 DEF IInv, SetupPhases
<1>5. WaitPhases'
  BY <1>1, <1>2, SensorOfValue DEF IInv, WaitPhases, waitVars
<1>6. NewsInOrder' /\ PassPhase' /\ ForcedReportPasses' /\ NotSleptPast'
  BY NewsKept
<1>7. SetterPhases'
  <2>1. /\ write \ {v} \subseteq write'
        /\ nameMap' = nameMap \/ (nameMap' = nameMap \cup {SensorOf(v)} /\ v \in write')
        /\ listed' = listed /\ todo' = todo \ {v} /\ v \in todo /\ phase = "setup"
    BY DEF SetupInvalid, SetupValid, waitVars
  <2>2. ASSUME NEW s \in nameMap
        PROVE  write' \cap (listed' \ todo') \cap ValuesIn(s) # {}
    BY <2>1 DEF IInv, SetterPhases
  <2>3. v \in write' => write' \cap (listed' \ todo') \cap ValuesIn(SensorOf(v)) # {}
    BY <1>1, <2>1, SensorOfValue
  <2>4. \A s \in nameMap' : write' \cap (listed' \ todo') \cap ValuesIn(s) # {}
    BY <2>1, <2>2, <2>3
  <2>5. nameMap \subseteq nameMap'
    BY <2>1
  <2> QED
    BY <2>4, <2>5 DEF IInv, SetterPhases, setVars
<1> QED
  BY <1>3, <1>4, <1>5, <1>6, <1>7 DEF IInv

-----------------------------------------------------------------------------
(* The main loop.                                                          *)

LEMMA StartPassKeeps ==
    ASSUME IInv, StartPass, initialized' \in BOOLEAN,
           (phase = "setup" /\ todo = {}) \/ phase = "sleep"
    PROVE  IInv'
<1> USE DEF StartPass
<1>1. TypeOK'
  BY TimeAssumption DEF IInv, TypeOK, waitVars, refreshVars, setVars
<1>2. SetupPhases' /\ WaitPhases'
  BY DEF IInv, SetupPhases, WaitPhases, waitVars
<1>3. NewsInOrder'
  <2>1. passAt' \in Int /\ passAt \in Int /\ passAt' >= passAt
    BY DEF IInv, TypeOK
  <2>2. \A v \in Values : lastForced[v] \in Int
    BY DEF IInv, TypeOK, None
  <2> QED
    BY <2>1, <2>2 DEF IInv, NewsInOrder, refreshVars
<1>4. PassPhase' /\ NotSleptPast'
  BY DEF PassPhase, NotSleptPast, waitVars, Refresh
<1>5. ForcedReportPasses'
  BY DEF IInv, ForcedReportPasses, refreshVars
<1>6. SetterPhases'
  BY SetterKept DEF waitVars
<1> QED
  BY <1>1, <1>2, <1>3, <1>4, <1>5, <1>6 DEF IInv

LEMMA ExamineFacts ==
    ASSUME IInv, NEW v \in Values, Examine(v)
    PROVE  /\ phase = "pass" /\ v \in todo /\ v \in listed
           /\ Refresh(v) # 0 /\ Refresh(v) \in Nat /\ Limit[v] \in Nat
           /\ Refresh(v) >= Limit[v]
           /\ lastRefresh[v] \in 0..now /\ passAt \in 0..now /\ now \in Nat
           /\ next \in 0..MaxSleep
           /\ lastForced[v] \in Int /\ lastForced[v] <= passAt
BY RefreshFacts DEF Examine, IInv, TypeOK, PassPhase, NewsInOrder, None

\* A step of the examination keeps the invariant if it asks only for a value
\* whose limit has passed and does not let the loop sleep past its time.
LEMMA ExamineKeeps ==
    ASSUME IInv, NEW v \in Values, Examine(v),
           next' \in 0..MaxSleep, next' <= next,
           skipped' \in {skipped, skipped \cup {v}},
           \/ UNCHANGED <<lastForced, asked>>
           \/ /\ lastForced' = [lastForced EXCEPT ![v] = passAt]
              /\ asked' = asked \cup {v}
              /\ Age(v) > Refresh(v),
           v \in skipped' \/ passAt + next' <= LastNews(v)' + Refresh(v)
    PROVE  IInv'
<1> USE DEF Examine
<1>1. \A w \in Values : /\ lastForced'[w] \in Int /\ lastForced[w] \in Int
                        /\ lastForced'[w] >= lastForced[w]
                        /\ lastForced'[w] <= passAt
                        /\ w # v => lastForced'[w] = lastForced[w]
  BY ExamineFacts DEF IInv, TypeOK, NewsInOrder, None
<1>2. TypeOK'
  <2>1. lastForced' \in [Values -> {None} \cup 0..now]
    BY ExamineFacts DEF IInv, TypeOK
  <2> QED
    BY <2>1 DEF IInv, TypeOK, waitVars, setupVars, setVars
<1>3. SetupPhases' /\ WaitPhases'
  BY DEF IInv, SetupPhases, WaitPhases, waitVars, setupVars
<1>4. NewsInOrder'
  <2>1. \A w \in Values \ asked' : lastForced'[w] = lastForced[w]
    BY <1>1
  <2> QED
    BY <1>1, <2>1 DEF IInv, NewsInOrder
<1>5. PassPhase'
  <2>1. \A w \in todo' : Refresh(w) # 0
    BY DEF IInv, PassPhase
  <2>2. ASSUME NEW w \in listed \ (skipped' \cup todo'), Refresh(w) # 0, w # v
        PROVE  passAt + next' <= LastNews(w)' + Refresh(w)
    <3>1. w \in Values /\ w \in listed \ (skipped \cup todo)
      BY <2>2 DEF IInv, TypeOK
    <3>2. passAt + next <= LastNews(w) + Refresh(w)
      BY <2>2, <3>1 DEF IInv, PassPhase
    <3>3. LastNews(w)' = LastNews(w) /\ LastNews(w) \in Int
      BY <1>1, <3>1, <2>2 DEF LastNews, IInv, TypeOK
    <3> QED
      BY <3>1, <3>2, <3>3, ExamineFacts, RefreshFacts
  <2> QED
    BY <2>1, <2>2 DEF PassPhase, Refresh, LastNews, waitVars
<1>6. NotSleptPast'
  BY DEF NotSleptPast
<1>7. ForcedReportPasses'
  BY ExamineFacts DEF IInv, ForcedReportPasses, Age
<1>8. SetterPhases'
  BY SetterKept DEF waitVars, setupVars
<1> QED
  BY <1>2, <1>3, <1>4, <1>5, <1>6, <1>7, <1>8 DEF IInv

LEMMA NodeFailedKeeps ==
    ASSUME IInv, NEW v \in Values, NodeFailed(v)
    PROVE  IInv'
<1>1. Examine(v) /\ skipped' = skipped \cup {v} /\ UNCHANGED <<next, lastForced, asked>>
  BY DEF NodeFailed
<1>2. next' \in 0..MaxSleep /\ next' <= next
  BY <1>1, ExamineFacts DEF IInv, TypeOK
<1> QED
  BY <1>1, <1>2, ExamineKeeps

LEMMA ForceRefreshKeeps ==
    ASSUME IInv, NEW v \in Values, ForceRefresh(v)
    PROVE  IInv'
<1>1. /\ Examine(v) /\ Age(v) > Refresh(v)
      /\ lastForced' = [lastForced EXCEPT ![v] = passAt]
      /\ asked' = asked \cup {v}
      /\ next' = Sooner(Refresh(v))
      /\ skipped' = skipped
  BY DEF ForceRefresh
<1>2. next' \in 0..MaxSleep /\ next' <= next /\ next' <= Refresh(v)
  BY <1>1, ExamineFacts, TimeAssumption DEF Sooner
<1>3. lastForced'[v] = passAt /\ lastRefresh'[v] = lastRefresh[v]
  BY <1>1 DEF Examine, IInv, TypeOK
<1>4. LastNews(v)' = passAt
  BY <1>1, <1>3, ExamineFacts DEF LastNews, Age
<1>5. passAt + next' <= LastNews(v)' + Refresh(v)
  BY <1>1, <1>2, <1>4, ExamineFacts
<1> QED
  BY <1>1, <1>2, <1>5, ExamineKeeps

LEMMA NotYetDueKeeps ==
    ASSUME IInv, NEW v \in Values, NotYetDue(v)
    PROVE  IInv'
<1>1. /\ Examine(v) /\ Age(v) <= Refresh(v)
      /\ next' = Sooner(Refresh(v) - Age(v))
      /\ UNCHANGED <<skipped, lastForced, asked>>
  BY DEF NotYetDue
<1>2. next' \in 0..MaxSleep /\ next' <= next /\ next' <= Refresh(v) - Age(v)
  BY <1>1, ExamineFacts, TimeAssumption DEF Sooner, Age
<1>3. LastNews(v)' = LastNews(v) /\ LastNews(v) >= lastRefresh[v] /\ LastNews(v) \in Int
  BY <1>1, ExamineFacts DEF LastNews, Examine
<1>4. passAt + next' <= LastNews(v)' + Refresh(v)
  BY <1>1, <1>2, <1>3, ExamineFacts DEF Age
<1> QED
  BY <1>1, <1>2, <1>4, ExamineKeeps

LEMMA EndPassKeeps ==
    ASSUME IInv, EndPass
    PROVE  IInv'
<1> USE DEF EndPass
<1>1. TypeOK'
  BY TimeAssumption DEF IInv, TypeOK, waitVars, setupVars, refreshVars, setVars
<1>2. SetupPhases' /\ WaitPhases'
  BY DEF IInv, SetupPhases, WaitPhases, waitVars, setupVars
<1>3. NewsInOrder' /\ PassPhase' /\ ForcedReportPasses'
  BY DEF IInv, NewsInOrder, PassPhase, ForcedReportPasses, refreshVars
<1>4. NotSleptPast'
  <2>1. ASSUME NEW v \in listed \ skipped, Refresh(v) # 0
        PROVE  /\ LastNews(v)' = LastNews(v)
               /\ passAt <= LastNews(v) + Refresh(v)
               /\ next' > MinSleep => passAt + next' <= LastNews(v) + Refresh(v)
    <3>1. v \in Values /\ passAt + next <= LastNews(v) + Refresh(v)
      BY <2>1 DEF IInv, TypeOK, PassPhase
    <3>2. LastNews(v)' = LastNews(v) /\ LastNews(v) \in Int
      BY <3>1 DEF LastNews, refreshVars, IInv, TypeOK, None
    <3>3. passAt \in Nat /\ next \in Nat /\ Refresh(v) \in Nat
      BY <3>1, RefreshFacts DEF IInv, TypeOK
    <3>4. next' > MinSleep => next' = next
      BY <3>3, TimeAssumption
    <3> QED
      BY <3>1, <3>2, <3>3, <3>4
  <2> QED
    BY <2>1 DEF NotSleptPast, waitVars, Refresh
<1>5. SetterPhases'
  BY SetterKept DEF waitVars, setupVars
<1> QED
  BY <1>1, <1>2, <1>3, <1>4, <1>5 DEF IInv

-----------------------------------------------------------------------------
(* The other threads and the destructor.                                   *)

LEMMA NotificationKeeps ==
    ASSUME IInv, NEW v \in Values, on_notification(v)
    PROVE  IInv'
<1> USE DEF on_notification, Notify
<1>1. lastRefresh' \in [Values -> 0..now] /\ lastPub' \in [Values -> {None} \cup 0..now]
  BY DEF IInv, TypeOK
<1>2. TypeOK'
  BY <1>1 DEF IInv, TypeOK, waitVars, setupVars, passVars, setVars
<1>3. SetupPhases' /\ WaitPhases'
  BY SetupKept
<1>4. \A w \in Values : /\ lastRefresh'[w] \in Int /\ lastRefresh[w] \in Int
                        /\ lastRefresh'[w] >= lastRefresh[w]
                        /\ lastForced[w] \in Int /\ lastPub[w] \in Int
                        /\ w # v => /\ lastRefresh'[w] = lastRefresh[w]
                                    /\ lastPub'[w] = lastPub[w]
  BY DEF IInv, TypeOK, None
<1>5. /\ lastRefresh'[v] = now
      /\ lastPub'[v] \in {lastPub[v], now}
      /\ passAt \in Int /\ now \in Int /\ passAt <= now
  BY DEF IInv, TypeOK
<1>6. NewsInOrder'
  <2>1. lastPub'[v] <= lastRefresh'[v]
    BY <1>4, <1>5 DEF IInv, NewsInOrder
  <2>2. lastForced[v] <= lastRefresh'[v]
    BY <1>4, <1>5 DEF IInv, NewsInOrder
  <2> QED
    BY <1>4, <2>1, <2>2 DEF IInv, NewsInOrder, passVars
<1>7. \A w \in Values : /\ LastNews(w)' \in Int /\ LastNews(w) \in Int
                        /\ LastNews(w)' >= LastNews(w)
  BY <1>4 DEF LastNews
<1>8. PassPhase'
  <2>1. ASSUME phase = "pass", NEW w \in listed \ (skipped \cup todo), Refresh(w) # 0
        PROVE  passAt + next <= LastNews(w)' + Refresh(w)
    BY <1>5, <1>7, <2>1, RefreshFacts DEF IInv, TypeOK, PassPhase
  <2> QED
    BY <2>1 DEF IInv, PassPhase, waitVars, passVars, Refresh
<1>9. NotSleptPast'
  <2>1. ASSUME phase = "sleep", NEW w \in listed \ skipped, Refresh(w) # 0
        PROVE  /\ passAt <= LastNews(w)' + Refresh(w)
               /\ next > MinSleep => passAt + next <= LastNews(w)' + Refresh(w)
    BY <1>5, <1>7, <2>1, RefreshFacts DEF IInv, TypeOK, NotSleptPast
  <2> QED
    BY <2>1 DEF NotSleptPast, waitVars, passVars, Refresh
<1>10. ForcedReportPasses'
  BY <1>4 DEF IInv, TypeOK, ForcedReportPasses
<1>11. SetterPhases'
  BY SetterKept DEF waitVars, setupVars
<1> QED
  BY <1>2, <1>3, <1>6, <1>8, <1>9, <1>10, <1>11 DEF IInv

LEMMA CallBackSensor ==
    ASSUME IInv,
           \/ \E s \in Sensors : CallBack(s)
           \/ \E l \in Labels : SetValue(l)
           \/ CallBackDone
    PROVE  cb' # NoMessage => cb'.sensor \in nameMap
<1>1. ASSUME NEW s \in Sensors, CallBack(s)
      PROVE  cb'.sensor \in nameMap
  BY <1>1 DEF CallBack
<1>2. ASSUME NEW l \in Labels, SetValue(l)
      PROVE  cb'.sensor \in nameMap
  <2>1. cb \in [sensor : Sensors, keys : SUBSET Labels] /\ cb.sensor \in nameMap
    BY <1>2 DEF SetValue, IInv, TypeOK, SetterPhases
  <2>2. cb'.sensor = cb.sensor
    BY <1>2, <2>1 DEF SetValue
  <2> QED
    BY <2>1, <2>2
<1>3. CASE CallBackDone
  BY <1>3 DEF CallBackDone
<1> QED
  BY <1>1, <1>2, <1>3

LEMMA WrittenSensor ==
    ASSUME IInv,
           \/ \E s \in Sensors : CallBack(s)
           \/ \E l \in Labels : SetValue(l)
           \/ CallBackDone
    PROVE  \A s \in Sensors : written' \cap ValuesIn(s) # {} => s \in nameMap
<1>1. \A s \in Sensors : written \cap ValuesIn(s) # {} => s \in nameMap
  BY DEF IInv, SetterPhases
<1>2. ASSUME NEW l \in Labels, SetValue(l), NEW s \in Sensors,
             written' \cap ValuesIn(s) # {}
      PROVE  s \in nameMap
  <2>1. cb.sensor \in Sensors /\ cb.sensor \in nameMap
    BY <1>2 DEF SetValue, IInv, TypeOK, SetterPhases
  <2>2. CASE written' = written
    BY <1>1, <1>2, <2>2
  <2>3. ASSUME NEW i \in Matching(cb.sensor, l),
               written' = written \cup {ValuesOf[cb.sensor][i]}
        PROVE  s \in nameMap
    <3>1. i \in 1..Len(ValuesOf[cb.sensor]) /\ ValuesOf[cb.sensor] \in Seq(Values)
      BY <2>1, ConfigAssumption DEF Matching
    <3>2. /\ ValuesOf[cb.sensor][i] \in Values
          /\ ValuesOf[cb.sensor][i] \in ValuesIn(cb.sensor)
      BY <3>1 DEF ValuesIn
    <3>3. ValuesOf[cb.sensor][i] \in ValuesIn(s) => s = cb.sensor
      BY <2>1, <3>2, SensorAssumption
    <3> QED
      BY <1>1, <1>2, <2>1, <2>3, <3>3
  <2> QED
    BY <1>2, <2>2, <2>3 DEF SetValue
<1>3. CASE (\E s \in Sensors : CallBack(s)) \/ CallBackDone
  BY <1>1, <1>3 DEF CallBack, CallBackDone
<1> QED
  BY <1>2, <1>3

\* The mosquitto thread changes nothing that the main thread relies on.
LEMMA MessageKeeps ==
    ASSUME IInv,
           \/ \E s \in Sensors : CallBack(s)
           \/ \E l \in Labels : SetValue(l)
           \/ CallBackDone
    PROVE  IInv'
<1>1. UNCHANGED <<phase, waitVars, todo, setupVars, passVars, refreshVars, now>>
  BY DEF CallBack, SetValue, CallBackDone
<1>2. /\ cb' \in [sensor : Sensors, keys : SUBSET Labels] \cup {NoMessage}
      /\ written' \subseteq Values /\ msgs' \in 0..MaxMsgs
  <2>1. CASE \E s \in Sensors : CallBack(s)
    BY <2>1, TimeAssumption DEF CallBack, IInv, TypeOK
  <2>2. ASSUME NEW l \in Labels, SetValue(l)
        PROVE  /\ cb' \in [sensor : Sensors, keys : SUBSET Labels] \cup {NoMessage}
               /\ written' \subseteq Values /\ msgs' \in 0..MaxMsgs
    <3>1. cb' \in [sensor : Sensors, keys : SUBSET Labels] /\ cb.sensor \in Sensors
      BY <2>2 DEF SetValue, IInv, TypeOK
    <3>2. Matching(cb.sensor, l) \subseteq 1..Len(ValuesOf[cb.sensor])
      BY DEF Matching
    <3>3. ValuesOf[cb.sensor] \in Seq(Values)
      BY <3>1, ConfigAssumption
    <3>4. ASSUME NEW i \in Matching(cb.sensor, l)
          PROVE  ValuesOf[cb.sensor][i] \in Values
      BY <3>2, <3>3
    <3>5. written' \subseteq Values
      BY <2>2, <3>4 DEF SetValue, IInv, TypeOK
    <3> QED
      BY <2>2, <3>1, <3>5 DEF SetValue, IInv, TypeOK
  <2>3. CASE CallBackDone
    BY <2>3 DEF CallBackDone, IInv, TypeOK
  <2> QED
    BY <2>1, <2>2, <2>3
<1>3. TypeOK'
  BY <1>1, <1>2 DEF IInv, TypeOK, waitVars, setupVars, passVars, refreshVars
<1>4. SetupPhases' /\ WaitPhases'
  BY <1>1, SetupKept
<1>5. NewsInOrder' /\ PassPhase' /\ ForcedReportPasses' /\ NotSleptPast'
  BY <1>1, PassKept DEF waitVars, passVars
<1>6. SetterPhases'
  <2>1. /\ \A s \in nameMap : write \cap listed \cap ValuesIn(s) # {}
        /\ phase = "setup" =>
              \A s \in nameMap : write \cap (listed \ todo) \cap ValuesIn(s) # {}
    BY DEF IInv, SetterPhases
  <2>2. cb' # NoMessage => cb'.sensor \in nameMap
    BY CallBackSensor
  <2>3. \A s \in Sensors : written' \cap ValuesIn(s) # {} => s \in nameMap
    BY WrittenSensor
  <2> QED
    BY <1>1, <2>1, <2>2, <2>3 DEF SetterPhases, waitVars, setupVars
<1> QED
  BY <1>3, <1>4, <1>5, <1>6 DEF IInv

LEMMA StopKeeps ==
    ASSUME IInv, Terminate \/ Destroy \/ Disconnect
    PROVE  IInv'
<1> USE DEF Terminate, Destroy, Disconnect, StopPhase
<1>1. phase' \in {"stopping", "destroyed", "gone"} /\ cb' \in {cb, NoMessage}
  OBVIOUS
<1>2. UNCHANGED <<waitVars, todo, setupVars, passVars, refreshVars, written, msgs, now>>
  OBVIOUS
<1>3. TypeOK'
  BY <1>1, <1>2 DEF IInv, TypeOK, waitVars, setupVars, passVars, refreshVars
<1>4. SetupPhases' /\ WaitPhases'
  BY <1>1, <1>2 DEF IInv, SetupPhases, WaitPhases, waitVars, setupVars
<1>5. NewsInOrder' /\ PassPhase' /\ ForcedReportPasses' /\ NotSleptPast'
  BY <1>1, <1>2, NewsKept DEF passVars
<1>6. SetterPhases'
  BY <1>1, <1>2 DEF IInv, SetterPhases, waitVars, setupVars
<1> QED
  BY <1>3, <1>4, <1>5, <1>6 DEF IInv

LEMMA TickKeeps ==
    ASSUME IInv, Tick
    PROVE  IInv'
<1> USE DEF Tick
<1>1. now \in Nat /\ now' \in 0..MaxTime /\ now' = now + 1
  BY TimeAssumption DEF IInv, TypeOK
<1>2. 0..now \subseteq 0..now'
  BY <1>1
<1>3. TypeOK'
  <2>1. lastRefresh \in [Values -> 0..now']
    BY <1>2 DEF IInv, TypeOK
  <2>2. lastPub \in [Values -> {None} \cup 0..now']
    BY <1>2 DEF IInv, TypeOK
  <2>3. lastForced \in [Values -> {None} \cup 0..now']
    BY <1>2 DEF IInv, TypeOK
  <2> QED
    BY <1>1, <1>2, <2>1, <2>2, <2>3
       DEF IInv, TypeOK, waitVars, setupVars, passVars, refreshVars, setVars
<1>4. SetupPhases' /\ WaitPhases'
  BY SetupKept
<1>5. NewsInOrder' /\ PassPhase' /\ NotSleptPast'
  BY DEF IInv, NewsInOrder, PassPhase, NotSleptPast, LastNews, Refresh,
     waitVars, passVars, refreshVars
<1>6. ForcedReportPasses'
  <2>1. ASSUME NEW v \in asked
        PROVE  now' - lastRefresh[v] >= Limit[v]
    BY <1>1, ConfigAssumption DEF IInv, TypeOK, ForcedReportPasses
  <2> QED
    BY <2>1 DEF ForcedReportPasses, refreshVars
<1>7. SetterPhases'
  BY SetterKept DEF waitVars, setupVars
<1> QED
  BY <1>3, <1>4, <1>5, <1>6, <1>7 DEF IInv

-----------------------------------------------------------------------------

LEMMA InvStep == IInv /\ [Next]_vars => IInv'
<1> SUFFICES ASSUME IInv, [Next]_vars PROVE IInv'
  OBVIOUS
<1>1. CASE MainThread
  <2>1. CASE GotHomeId
    BY <2>1, GotHomeIdKeeps
  <2>2. CASE BeginSetup
    BY <2>2, BeginSetupKeeps
  <2>3. CASE Initialized
    BY <2>3, StartPassKeeps DEF Initialized
  <2>4. CASE EndPass
    BY <2>4, EndPassKeeps
  <2>5. CASE Wake
    <3>1. initialized' \in BOOLEAN
      BY <2>5 DEF Wake, IInv, TypeOK
    <3> QED
      BY <2>5, <3>1, StartPassKeeps DEF Wake
  <2>6. ASSUME NEW v \in Values,
               \/ CheckNode(v) \/ Setup(v)
               \/ NodeFailed(v) \/ ForceRefresh(v) \/ NotYetDue(v)
        PROVE  IInv'
    BY <2>6, CheckNodeKeeps, SetupKeeps, NodeFailedKeeps, ForceRefreshKeeps,
       NotYetDueKeeps
  <2> QED
    BY <1>1, <2>1, <2>2, <2>3, <2>4, <2>5, <2>6 DEF MainThread
<1>2. CASE DriverReady
  BY <1>2, DriverReadyKeeps
<1>3. CASE \E n \in Nodes : NodeInfo(n)
  BY <1>3, NodeInfoKeeps
<1>4. CASE \E v \in Values : on_notification(v)
  BY <1>4, NotificationKeeps
<1>5. CASE \/ \E s \in Sensors : CallBack(s)
           \/ \E l \in Labels : SetValue(l)
           \/ CallBackDone
  BY <1>5, MessageKeeps
<1>6. CASE Terminate \/ Destroy \/ Disconnect
  BY <1>6, StopKeeps
<1>7. CASE Tick
  BY <1>7, TickKeeps
<1>8. CASE UNCHANGED vars
  <2>1. TypeOK'
    BY <1>8 DEF vars, IInv, TypeOK, waitVars, setupVars, passVars, refreshVars,
       setVars
  <2>2. SetupPhases' /\ WaitPhases'
    BY <1>8, SetupKept DEF vars
  <2>3. NewsInOrder' /\ PassPhase' /\ ForcedReportPasses' /\ NotSleptPast'
    BY <1>8, PassKept DEF vars, waitVars, passVars
  <2>4. SetterPhases'
    BY <1>8, SetterKept DEF vars, waitVars, setupVars
  <2> QED
    BY <2>1, <2>2, <2>3, <2>4 DEF IInv
<1> QED
  BY <1>1, <1>2, <1>3, <1>4, <1>5, <1>6, <1>7, <1>8 DEF Next

\* The inductive invariant holds of every run of the daemon.
THEOREM ZWaveInvariant == Spec => []IInv
  BY InvInit, InvStep, PTL DEF Spec

\* Maps, lists and times keep their types through every order of answers,
\* notifications and messages, also when nodes are removed meanwhile.
THEOREM ZWaveTypeCorrect == Spec => []TypeOK
<1>1. IInv => TypeOK
  BY DEF IInv
<1> QED
  BY <1>1, ZWaveInvariant, PTL

\* After "cleanup values for nodes without Nodeinfo" (mq_zwave_daemon.cpp:293)
\* the maps hold values of nodes that answered and no others, however the
\* answers come in between the checks.
THEOREM NodesKnown == Spec => []OnlyKnownNodes
<1>1. IInv => OnlyKnownNodes
  BY DEF IInv, WaitPhases, SetterPhases, OnlyKnownNodes
<1> QED
  BY <1>1, ZWaveInvariant, PTL

\* A message sets values of a sensor only if one of its values may be written
\* (mq_zwave_daemon.cpp:334), by the configuration and by the network.
THEOREM SetterIsAsked == Spec => []OnlyWritableSensorsSet
<1>1. IInv => OnlyWritableSensorsSet
  BY DEF IInv, SetterPhases, OnlyWritableSensorsSet
<1> QED
  BY <1>1, ZWaveInvariant, PTL

\* A value that was asked for may be reported: refresh_limit
\* (mq_zwave_daemon.cpp:444) never holds back the answer to a request (:358).
THEOREM ForcedReportsPass == Spec => []ForcedReportPasses
<1>1. IInv => ForcedReportPasses
  BY DEF IInv
<1> QED
  BY <1>1, ZWaveInvariant, PTL

\* The main loop (mq_zwave_daemon.cpp:346) wakes up in time for the first value
\* that has to be asked for, or after its shortest sleep.
THEOREM SleepIsShort == Spec => []NotSleptPast
<1>1. IInv => NotSleptPast
  BY DEF IInv
<1> QED
  BY <1>1, ZWaveInvariant, PTL

-----------------------------------------------------------------------------
(* Action properties.                                                      *)

LEMMA ReportIsNotification ==
    ASSUME IInv, Next, NEW v \in Values,
           lastRefresh'[v] # lastRefresh[v] \/ lastPub'[v] # lastPub[v]
    PROVE  on_notification(v)
<1>1. PICK w \in Values : on_notification(w)
  BY DEF Next, MainThread, DriverReady, NodeInfo, CallBack, SetValue,
     CallBackDone, Terminate, Destroy, Disconnect, StopPhase, Tick, GotHomeId,
     BeginSetup, Initialized, StartPass, EndPass, Wake, CheckNode, Setup,
     NodeFailed, ForceRefresh, NotYetDue, Examine, refreshVars
<1>2. w = v
  BY <1>1 DEF on_notification, Notify, IInv, TypeOK
<1> QED
  BY <1>1, <1>2

\* The thread of OpenZWave reads the maps (mq_zwave_daemon.cpp:434) only when
\* the main thread has built them.
THEOREM ReportedOnlyWhenReady == Spec => ReportedWhenReady
<1> DEFINE Ready == \A v \in Values :
                       lastRefresh'[v] # lastRefresh[v] => phase \in {"pass", "sleep"}
<1>1. IInv /\ [Next]_vars => [Ready]_vars
  <2> SUFFICES ASSUME IInv, Next, NEW v \in Values,
                      lastRefresh'[v] # lastRefresh[v]
               PROVE  phase \in {"pass", "sleep"}
    OBVIOUS
  <2>1. on_notification(v)
    BY ReportIsNotification
  <2> QED
    BY <2>1 DEF on_notification, Notify, IInv, TypeOK, SetupPhases
<1> QED
  BY <1>1, ZWaveInvariant, PTL DEF Spec, ReportedWhenReady

\* Reports of a value are refresh_limit apart (mq_zwave_daemon.cpp:444).
THEOREM ReportsAreApart == Spec => ReportsApart
<1> DEFINE Apart == \A v \in Values :
                       lastPub'[v] # lastPub[v] /\ lastPub[v] # None =>
                           lastPub'[v] - lastPub[v] >= Limit[v]
<1>1. IInv /\ [Next]_vars => [Apart]_vars
  <2> SUFFICES ASSUME IInv, Next, NEW v \in Values, lastPub'[v] # lastPub[v]
               PROVE  lastPub'[v] - lastPub[v] >= Limit[v]
    OBVIOUS
  <2>1. on_notification(v)
    BY ReportIsNotification
  <2>2. lastPub'[v] = now /\ now - lastRefresh[v] >= Limit[v]
    BY <2>1 DEF on_notification, Notify, IInv, TypeOK
  <2>3. /\ lastPub[v] \in Int /\ lastRefresh[v] \in Int /\ now \in Int
        /\ Limit[v] \in Nat /\ lastPub[v] <= lastRefresh[v]
    BY ConfigAssumption DEF IInv, TypeOK, NewsInOrder, None
  <2> QED
    BY <2>2, <2>3
<1> QED
  BY <1>1, ZWaveInvariant, PTL DEF Spec, ReportsApart

\* A value that answers is asked for (mq_zwave_daemon.cpp:358) at most once in
\* the time configured as refresh.
THEOREM AnsweredRequestsAreApart == Spec => AnsweredRequestsApart
<1> DEFINE Apart == \A v \in Values \ asked :
                       lastForced'[v] # lastForced[v] /\ lastForced[v] # None =>
                           lastForced'[v] - lastForced[v] > Refresh(v)
<1>1. IInv /\ [Next]_vars => [Apart]_vars
  <2> SUFFICES ASSUME IInv, Next, NEW v \in Values \ asked,
                      lastForced'[v] # lastForced[v]
               PROVE  lastForced'[v] - lastForced[v] > Refresh(v)
    OBVIOUS
  <2>1. PICK w \in Values : ForceRefresh(w)
    BY DEF Next, MainThread, DriverReady, NodeInfo, CallBack, SetValue,
       CallBackDone, Terminate, Destroy, Disconnect, StopPhase, Tick, GotHomeId,
       BeginSetup, Initialized, StartPass, EndPass, Wake, CheckNode, Setup,
       NodeFailed, NotYetDue, Examine, on_notification, Notify, refreshVars
  <2>2. w = v /\ lastForced'[v] = passAt /\ Age(v) > Refresh(v)
    BY <2>1 DEF ForceRefresh, IInv, TypeOK
  <2>3. /\ lastForced[v] \in Int /\ lastRefresh[v] \in Int /\ passAt \in Int
        /\ Refresh(v) \in Nat /\ lastForced[v] <= lastRefresh[v]
    BY RefreshFacts DEF IInv, TypeOK, NewsInOrder, None
  <2> QED
    BY <2>2, <2>3 DEF Age
<1> QED
  BY <1>1, ZWaveInvariant, PTL DEF Spec, AnsweredRequestsApart

=============================================================================
