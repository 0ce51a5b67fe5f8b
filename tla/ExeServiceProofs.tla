-------------------------- MODULE ExeServiceProofs --------------------------
(***************************************************************************)
(* Proofs about ExeService for every set of scripts, values and wait calls *)
(* and every bound: type correctness, the inductive invariant, from it the *)
(* safety properties of the waiting protocol and of stop_all, and at the   *)
(* end that exe_service implements ScriptEngine.                           *)
(***************************************************************************)
EXTENDS ExeServiceRefines, FiniteSetTheorems, TLAPS

\* The positions fired by one waker are finitely many: num stays a number.
LEMMA FiredIsFinite ==
    ASSUME NEW Keys, NEW map, map \subseteq Entry(Keys), NEW K, NEW s
    PROVE  /\ Fired(map, K, s) \subseteq Positions
           /\ IsFiniteSet(Fired(map, K, s))
           /\ Cardinality(Fired(map, K, s)) \in Nat
<1>1. Fired(map, K, s) \subseteq Positions
  BY DEF Fired, Entry
<1>2. IsFiniteSet(Fired(map, K, s))
  BY <1>1, FiniteAssumption, FS_Subset
<1> QED
  BY <1>1, <1>2, FS_CardinalityType

\* The effect of a waker on the script variables is well typed.
LEMMA NotifyType ==
    ASSUME TypeOK, NEW Keys, NEW map, map \subseteq Entry(Keys), NEW K,
           Notify(map, K)
    PROVE  /\ num' \in [Scripts -> Nat]
           /\ pc' \in [Scripts -> PCs]
           /\ missed' \subseteq Scripts
<1>1. \A s \in Scripts : Cardinality(Fired(map, K, s)) \in Nat
  BY FiredIsFinite
<1>2. num' \in [Scripts -> Nat]
  BY <1>1 DEF Notify, Counted, TypeOK
<1>3. pc' \in [Scripts -> PCs]
  BY DEF Notify, Woken, TypeOK, PCs, InScope
<1>4. missed' \subseteq Scripts
  BY DEF Notify, TypeOK
<1> QED
  BY <1>2, <1>3, <1>4

\* Nulling keeps the elements of a map elements.
LEMMA NulledType ==
    ASSUME NEW Keys, NEW map, map \subseteq Entry(Keys), NEW K
    PROVE  Nulled(map, K) \subseteq Entry(Keys)
BY DEF Nulled, Entry

LEMMA EntriesType ==
    ASSUME NEW Keys, NEW s \in Scripts, NEW f, IsArgs(f, Keys)
    PROVE  Entries(s, f) \subseteq Entry(Keys)
BY DEF Entries, Entry, IsArgs

-----------------------------------------------------------------------------
LEMMA TypeInit == Init => TypeOK
<1> SUFFICES ASSUME Init PROVE TypeOK
  OBVIOUS
<1>1. IsWait(NoWait)
  BY DEF IsWait, NoWait, NoArgs, IsArgs
<1>2. /\ hit \in [Scripts -> SUBSET Positions]
      /\ pc \in [Scripts -> PCs]
      /\ wait = [s \in Scripts |-> wait[s]]
      /\ num \in [Scripts -> Nat]
  BY DEF Init, StartOfMain, PCs
<1>3. /\ 0 \in 0..MaxMsgs
      /\ 0 \in 0..MaxTime
      /\ 0 \in 0..MaxEdits
      /\ 0 \in 0..MaxReloads
  BY BoundAssumption
<1> QED
  BY <1>1, <1>2, <1>3 DEF Init, StartOfMain, TypeOK, Kinds

LEMMA TypeScript ==
    ASSUME TypeOK, NEW s \in Scripts, ScriptStep(s) \/ SpuriousWake(s)
    PROVE  TypeOK'
<1> USE DEF scriptVars, mapVars, handlerVars, valueVars, reloadVars, dbVars,
            waitHistory, Goto, PCs, InScope
<1>1. CASE CallWait(s)
  <2>1. PICK r \in Requests[s] :
          wait' = [wait EXCEPT ![s] =
                     [or |-> r.or, val |-> r.val,
                      due |-> [p \in DOMAIN r.delay |-> now + r.delay[p]]]]
    BY <1>1 DEF CallWait
  <2>2. IsRequest(r)
    BY RequestAssumption
  <2>3. now \in Nat
    BY BoundAssumption DEF TypeOK
  <2>4. IsWait([or |-> r.or, val |-> r.val,
                due |-> [p \in DOMAIN r.delay |-> now + r.delay[p]]])
    BY <2>2, <2>3 DEF IsRequest, IsWait, IsArgs
  <2>5. /\ wait' = [t \in Scripts |-> wait'[t]]
        /\ \A t \in Scripts : IsWait(wait'[t])
    BY <2>1, <2>4 DEF TypeOK
  <2> QED
    BY <1>1, <2>5 DEF CallWait, TypeOK
<1>2. CASE EndScript(s)
  BY <1>2 DEF EndScript, TypeOK
<1>3. CASE InsertVals(s)
  <2>1. IsArgs(wait[s].val, Values)
    BY DEF TypeOK, IsWait
  <2> QED
    BY <1>3, <2>1, EntriesType DEF InsertVals, TypeOK
<1>4. CASE InsertTimes(s)
  <2>1. IsArgs(wait[s].due, Nat)
    BY DEF TypeOK, IsWait
  <2> QED
    BY <1>4, <2>1, EntriesType DEF InsertTimes, TypeOK
<1>5. CASE Test(s)
  BY <1>5 DEF Test, TypeOK
<1>6. CASE Block(s)
  BY <1>6 DEF Block, TypeOK
<1>7. CASE SpuriousWake(s)
  BY <1>7 DEF SpuriousWake, TypeOK
<1>8. CASE DeleteVals(s)
  BY <1>8 DEF DeleteVals, Erased, TypeOK
<1>9. CASE DeleteTimes(s)
  BY <1>9 DEF DeleteTimes, Erased, TypeOK
<1>10. CASE Leave(s)
  BY <1>10 DEF Leave, TypeOK
<1> QED
  BY <1>1, <1>2, <1>3, <1>4, <1>5, <1>6, <1>7, <1>8, <1>9, <1>10 DEF ScriptStep

LEMMA TypeHandler ==
    ASSUME TypeOK, ReceiveStatus \/ HandlerStep \/ Reload
    PROVE  TypeOK'
<1> USE BoundAssumption
    DEF scriptVars, mapVars, handlerVars, valueVars, reloadVars, dbVars,
        waitHistory
<1>1. CASE ReceiveStatus
  <2>1. hTodo' \subseteq Values
    BY <1>1 DEF ReceiveStatus
  <2>2. msgs' \in 0..MaxMsgs
    BY <1>1 DEF ReceiveStatus, TypeOK
  <2> QED
    BY <1>1, <2>1, <2>2 DEF ReceiveStatus, TypeOK
<1>2. CASE StoreValue
  <2>1. /\ hVal' \in Values
        /\ hKind' \in Kinds
        /\ hTodo' \subseteq Values
        /\ dblVal' \in [Values -> 0..MaxMsgs]
        /\ boolVal' \in [Values -> 0..MaxMsgs]
    BY <1>2 DEF StoreValue, TypeOK
  <2> QED
    BY <1>2, <2>1 DEF StoreValue, TypeOK
<1>3. CASE NotifyValue
  <2>1. /\ num' \in [Scripts -> Nat]
        /\ pc' \in [Scripts -> PCs]
        /\ missed' \subseteq Scripts
    BY <1>3, NotifyType DEF NotifyValue, TypeOK
  <2>2. valMap' \subseteq Entry(Values)
    BY <1>3, NulledType DEF NotifyValue, TypeOK
  <2>3. \A s \in Scripts : DOMAIN wait[s].val \subseteq Positions
    BY DEF TypeOK, IsWait, IsArgs
  <2>4. hit' \in [Scripts -> SUBSET Positions]
    BY <1>3, <2>3 DEF NotifyValue, HitByValue, TypeOK
  <2>5. told' \in [Values -> 0..MaxMsgs]
    BY <1>3 DEF NotifyValue, TypeOK
  <2> QED
    BY <1>3, <2>1, <2>2, <2>4, <2>5 DEF NotifyValue, TypeOK, Kinds
<1>4. CASE Reload
  BY <1>4 DEF Reload, TypeOK
<1> QED
  BY <1>1, <1>2, <1>3, <1>4 DEF HandlerStep

LEMMA TypeTime ==
    ASSUME TypeOK, Tick \/ TimeThread \/ EditScripts
    PROVE  TypeOK'
<1> USE BoundAssumption
    DEF scriptVars, mapVars, handlerVars, valueVars, reloadVars, dbVars,
        waitHistory
<1>1. CASE Tick
  BY <1>1 DEF Tick, TypeOK
<1>2. CASE TimeThread
  <2>1. /\ num' \in [Scripts -> Nat]
        /\ pc' \in [Scripts -> PCs]
        /\ missed' \subseteq Scripts
    BY <1>2, NotifyType DEF TimeThread, TypeOK
  <2>2. timeMap' \subseteq Entry(Nat)
    BY <1>2, NulledType DEF TimeThread, TypeOK
  <2>3. \A s \in Scripts : DOMAIN wait[s].due \subseteq Positions
    BY DEF TypeOK, IsWait, IsArgs
  <2>4. hit' \in [Scripts -> SUBSET Positions]
    BY <1>2, <2>3 DEF TimeThread, HitByTime, TypeOK
  <2> QED
    BY <1>2, <2>1, <2>2, <2>4 DEF TimeThread, TypeOK
<1>3. CASE EditScripts
  BY <1>3, TableAssumption DEF EditScripts, TypeOK
<1> QED
  BY <1>1, <1>2, <1>3

LEMMA TypeReload ==
    ASSUME TypeOK, ReloadStep
    PROVE  TypeOK'
<1> USE DEF scriptVars, mapVars, handlerVars, valueVars, reloadVars, dbVars,
            waitHistory
<1>1. CASE Unsubscribe
  BY <1>1 DEF Unsubscribe, TypeOK
<1>2. CASE SetTerminate
  BY <1>2 DEF SetTerminate, TypeOK
<1>3. CASE WakeVals
  <2>1. /\ num' \in [Scripts -> Nat]
        /\ pc' \in [Scripts -> PCs]
        /\ missed' \subseteq Scripts
    BY <1>3, NotifyType DEF WakeVals, TypeOK
  <2> QED
    BY <1>3, <2>1 DEF WakeVals, TypeOK
<1>4. CASE WakeTimes
  <2>1. /\ num' \in [Scripts -> Nat]
        /\ pc' \in [Scripts -> PCs]
        /\ missed' \subseteq Scripts
    BY <1>4, NotifyType DEF WakeTimes, TypeOK
  <2> QED
    BY <1>4, <2>1 DEF WakeTimes, TypeOK
<1>5. CASE Join
  BY <1>5 DEF Join, TypeOK, PCs
<1>6. CASE ClearVals
  BY <1>6 DEF ClearVals, TypeOK
<1>7. CASE ClearTimes
  BY <1>7 DEF ClearTimes, TypeOK
<1>8. CASE Load
  <2>1. subs' \subseteq Topics \cup {ReloadTopic}
    BY <1>8, RegisterAssumption, TopicAssumption DEF Load, TypeOK
  <2> QED
    BY <1>8, <2>1 DEF Load, TypeOK
<1>9. CASE Spawn
  <2>1. pc' \in [Scripts -> PCs]
    BY <1>9 DEF Spawn, TypeOK, PCs
  <2> QED
    BY <1>9, <2>1 DEF Spawn, TypeOK
<1>10. CASE SubscribeReload
  BY <1>10 DEF SubscribeReload, TypeOK
<1> QED
  BY <1>1, <1>2, <1>3, <1>4, <1>5, <1>6, <1>7, <1>8, <1>9, <1>10 DEF ReloadStep

LEMMA TypeStep == TypeOK /\ [Next]_vars => TypeOK'
<1> SUFFICES ASSUME TypeOK, [Next]_vars PROVE TypeOK'
  OBVIOUS
<1>1. CASE \E s \in Scripts : ScriptStep(s) \/ SpuriousWake(s)
  BY <1>1, TypeScript
<1>2. CASE ReceiveStatus \/ HandlerStep \/ Reload
  BY <1>2, TypeHandler
<1>3. CASE Tick \/ TimeThread \/ EditScripts
  BY <1>3, TypeTime
<1>4. CASE ReloadStep
  BY <1>4, TypeReload
<1>5. CASE UNCHANGED vars
  BY <1>5 DEF vars, scriptVars, mapVars, handlerVars, valueVars, reloadVars,
     dbVars, waitHistory, TypeOK
<1> QED
  BY <1>1, <1>2, <1>3, <1>4, <1>5 DEF Next

\* Every variable of the daemon keeps its type, whatever the scripts wait for.
THEOREM TypeCorrect == Spec => []TypeOK
BY TypeInit, TypeStep, PTL DEF Spec

-----------------------------------------------------------------------------
(* The waiting protocol.  TypeOK' is known from TypeStep; the other parts  *)
(* of IInv are proved action by action.                                    *)

Protocol ==
    /\ OwnersWait
    /\ LiveUntilHit
    /\ HitsAreArgs
    /\ EveryEventCounted
    /\ PassedFulfilled
    /\ ReloadPhases

LEMMA ProtocolInit == Init => Protocol
<1> SUFFICES ASSUME Init PROVE Protocol
  OBVIOUS
<1>1. \A s \in Scripts : pc[s] = "none"
  BY DEF Init, StartOfMain
<1> QED
  BY <1>1 DEF Init, StartOfMain, Protocol, OwnersWait, LiveUntilHit, HitsAreArgs,
     EveryEventCounted, PassedFulfilled, ReloadPhases, InScope,
     ValRegistered, TimeRegistered

\* Two facts on counting: what was not yet hit adds to what was, and a set of
\* arguments as large as all of them is all of them.
LEMMA CountUnion ==
    ASSUME NEW A, NEW B, A \subseteq Positions, B \subseteq Positions
    PROVE  /\ Cardinality(A) \in Nat
           /\ Cardinality(A \cup B) = Cardinality(A) + Cardinality(B \ A)
<1>1. IsFiniteSet(A) /\ IsFiniteSet(B) /\ IsFiniteSet(B \ A)
  BY FiniteAssumption, FS_Subset
<1>2. A \cap (B \ A) = {} /\ A \cup B = A \cup (B \ A)
  OBVIOUS
<1>3. Cardinality(A \cup (B \ A)) = Cardinality(A) + Cardinality(B \ A)
                                      - Cardinality(A \cap (B \ A))
  BY <1>1, FS_Union
<1>4. Cardinality(A \cup B) = Cardinality(A) + Cardinality(B \ A)
                              - Cardinality({})
  BY <1>2, <1>3, Zenon
<1>5. /\ Cardinality(A) \in Nat
      /\ Cardinality(B \ A) \in Nat
      /\ Cardinality({}) = 0
  BY <1>1, FS_CardinalityType, FS_EmptySet
<1> QED
  BY <1>4, <1>5

LEMMA CountAll ==
    ASSUME NEW A, NEW B, A \subseteq B, B \subseteq Positions
    PROVE  /\ Cardinality(A) >= Cardinality(B) => A = B
           /\ Cardinality(A) >= 1 => A # {}
<1>1. IsFiniteSet(A) /\ IsFiniteSet(B)
  BY FiniteAssumption, FS_Subset
<1>2. Cardinality(A) <= Cardinality(B) /\ (Cardinality(B) = Cardinality(A) => B = A)
  BY <1>1, FS_Subset
<1>3. Cardinality(A) \in Nat /\ Cardinality(B) \in Nat /\ Cardinality({}) = 0
  BY <1>1, FS_CardinalityType, FS_EmptySet
<1> QED
  BY <1>2, <1>3

\* The wait call of a script in the middle of it.
LEMMA ArgsArePositions ==
    ASSUME TypeOK, NEW s \in Scripts
    PROVE  /\ Args(wait[s]) \subseteq Positions
           /\ DOMAIN wait[s].val \subseteq Positions
           /\ DOMAIN wait[s].due \subseteq Positions
           /\ DOMAIN wait[s].val \cap DOMAIN wait[s].due = {}
           /\ hit[s] \subseteq Positions
BY DEF TypeOK, IsWait, IsArgs, Args

\* A waker fires exactly the registered arguments under its keys whose event
\* has not happened yet.
LEMMA FiredVals ==
    ASSUME TypeOK, Protocol, NEW K, NEW s \in Scripts
    PROVE  Fired(valMap, K, s) =
             IF pc[s] \in ValRegistered
             THEN {p \in DOMAIN wait[s].val : wait[s].val[p] \in K} \ hit[s]
             ELSE {}
<1>0. Null \notin Scripts
  BY NullAssumption
<1>1. ASSUME NEW p \in Fired(valMap, K, s)
      PROVE  /\ pc[s] \in ValRegistered
             /\ p \in DOMAIN wait[s].val
             /\ wait[s].val[p] \in K
             /\ p \notin hit[s]
  <2>1. PICK e \in valMap : e.key \in K /\ e.ptr = s /\ e.arg = p
    BY DEF Fired
  <2>2. /\ e.own = s
        /\ pc[s] \in ValRegistered
        /\ p \in DOMAIN wait[s].val
        /\ e.key = wait[s].val[p]
    BY <2>1, <1>0 DEF Protocol, OwnersWait
  <2>3. e = Live(s, p, wait[s].val[p])
    BY <2>1, <2>2 DEF Live, TypeOK, Entry
  <2> QED
    BY <2>1, <2>2, <2>3 DEF Protocol, LiveUntilHit
<1>2. ASSUME pc[s] \in ValRegistered, NEW p \in DOMAIN wait[s].val,
             wait[s].val[p] \in K, p \notin hit[s]
      PROVE  p \in Fired(valMap, K, s)
  <2>1. Live(s, p, wait[s].val[p]) \in valMap
    BY <1>2 DEF Protocol, LiveUntilHit
  <2> QED
    BY <2>1, <1>2 DEF Live, Fired
<1> QED
  BY <1>1, <1>2

LEMMA FiredTimes ==
    ASSUME TypeOK, Protocol, NEW K, NEW s \in Scripts
    PROVE  Fired(timeMap, K, s) =
             IF pc[s] \in TimeRegistered
             THEN {p \in DOMAIN wait[s].due : wait[s].due[p] \in K} \ hit[s]
             ELSE {}
<1>0. Null \notin Scripts
  BY NullAssumption
<1>1. ASSUME NEW p \in Fired(timeMap, K, s)
      PROVE  /\ pc[s] \in TimeRegistered
             /\ p \in DOMAIN wait[s].due
             /\ wait[s].due[p] \in K
             /\ p \notin hit[s]
  <2>1. PICK e \in timeMap : e.key \in K /\ e.ptr = s /\ e.arg = p
    BY DEF Fired
  <2>2. /\ e.own = s
        /\ pc[s] \in TimeRegistered
        /\ p \in DOMAIN wait[s].due
        /\ e.key = wait[s].due[p]
    BY <2>1, <1>0 DEF Protocol, OwnersWait
  <2>3. e = Live(s, p, wait[s].due[p])
    BY <2>1, <2>2 DEF Live, TypeOK, Entry
  <2> QED
    BY <2>1, <2>2, <2>3 DEF Protocol, LiveUntilHit
<1>2. ASSUME pc[s] \in TimeRegistered, NEW p \in DOMAIN wait[s].due,
             wait[s].due[p] \in K, p \notin hit[s]
      PROVE  p \in Fired(timeMap, K, s)
  <2>1. Live(s, p, wait[s].due[p]) \in timeMap
    BY <1>2 DEF Protocol, LiveUntilHit
  <2> QED
    BY <2>1, <1>2 DEF Live, Fired
<1> QED
  BY <1>1, <1>2


-----------------------------------------------------------------------------
LEMMA ProtocolScript ==
    ASSUME TypeOK, TypeOK', Protocol, NEW s \in Scripts,
           ScriptStep(s) \/ SpuriousWake(s)
    PROVE  Protocol'
<1> USE DEF Goto, scriptVars, mapVars, reloadVars, waitHistory
<1>0. /\ pc \in [Scripts -> PCs]
      /\ Null \notin Scripts
      /\ \A t \in Scripts : /\ pc[s] = "none" => pc'[s] = "none"
                            /\ t # s => pc'[t] = pc[t]
  BY NullAssumption DEF TypeOK, ScriptStep, SpuriousWake, CallWait, EndScript,
     InsertVals, InsertTimes, Test, Block, DeleteVals, DeleteTimes, Leave
<1>1. ReloadPhases'
  BY <1>0 DEF Protocol, ReloadPhases, TypeOK, ScriptStep, SpuriousWake, CallWait, EndScript,
     InsertVals, InsertTimes, Test, Block, DeleteVals, DeleteTimes, Leave
<1>2. CASE CallWait(s)
  <2> USE <1>2 DEF CallWait
  <2>1. OwnersWait'
    BY <1>0 DEF Protocol, OwnersWait, TypeOK, Entry, ValRegistered, TimeRegistered
  <2>2. LiveUntilHit'
    BY <1>0 DEF Protocol, LiveUntilHit, TypeOK, Live, ValRegistered, TimeRegistered
  <2>3. HitsAreArgs'
    BY <1>0 DEF Protocol, HitsAreArgs, TypeOK
  <2>4. EveryEventCounted'
    BY <1>0, FS_EmptySet DEF Protocol, EveryEventCounted, TypeOK
  <2>5. PassedFulfilled'
    BY <1>0 DEF Protocol, PassedFulfilled, TypeOK, Fulfilled, Args
  <2> QED
    BY <1>1, <2>1, <2>2, <2>3, <2>4, <2>5 DEF Protocol
<1>3. CASE EndScript(s)
  <2> USE <1>3 DEF EndScript
  <2>1. OwnersWait'
    BY <1>0 DEF Protocol, OwnersWait, TypeOK, Entry, ValRegistered, TimeRegistered
  <2>2. LiveUntilHit'
    BY <1>0 DEF Protocol, LiveUntilHit, TypeOK, Live, ValRegistered, TimeRegistered
  <2>3. HitsAreArgs' /\ EveryEventCounted' /\ PassedFulfilled'
    BY <1>0 DEF Protocol, HitsAreArgs, TypeOK, EveryEventCounted,
       PassedFulfilled, Fulfilled, InScope
  <2> QED
    BY <1>1, <2>1, <2>2, <2>3 DEF Protocol
<1>4. CASE InsertVals(s)
  <2> USE <1>4 DEF InsertVals
  <2>1. OwnersWait'
    BY <1>0 DEF Protocol, OwnersWait, TypeOK, Entry, Entries, ValRegistered, TimeRegistered
  <2>2. LiveUntilHit'
    BY <1>0 DEF Protocol, LiveUntilHit, HitsAreArgs, TypeOK, Live, Entries,
       ValRegistered, TimeRegistered
  <2>3. HitsAreArgs' /\ EveryEventCounted' /\ PassedFulfilled'
    BY <1>0 DEF Protocol, HitsAreArgs, TypeOK, EveryEventCounted,
       PassedFulfilled, Fulfilled, InScope
  <2> QED
    BY <1>1, <2>1, <2>2, <2>3 DEF Protocol
<1>5. CASE InsertTimes(s)
  <2> USE <1>5 DEF InsertTimes
  <2>1. OwnersWait'
    BY <1>0 DEF Protocol, OwnersWait, TypeOK, Entry, Entries, ValRegistered, TimeRegistered
  <2>2. LiveUntilHit'
    <3>1. /\ pc[s] = "insTime" /\ pc'[s] = "test"
          /\ timeMap' = timeMap \cup Entries(s, wait[s].due)
          /\ UNCHANGED <<wait, valMap, hit>>
      BY <1>0
    <3>2. /\ hit[s] \subseteq DOMAIN wait[s].val
          /\ DOMAIN wait[s].val \cap DOMAIN wait[s].due = {}
      BY <3>1, ArgsArePositions DEF Protocol, HitsAreArgs
    <3>3. \A p \in DOMAIN wait[s].due :
             p \notin hit[s] /\ Live(s, p, wait[s].due[p]) \in timeMap'
      BY <3>1, <3>2 DEF Entries, Live
    <3>4. \A p \in DOMAIN wait[s].val :
             p \in hit[s] <=> Live(s, p, wait[s].val[p]) \notin valMap
      BY <3>1 DEF Protocol, LiveUntilHit, ValRegistered
    <3>5. ASSUME NEW t \in Scripts, t # s, NEW p, NEW k
          PROVE  Live(t, p, k) \in timeMap' <=> Live(t, p, k) \in timeMap
      BY <3>1, <3>5 DEF Entries, Live
    <3> QED
      BY <1>0, <3>1, <3>3, <3>4, <3>5
      DEF Protocol, LiveUntilHit
  <2>3. HitsAreArgs' /\ EveryEventCounted' /\ PassedFulfilled'
    BY <1>0 DEF Protocol, HitsAreArgs, TypeOK, EveryEventCounted,
       PassedFulfilled, Fulfilled, InScope, Args
  <2> QED
    BY <1>1, <2>1, <2>2, <2>3 DEF Protocol
<1>6. CASE Test(s)
  <2> USE <1>6 DEF Test
  <2>0. pc'[s] \in {"delVal", "sleep"} /\ pc[s] = "test"
    BY <1>0
  <2>1. OwnersWait'
    BY <1>0, <2>0 DEF Protocol, OwnersWait, TypeOK, Entry, ValRegistered, TimeRegistered
  <2>2. LiveUntilHit'
    BY <1>0, <2>0 DEF Protocol, LiveUntilHit, TypeOK, Live, ValRegistered, TimeRegistered
  <2>3. HitsAreArgs' /\ EveryEventCounted'
    BY <1>0, <2>0 DEF Protocol, HitsAreArgs, TypeOK, EveryEventCounted, InScope
  <2>4. ASSUME ~terminate, Satisfied(s) PROVE Fulfilled(s)
    <3>1. num[s] = Cardinality(hit[s]) /\ hit[s] \subseteq Args(wait[s])
      BY <2>0, <2>4 DEF Protocol, EveryEventCounted, HitsAreArgs, InScope
    <3> QED
      BY <2>4, <3>1, ArgsArePositions, CountAll DEF Satisfied, Fulfilled
  <2>5. PassedFulfilled'
    BY <1>0, <2>0, <2>4 DEF Protocol, PassedFulfilled, TypeOK, Fulfilled
  <2> QED
    BY <1>1, <2>1, <2>2, <2>3, <2>5 DEF Protocol
<1>7. CASE Block(s) \/ SpuriousWake(s)
  <2> USE <1>7 DEF Block, SpuriousWake
  <2>0. /\ pc'[s] \in {"blocked", "test"}
        /\ pc[s] \in {"sleep", "blocked"}
        /\ UNCHANGED <<wait, num, valMap, timeMap, hit, terminate>>
    BY <1>0
  <2>1. OwnersWait'
    BY <1>0, <2>0 DEF Protocol, OwnersWait, TypeOK, Entry, ValRegistered, TimeRegistered
  <2>2. LiveUntilHit'
    BY <1>0, <2>0 DEF Protocol, LiveUntilHit, TypeOK, Live, ValRegistered, TimeRegistered
  <2>3. HitsAreArgs' /\ EveryEventCounted' /\ PassedFulfilled'
    BY <1>0, <2>0 DEF Protocol, HitsAreArgs, TypeOK, EveryEventCounted,
       PassedFulfilled, Fulfilled, InScope
  <2> QED
    BY <1>1, <2>1, <2>2, <2>3 DEF Protocol
<1>8. CASE DeleteVals(s)
  <2> USE <1>8 DEF DeleteVals
  <2>1. OwnersWait'
    BY <1>0 DEF Protocol, OwnersWait, TypeOK, Entry, Erased, ValRegistered, TimeRegistered
  <2>2. LiveUntilHit'
    BY <1>0 DEF Protocol, LiveUntilHit, TypeOK, Live, Erased, ValRegistered, TimeRegistered
  <2>3. HitsAreArgs' /\ EveryEventCounted' /\ PassedFulfilled'
    BY <1>0 DEF Protocol, HitsAreArgs, TypeOK, EveryEventCounted,
       PassedFulfilled, Fulfilled, InScope
  <2> QED
    BY <1>1, <2>1, <2>2, <2>3 DEF Protocol
<1>9. CASE DeleteTimes(s)
  <2> USE <1>9 DEF DeleteTimes
  <2>1. OwnersWait'
    BY <1>0 DEF Protocol, OwnersWait, TypeOK, Entry, Erased, ValRegistered, TimeRegistered
  <2>2. LiveUntilHit'
    BY <1>0 DEF Protocol, LiveUntilHit, TypeOK, Live, Erased, ValRegistered, TimeRegistered
  <2>3. HitsAreArgs' /\ EveryEventCounted' /\ PassedFulfilled'
    BY <1>0 DEF Protocol, HitsAreArgs, TypeOK, EveryEventCounted,
       PassedFulfilled, Fulfilled, InScope
  <2> QED
    BY <1>1, <2>1, <2>2, <2>3 DEF Protocol
<1>10. CASE Leave(s)
  <2> USE <1>10 DEF Leave
  <2>0. pc'[s] \in {"done", "lua"} /\ pc[s] = "leave"
    BY <1>0
  <2>1. OwnersWait'
    BY <1>0, <2>0 DEF Protocol, OwnersWait, TypeOK, Entry, ValRegistered, TimeRegistered
  <2>2. LiveUntilHit'
    BY <1>0, <2>0 DEF Protocol, LiveUntilHit, TypeOK, Live, ValRegistered, TimeRegistered
  <2>3. HitsAreArgs' /\ EveryEventCounted' /\ PassedFulfilled'
    BY <1>0, <2>0 DEF Protocol, HitsAreArgs, TypeOK, EveryEventCounted,
       PassedFulfilled, Fulfilled, InScope
  <2> QED
    BY <1>1, <2>1, <2>2, <2>3 DEF Protocol
<1> QED
  BY <1>2, <1>3, <1>4, <1>5, <1>6, <1>7, <1>8, <1>9, <1>10 DEF ScriptStep

\* A waker moves no thread but from blocked to its test, and counts.
LEMMA NotifyEffect ==
    ASSUME TypeOK, NEW map, NEW K, Notify(map, K), NEW s \in Scripts
    PROVE  /\ pc'[s] = pc[s] \/ (pc[s] = "blocked" /\ pc'[s] = "test")
           /\ num'[s] = num[s] + Cardinality(Fired(map, K, s))
BY DEF Notify, Woken, Counted, TypeOK

\* Nulling keeps every element, but for pointers; it keeps live the elements
\* under other keys.
LEMMA NulledFields ==
    ASSUME NEW map, NEW K, NEW e \in Nulled(map, K)
    PROVE  \E d \in map : /\ e.own = d.own /\ e.arg = d.arg /\ e.key = d.key
                          /\ e.ptr \in {d.ptr, Null}
BY DEF Nulled

LEMMA NulledLive ==
    ASSUME NEW Keys, NEW map, map \subseteq Entry(Keys), NEW K,
           NEW s \in Scripts, NEW p, NEW k
    PROVE  Live(s, p, k) \in Nulled(map, K) <=> Live(s, p, k) \in map /\ k \notin K
<1>0. s # Null
  BY NullAssumption
<1>1. ASSUME Live(s, p, k) \in Nulled(map, K)
      PROVE  Live(s, p, k) \in map /\ k \notin K
  <2>1. PICK d \in map :
           Live(s, p, k) = [own |-> d.own, arg |-> d.arg, key |-> d.key,
                            ptr |-> IF d.key \in K THEN Null ELSE d.ptr]
    BY <1>1 DEF Nulled
  <2>2. d.own = s /\ d.arg = p /\ d.key = k /\ k \notin K /\ d.ptr = s
    BY <2>1, <1>0 DEF Live
  <2>3. d = Live(s, p, k)
    BY <2>2 DEF Live, Entry
  <2> QED
    BY <2>2, <2>3
<1>2. ASSUME Live(s, p, k) \in map, k \notin K
      PROVE  Live(s, p, k) \in Nulled(map, K)
  <2> DEFINE l == Live(s, p, k)
  <2>1. l = [own |-> l.own, arg |-> l.arg, key |-> l.key,
             ptr |-> IF l.key \in K THEN Null ELSE l.ptr]
    BY <1>2 DEF Live
  <2> QED
    BY <1>2, <2>1 DEF Nulled
<1> QED
  BY <1>1, <1>2

LEMMA ProtocolNotifyValue ==
    ASSUME TypeOK, TypeOK', Protocol, NotifyValue
    PROVE  Protocol'
<1> DEFINE B(s) == {p \in DOMAIN wait[s].val : wait[s].val[p] = hVal}
<1>0. /\ Notify(valMap, {hVal})
      /\ valMap' = Nulled(valMap, {hVal})
      /\ UNCHANGED <<wait, timeMap, terminate, rpc, store>>
      /\ Null \notin Scripts
  BY NullAssumption DEF NotifyValue, reloadVars
<1>1. \A s \in Scripts :
         /\ pc'[s] = pc[s] \/ (pc[s] = "blocked" /\ pc'[s] = "test")
         /\ num'[s] = num[s] + Cardinality(Fired(valMap, {hVal}, s))
  BY <1>0, NotifyEffect
<1>2. ASSUME NEW s \in Scripts
      PROVE  /\ hit'[s] = IF pc[s] \in ValRegistered THEN hit[s] \cup B(s) ELSE hit[s]
             /\ Fired(valMap, {hVal}, s) =
                  IF pc[s] \in ValRegistered THEN B(s) \ hit[s] ELSE {}
  <2>1. hit'[s] = IF pc[s] \in ValRegistered THEN hit[s] \cup B(s) ELSE hit[s]
    BY DEF NotifyValue, HitByValue
  <2>2. {p \in DOMAIN wait[s].val : wait[s].val[p] \in {hVal}} = B(s)
    OBVIOUS
  <2>3. Fired(valMap, {hVal}, s) =
           IF pc[s] \in ValRegistered
           THEN {p \in DOMAIN wait[s].val : wait[s].val[p] \in {hVal}} \ hit[s]
           ELSE {}
    BY FiredVals
  <2> QED
    BY <2>1, <2>2, <2>3, Zenon
<1>3. OwnersWait'
  <2>1. ASSUME NEW e \in valMap'
        PROVE  /\ pc'[e.own] \in ValRegistered
               /\ e.arg \in DOMAIN wait'[e.own].val
               /\ e.key = wait'[e.own].val[e.arg]
               /\ e.ptr \in {e.own, Null}
    <3>1. PICK d \in valMap :
             /\ e.own = d.own /\ e.arg = d.arg /\ e.key = d.key
             /\ e.ptr \in {d.ptr, Null}
      BY <1>0, NulledFields
    <3>2. d.own \in Scripts
      BY DEF TypeOK, Entry
    <3> QED
      BY <1>0, <1>1, <3>1, <3>2 DEF Protocol, OwnersWait, ValRegistered
  <2>2. ASSUME NEW e \in timeMap
        PROVE  /\ pc'[e.own] \in TimeRegistered
               /\ e.arg \in DOMAIN wait'[e.own].due
               /\ e.key = wait'[e.own].due[e.arg]
               /\ e.ptr \in {e.own, Null}
    <3>1. e.own \in Scripts
      BY DEF TypeOK, Entry
    <3> QED
      BY <1>0, <1>1, <3>1 DEF Protocol, OwnersWait, TimeRegistered
  <2> QED
    BY <1>0, <2>1, <2>2 DEF OwnersWait
<1>4. LiveUntilHit'
  <2> SUFFICES ASSUME NEW s \in Scripts
               PROVE  /\ pc'[s] \in ValRegistered =>
                            \A p \in DOMAIN wait[s].val :
                               p \in hit'[s] <=> Live(s, p, wait[s].val[p]) \notin valMap'
                      /\ pc'[s] \in TimeRegistered =>
                            \A p \in DOMAIN wait[s].due :
                               p \in hit'[s] <=> Live(s, p, wait[s].due[p]) \notin timeMap'
    BY <1>0 DEF LiveUntilHit, Live
  <2>1. ASSUME NEW p, NEW k
        PROVE  Live(s, p, k) \in valMap' <=> Live(s, p, k) \in valMap /\ k # hVal
    <3>1. valMap \subseteq Entry(Values)
      BY DEF TypeOK
    <3>2. Live(s, p, k) \in Nulled(valMap, {hVal})
             <=> Live(s, p, k) \in valMap /\ k \notin {hVal}
      BY <3>1, NulledLive
    <3> QED
      BY <1>0, <3>2
  <2>2. /\ pc'[s] \in ValRegistered <=> pc[s] \in ValRegistered
        /\ pc'[s] \in TimeRegistered <=> pc[s] \in TimeRegistered
    BY <1>1 DEF ValRegistered, TimeRegistered
  <2>3. ASSUME pc[s] \in ValRegistered, NEW p \in DOMAIN wait[s].val
        PROVE  p \in hit'[s] <=> Live(s, p, wait[s].val[p]) \notin valMap'
    BY <1>2, <2>1, <2>3 DEF Protocol, LiveUntilHit
  <2>4. ASSUME pc[s] \in TimeRegistered, NEW p \in DOMAIN wait[s].due
        PROVE  p \in hit'[s] <=> Live(s, p, wait[s].due[p]) \notin timeMap'
    BY <1>0, <1>2, <2>4, ArgsArePositions DEF Protocol, LiveUntilHit
  <2> QED
    BY <2>2, <2>3, <2>4
<1>5. HitsAreArgs'
  BY <1>0, <1>1, <1>2 DEF Protocol, HitsAreArgs, Args, InScope, ValRegistered
<1>6. EveryEventCounted'
  <2> SUFFICES ASSUME NEW s \in Scripts, pc'[s] \in InScope, ~terminate
               PROVE  num'[s] = Cardinality(hit'[s])
    BY <1>0 DEF EveryEventCounted
  <2>1. num[s] = Cardinality(hit[s])
    BY <1>1 DEF Protocol, EveryEventCounted, InScope
  <2>2. CASE pc[s] \in ValRegistered
    <3>1. B(s) \subseteq Positions /\ hit[s] \subseteq Positions
      BY ArgsArePositions
    <3>2. Cardinality(hit[s] \cup B(s)) = Cardinality(hit[s]) + Cardinality(B(s) \ hit[s])
      BY <3>1, CountUnion
    <3> QED
      BY <1>1, <1>2, <2>1, <2>2, <3>2
  <2>3. CASE pc[s] \notin ValRegistered
    <3>1. hit'[s] = hit[s] /\ Fired(valMap, {hVal}, s) = {}
      BY <1>2, <2>3
    <3>2. num[s] \in Nat /\ num'[s] = num[s] + 0
      BY <1>1, <3>1, FS_EmptySet DEF TypeOK
    <3> QED
      BY <2>1, <3>1, <3>2
  <2> QED
    BY <2>2, <2>3
<1>7. PassedFulfilled'
  <2>1. \A s \in Scripts : hit[s] \subseteq hit'[s]
    BY <1>2
  <2> QED
    BY <1>0, <1>1, <1>5, <2>1
    DEF Protocol, PassedFulfilled, Fulfilled, HitsAreArgs, InScope, Args
<1>8. ReloadPhases'
  BY <1>0, <1>1 DEF Protocol, ReloadPhases, TypeOK
<1> QED
  BY <1>3, <1>4, <1>5, <1>6, <1>7, <1>8 DEF Protocol

LEMMA ProtocolTimeThread ==
    ASSUME TypeOK, TypeOK', Protocol, TimeThread
    PROVE  Protocol'
<1> DEFINE B(s) == {p \in DOMAIN wait[s].due : wait[s].due[p] <= now}
<1>0. /\ Notify(timeMap, DuePoints)
      /\ timeMap' = Nulled(timeMap, DuePoints)
      /\ UNCHANGED <<wait, valMap, terminate, rpc, store>>
      /\ Null \notin Scripts
  BY NullAssumption DEF TimeThread, reloadVars
<1>1. \A s \in Scripts :
         /\ pc'[s] = pc[s] \/ (pc[s] = "blocked" /\ pc'[s] = "test")
         /\ num'[s] = num[s] + Cardinality(Fired(timeMap, DuePoints, s))
  BY <1>0, NotifyEffect
<1>2. ASSUME NEW s \in Scripts
      PROVE  /\ hit'[s] = IF pc[s] \in TimeRegistered THEN hit[s] \cup B(s) ELSE hit[s]
             /\ Fired(timeMap, DuePoints, s) =
                  IF pc[s] \in TimeRegistered THEN B(s) \ hit[s] ELSE {}
  <2>1. hit'[s] = IF pc[s] \in TimeRegistered THEN hit[s] \cup B(s) ELSE hit[s]
    BY DEF TimeThread, HitByTime
  <2>2. ASSUME pc[s] \in TimeRegistered, NEW p \in DOMAIN wait[s].due, p \notin hit[s]
        PROVE  wait[s].due[p] \in AllKeys(timeMap)
    <3>1. Live(s, p, wait[s].due[p]) \in timeMap
      BY <2>2 DEF Protocol, LiveUntilHit
    <3> QED
      BY <3>1 DEF Live, AllKeys
  <2>3. pc[s] \in TimeRegistered =>
           {p \in DOMAIN wait[s].due : wait[s].due[p] \in DuePoints} \ hit[s]
             = B(s) \ hit[s]
    BY <2>2 DEF DuePoints
  <2>4. Fired(timeMap, DuePoints, s) =
           IF pc[s] \in TimeRegistered
           THEN {p \in DOMAIN wait[s].due : wait[s].due[p] \in DuePoints} \ hit[s]
           ELSE {}
    BY FiredTimes
  <2>5. CASE pc[s] \in TimeRegistered
    BY <2>1, <2>3, <2>4, <2>5, Zenon
  <2>6. CASE pc[s] \notin TimeRegistered
    BY <2>1, <2>4, <2>6, Zenon
  <2> QED
    BY <2>5, <2>6
<1>3. OwnersWait'
  <2>1. ASSUME NEW e \in timeMap'
        PROVE  /\ pc'[e.own] \in TimeRegistered
               /\ e.arg \in DOMAIN wait'[e.own].due
               /\ e.key = wait'[e.own].due[e.arg]
               /\ e.ptr \in {e.own, Null}
    <3>1. PICK d \in timeMap :
             /\ e.own = d.own /\ e.arg = d.arg /\ e.key = d.key
             /\ e.ptr \in {d.ptr, Null}
      BY <1>0, NulledFields
    <3>2. d.own \in Scripts
      BY DEF TypeOK, Entry
    <3> QED
      BY <1>0, <1>1, <3>1, <3>2 DEF Protocol, OwnersWait, TimeRegistered
  <2>2. ASSUME NEW e \in valMap
        PROVE  /\ pc'[e.own] \in ValRegistered
               /\ e.arg \in DOMAIN wait'[e.own].val
               /\ e.key = wait'[e.own].val[e.arg]
               /\ e.ptr \in {e.own, Null}
    <3>1. e.own \in Scripts
      BY DEF TypeOK, Entry
    <3> QED
      BY <1>0, <1>1, <3>1 DEF Protocol, OwnersWait, ValRegistered
  <2> QED
    BY <1>0, <2>1, <2>2 DEF OwnersWait
<1>4. LiveUntilHit'
  <2> SUFFICES ASSUME NEW s \in Scripts
               PROVE  /\ pc'[s] \in ValRegistered =>
                            \A p \in DOMAIN wait[s].val :
                               p \in hit'[s] <=> Live(s, p, wait[s].val[p]) \notin valMap'
                      /\ pc'[s] \in TimeRegistered =>
                            \A p \in DOMAIN wait[s].due :
                               p \in hit'[s] <=> Live(s, p, wait[s].due[p]) \notin timeMap'
    BY <1>0 DEF LiveUntilHit, Live
  <2>1. ASSUME NEW p, NEW k
        PROVE  Live(s, p, k) \in timeMap' <=> Live(s, p, k) \in timeMap /\ ~(k <= now)
    <3>1. timeMap \subseteq Entry(Nat)
      BY DEF TypeOK
    <3>2. Live(s, p, k) \in Nulled(timeMap, DuePoints)
             <=> Live(s, p, k) \in timeMap /\ k \notin DuePoints
      BY <3>1, NulledLive
    <3>3. Live(s, p, k) \in timeMap => k \in AllKeys(timeMap)
      BY DEF Live, AllKeys
    <3> QED
      BY <1>0, <3>2, <3>3 DEF DuePoints
  <2>2. /\ pc'[s] \in ValRegistered <=> pc[s] \in ValRegistered
        /\ pc'[s] \in TimeRegistered <=> pc[s] \in TimeRegistered
    BY <1>1 DEF ValRegistered, TimeRegistered
  <2>3. ASSUME pc[s] \in TimeRegistered, NEW p \in DOMAIN wait[s].due
        PROVE  p \in hit'[s] <=> Live(s, p, wait[s].due[p]) \notin timeMap'
    BY <1>2, <2>1, <2>3 DEF Protocol, LiveUntilHit
  <2>4. ASSUME pc[s] \in ValRegistered, NEW p \in DOMAIN wait[s].val
        PROVE  p \in hit'[s] <=> Live(s, p, wait[s].val[p]) \notin valMap'
    BY <1>0, <1>2, <2>4, ArgsArePositions DEF Protocol, LiveUntilHit
  <2> QED
    BY <2>2, <2>3, <2>4
<1>5. HitsAreArgs'
  BY <1>0, <1>1, <1>2 DEF Protocol, HitsAreArgs, Args, InScope, TimeRegistered
<1>6. EveryEventCounted'
  <2> SUFFICES ASSUME NEW s \in Scripts, pc'[s] \in InScope, ~terminate
               PROVE  num'[s] = Cardinality(hit'[s])
    BY <1>0 DEF EveryEventCounted
  <2>1. num[s] = Cardinality(hit[s])
    BY <1>1 DEF Protocol, EveryEventCounted, InScope
  <2>2. CASE pc[s] \in TimeRegistered
    <3>1. B(s) \subseteq Positions /\ hit[s] \subseteq Positions
      BY ArgsArePositions
    <3>2. Cardinality(hit[s] \cup B(s)) = Cardinality(hit[s]) + Cardinality(B(s) \ hit[s])
      BY <3>1, CountUnion
    <3> QED
      BY <1>1, <1>2, <2>1, <2>2, <3>2
  <2>3. CASE pc[s] \notin TimeRegistered
    <3>1. hit'[s] = hit[s] /\ Fired(timeMap, DuePoints, s) = {}
      BY <1>2, <2>3
    <3>2. num[s] \in Nat /\ num'[s] = num[s] + 0
      BY <1>1, <3>1, FS_EmptySet DEF TypeOK
    <3> QED
      BY <2>1, <3>1, <3>2
  <2> QED
    BY <2>2, <2>3
<1>7. PassedFulfilled'
  <2>1. \A s \in Scripts : hit[s] \subseteq hit'[s]
    BY <1>2
  <2> QED
    BY <1>0, <1>1, <1>5, <2>1
    DEF Protocol, PassedFulfilled, Fulfilled, HitsAreArgs, InScope, Args
<1>8. ReloadPhases'
  BY <1>0, <1>1 DEF Protocol, ReloadPhases, TypeOK
<1> QED
  BY <1>3, <1>4, <1>5, <1>6, <1>7, <1>8 DEF Protocol

-----------------------------------------------------------------------------
\* A step that keeps the waits, the maps and what happened keeps the protocol,
\* as long as threads at most return from blocking and the phases go on as
\* they should: stop_all's wakers are such steps, for the flag is up.
LEMMA ProtocolKept ==
    ASSUME TypeOK, Protocol, ReloadPhases',
           UNCHANGED <<wait, valMap, timeMap, hit>>,
           \A s \in Scripts :
              pc'[s] = pc[s] \/ (pc[s] = "blocked" /\ pc'[s] = "test"),
           terminate' \/ (UNCHANGED <<num, terminate>>)
    PROVE  Protocol'
<1>1. OwnersWait'
  <2>1. \A e \in valMap \cup timeMap : e.own \in Scripts
    BY DEF TypeOK, Entry
  <2> QED
    BY <2>1 DEF Protocol, OwnersWait, ValRegistered, TimeRegistered
<1>2. LiveUntilHit'
  BY DEF Protocol, LiveUntilHit, Live, ValRegistered, TimeRegistered
<1>3. HitsAreArgs'
  BY DEF Protocol, HitsAreArgs, InScope
<1>4. EveryEventCounted'
  BY DEF Protocol, EveryEventCounted, InScope
<1>5. PassedFulfilled'
  BY DEF Protocol, PassedFulfilled, Fulfilled
<1> QED
  BY <1>1, <1>2, <1>3, <1>4, <1>5 DEF Protocol

LEMMA ProtocolReload ==
    ASSUME TypeOK, TypeOK', Protocol, ReloadStep
    PROVE  Protocol'
<1> USE DEF scriptVars, mapVars, waitHistory
<1>1. CASE Unsubscribe \/ SetTerminate
  <2>1. ReloadPhases'
    BY <1>1 DEF Unsubscribe, SetTerminate, ReloadPhases
  <2> QED
    BY <1>1, <2>1, ProtocolKept DEF Unsubscribe, SetTerminate
<1>2. CASE WakeVals \/ WakeTimes
  <2>1. \A s \in Scripts :
           pc'[s] = pc[s] \/ (pc[s] = "blocked" /\ pc'[s] = "test")
    BY <1>2, NotifyEffect DEF WakeVals, WakeTimes
  <2>2. terminate' /\ ReloadPhases'
    BY <1>2 DEF WakeVals, WakeTimes, Protocol, ReloadPhases
  <2> QED
    BY <1>2, <2>1, <2>2, ProtocolKept DEF WakeVals, WakeTimes
<1>3. CASE Join
  <2>1. \A s \in Scripts : pc[s] \in {"none", "done"} /\ pc'[s] = "none"
    BY <1>3 DEF Join, Ended
  <2>2. valMap = {} /\ timeMap = {}
    BY <2>1 DEF Protocol, OwnersWait, TypeOK, Entry, ValRegistered, TimeRegistered
  <2> QED
    BY <1>3, <2>1, <2>2 DEF Join, Protocol, OwnersWait, LiveUntilHit, HitsAreArgs,
       EveryEventCounted, PassedFulfilled, ReloadPhases, InScope,
       ValRegistered, TimeRegistered
<1>4. CASE ClearVals \/ ClearTimes
  <2>1. \A s \in Scripts : pc[s] = "none" /\ pc'[s] = "none"
    BY <1>4 DEF ClearVals, ClearTimes, Protocol, ReloadPhases
  <2>2. valMap' \subseteq valMap /\ timeMap' \subseteq timeMap
    BY <1>4 DEF ClearVals, ClearTimes
  <2>3. valMap = {} /\ timeMap = {}
    BY <2>1 DEF Protocol, OwnersWait, TypeOK, Entry, ValRegistered, TimeRegistered
  <2> QED
    BY <1>4, <2>1, <2>2, <2>3 DEF ClearVals, ClearTimes, Protocol, OwnersWait,
       LiveUntilHit, HitsAreArgs, EveryEventCounted, PassedFulfilled,
       ReloadPhases, InScope, ValRegistered, TimeRegistered
<1>5. CASE Load
  <2>1. \A s \in Scripts : pc[s] = "none" /\ pc'[s] = "none"
    BY <1>5 DEF Load, Protocol, ReloadPhases
  <2>2. valMap = {} /\ timeMap = {}
    BY <2>1 DEF Protocol, OwnersWait, TypeOK, Entry, ValRegistered, TimeRegistered
  <2> QED
    BY <1>5, <2>1, <2>2 DEF Load, Protocol, OwnersWait, LiveUntilHit, HitsAreArgs,
       EveryEventCounted, PassedFulfilled, ReloadPhases, InScope,
       ValRegistered, TimeRegistered, TypeOK
<1>6. CASE Spawn
  <2>1. PICK s \in store :
           /\ store' = store \ {s}
           /\ pc' = IF s \in LoadRejects THEN pc ELSE [pc EXCEPT ![s] = "lua"]
    BY <1>6 DEF Spawn
  <2>2. pc[s] = "none" /\ s \in Scripts
    BY <1>6 DEF Spawn, Protocol, ReloadPhases, TypeOK
  <2>3. /\ \A t \in Scripts : pc'[t] = pc[t] \/ (pc[t] = "none" /\ pc'[t] = "lua")
        /\ UNCHANGED <<wait, num, valMap, timeMap, hit, terminate>>
    BY <1>6, <2>1, <2>2 DEF Spawn, TypeOK
  <2>4. OwnersWait'
    <3>1. \A e \in valMap \cup timeMap : e.own \in Scripts
      BY DEF TypeOK, Entry
    <3> QED
      BY <2>3, <3>1 DEF Protocol, OwnersWait, ValRegistered, TimeRegistered
  <2>5. LiveUntilHit'
    BY <2>3 DEF Protocol, LiveUntilHit, Live, ValRegistered, TimeRegistered
  <2>6. HitsAreArgs' /\ EveryEventCounted' /\ PassedFulfilled'
    BY <2>3 DEF Protocol, HitsAreArgs, EveryEventCounted, PassedFulfilled,
       Fulfilled, InScope
  <2>7. ReloadPhases'
    BY <1>6, <2>1, <2>2 DEF Spawn, Protocol, ReloadPhases, TypeOK
  <2> QED
    BY <2>4, <2>5, <2>6, <2>7 DEF Protocol
<1>7. CASE SubscribeReload
  <2>1. ReloadPhases'
    BY <1>7 DEF SubscribeReload, ReloadPhases
  <2> QED
    BY <1>7, <2>1, ProtocolKept DEF SubscribeReload
<1> QED
  BY <1>1, <1>2, <1>3, <1>4, <1>5, <1>6, <1>7 DEF ReloadStep

LEMMA ProtocolOthers ==
    ASSUME TypeOK, Protocol,
           ReceiveStatus \/ StoreValue \/ Reload \/ Tick \/ EditScripts \/ UNCHANGED vars
    PROVE  Protocol'
<1> USE DEF vars, scriptVars, mapVars, reloadVars, waitHistory
<1>1. /\ UNCHANGED <<pc, wait, num, valMap, timeMap, hit, terminate, store>>
      /\ rpc' = rpc \/ rpc' = "unsubscribe"
  BY DEF ReceiveStatus, StoreValue, Reload, Tick, EditScripts
<1>2. ReloadPhases'
  BY <1>1 DEF Protocol, ReloadPhases
<1> QED
  BY <1>1, <1>2, ProtocolKept

LEMMA ProtocolStep == TypeOK /\ Protocol /\ [Next]_vars => Protocol'
<1> SUFFICES ASSUME TypeOK, Protocol, [Next]_vars PROVE Protocol'
  OBVIOUS
<1>0. TypeOK'
  BY TypeStep
<1>1. CASE \E s \in Scripts : ScriptStep(s) \/ SpuriousWake(s)
  BY <1>0, <1>1, ProtocolScript
<1>2. CASE NotifyValue
  BY <1>0, <1>2, ProtocolNotifyValue
<1>3. CASE TimeThread
  BY <1>0, <1>3, ProtocolTimeThread
<1>4. CASE ReloadStep
  BY <1>0, <1>4, ProtocolReload
<1>5. CASE ReceiveStatus \/ StoreValue \/ Reload \/ Tick \/ EditScripts \/ UNCHANGED vars
  BY <1>5, ProtocolOthers
<1> QED
  BY <1>1, <1>2, <1>3, <1>4, <1>5 DEF Next, HandlerStep

-----------------------------------------------------------------------------
\* The inductive invariant of the waiting protocol holds of every daemon.
THEOREM ProtocolHolds == Spec => []IInv
<1>1. Init => IInv
  BY TypeInit, ProtocolInit DEF IInv, Protocol
<1>2. IInv /\ [Next]_vars => IInv'
  BY TypeStep, ProtocolStep DEF IInv, Protocol
<1> QED
  BY <1>1, <1>2, PTL DEF Spec

\* No waker touches the stack frame of a wait call that is over.
THEOREM PointersAreAlive == Spec => []NoDangling
<1>1. IInv => NoDangling
  BY DEF IInv, OwnersWait, NoDangling, ValRegistered, TimeRegistered, InScope
<1> QED
  BY <1>1, ProtocolHolds, PTL

\* stop_all's emergency cleanup of the maps never finds anything.
THEOREM CleanupFindsNothing == Spec => []MapsEmptyAtClear
<1>1. IInv => MapsEmptyAtClear
  BY DEF IInv, TypeOK, Entry, OwnersWait, ReloadPhases, MapsEmptyAtClear,
     ValRegistered, TimeRegistered
<1> QED
  BY <1>1, ProtocolHolds, PTL

\* No event of a wait call is lost or counted twice before termination.
THEOREM EventsAreCounted == Spec => []EveryEventCounted
<1>1. IInv => EveryEventCounted
  BY DEF IInv
<1> QED
  BY <1>1, ProtocolHolds, PTL

\* A wait call that returns to its script has what it waited for.
THEOREM WaitsReturnFulfilled == Spec => ReturnsOnlyFulfilled
<1>1. IInv /\ [Next]_vars =>
         [\A s \in Scripts :
             pc[s] = "leave" /\ pc'[s] = "lua" => Fulfilled(s)]_vars
  <2> SUFFICES ASSUME IInv, [Next]_vars, NEW s \in Scripts,
                      pc[s] = "leave", pc'[s] = "lua"
               PROVE  Fulfilled(s)
    OBVIOUS
  <2>1. pc \in [Scripts -> PCs]
    BY DEF IInv, TypeOK
  <2>2. ~terminate
    <3>1. CASE \E t \in Scripts : ScriptStep(t) \/ SpuriousWake(t)
      <4>1. PICK t \in Scripts : ScriptStep(t) \/ SpuriousWake(t)
        BY <3>1
      <4>2. t = s /\ Leave(s)
        BY <2>1, <4>1 DEF ScriptStep, SpuriousWake, CallWait, EndScript,
           InsertVals, InsertTimes, Test, Block, DeleteVals, DeleteTimes,
           Leave, Goto
      <4> QED
        BY <2>1, <4>2 DEF Leave, Goto
    <3>2. CASE NotifyValue \/ TimeThread \/ WakeVals \/ WakeTimes
      BY <3>2, NotifyEffect DEF NotifyValue, TimeThread, WakeVals, WakeTimes, IInv
    <3>3. CASE Join \/ Spawn
      BY <2>1, <3>3 DEF Join, Spawn, IInv, ReloadPhases, TypeOK
    <3> QED
      BY <3>1, <3>2, <3>3 DEF Next, HandlerStep, ReloadStep, vars, scriptVars,
         ReceiveStatus, StoreValue, Reload, Tick, EditScripts, Unsubscribe,
         SetTerminate, ClearVals, ClearTimes, Load, SubscribeReload
  <2> QED
    BY <2>2 DEF IInv, PassedFulfilled
<1> QED
  BY <1>1, ProtocolHolds, PTL DEF Spec, ReturnsOnlyFulfilled

-----------------------------------------------------------------------------
\* What was loaded is compared with the last request once the table has been
\* read (mq_exe_daemon.cpp:132); until then the request is open.
Loaded ==
    /\ reqVer <= dbVer
    /\ rpc \in {"spawn", "idle"} => loadedVer >= reqVer

LEMMA LoadedInit == Init => Loaded
BY DEF Init, StartOfMain, Loaded

LEMMA LoadedStep == TypeOK /\ TypeOK' /\ Loaded /\ [Next]_vars => Loaded'
<1> SUFFICES ASSUME TypeOK, TypeOK', Loaded, [Next]_vars PROVE Loaded'
  OBVIOUS
<1>0. /\ dbVer \in Int /\ reqVer \in Int /\ loadedVer \in Int
      /\ dbVer' \in Int /\ reqVer' \in Int /\ loadedVer' \in Int
  BY BoundAssumption DEF TypeOK
<1> USE DEF Loaded, reloadVars, dbVars
<1>1. CASE \E s \in Scripts : ScriptStep(s) \/ SpuriousWake(s)
  BY <1>1 DEF ScriptStep, SpuriousWake, CallWait, EndScript,
     InsertVals, InsertTimes, Test, Block, DeleteVals, DeleteTimes, Leave
<1>2. CASE ReceiveStatus \/ HandlerStep \/ Tick \/ TimeThread
  BY <1>2 DEF ReceiveStatus, HandlerStep, StoreValue, NotifyValue, Tick, TimeThread
<1>3. CASE EditScripts
  BY <1>0, <1>3 DEF EditScripts
<1>4. CASE Reload
  BY <1>0, <1>4 DEF Reload
<1>5. CASE ReloadStep
  BY <1>0, <1>5 DEF ReloadStep, Unsubscribe, SetTerminate, WakeVals, WakeTimes,
     Join, ClearVals, ClearTimes, Load, Spawn, SubscribeReload
<1>6. CASE UNCHANGED vars
  BY <1>6 DEF vars
<1> QED
  BY <1>1, <1>2, <1>3, <1>4, <1>5, <1>6 DEF Next

\* When no reload runs, the scripts are those of a table no older than at the
\* last request that came before the table was read, also of one that
\* parse_app_message ignored, whatever edits and further requests came meanwhile.
THEOREM ReloadsAreFresh == Spec => []RequestedIsLoaded
<1>1. Spec => []Loaded
  BY TypeCorrect, LoadedInit, LoadedStep, PTL DEF Spec
<1>2. Loaded => RequestedIsLoaded
  BY DEF Loaded, RequestedIsLoaded
<1> QED
  BY <1>1, <1>2, PTL

-----------------------------------------------------------------------------
LEMMA StoredInit == Init => StoredFirst
BY DEF Init, StartOfMain, StoredFirst, ReqValue, NotifiedValueIsRead

\* The message that is being handled has the highest number, so its value, once
\* stored in the only map of its kind, is as new as any waker may claim.
LEMMA StoredStep ==
    ASSUME KindsKept
    PROVE  TypeOK /\ StoredFirst /\ [Next]_vars => StoredFirst'
<1> SUFFICES ASSUME TypeOK, StoredFirst, [Next]_vars PROVE StoredFirst'
  OBVIOUS
<1>0. /\ msgs \in Nat /\ MaxMsgs \in Nat
      /\ dblVal \in [Values -> Nat] /\ boolVal \in [Values -> Nat]
      /\ told \in [Values -> Nat]
      /\ hpc = "notify" => hVal \in Values
  BY BoundAssumption DEF TypeOK
<1>1. CASE UNCHANGED <<handlerVars, valueVars>>
  BY <1>1 DEF handlerVars, valueVars, StoredFirst, ReqValue, NotifiedValueIsRead
<1>2. CASE ReceiveStatus
  BY <1>0, <1>2 DEF ReceiveStatus, StoredFirst, ReqValue, NotifiedValueIsRead
<1>3. CASE StoreValue
  <2>1. PICK v \in hTodo, k \in Kinds :
          /\ k \in KindsOf[v] /\ hVal' = v /\ hKind' = k
          /\ dblVal' = IF IsNumber(k) THEN [dblVal EXCEPT ![v] = msgs] ELSE dblVal
          /\ boolVal' = IF k = "boolean" THEN [boolVal EXCEPT ![v] = msgs] ELSE boolVal
    BY <1>3 DEF StoreValue
  <2>2. v \in Values /\ told' = told /\ msgs' = msgs
    BY <1>3 DEF StoreValue, TypeOK
  <2>3. CASE IsNumber(k)
    <3>1. "boolean" \notin KindsOf[v]
      BY <2>1, <2>2, <2>3 DEF KindsKept
    <3> QED
      BY <1>0, <2>1, <2>2, <2>3, <3>1
      DEF StoredFirst, ReqValue, NotifiedValueIsRead, IsNumber
  <2>4. CASE k = "boolean"
    BY <1>0, <2>1, <2>2, <2>4 DEF StoredFirst, ReqValue, NotifiedValueIsRead, IsNumber
  <2>5. CASE k = "other"
    BY <1>0, <2>1, <2>2, <2>5 DEF StoredFirst, ReqValue, NotifiedValueIsRead, IsNumber
  <2> QED
    BY <2>3, <2>4, <2>5 DEF Kinds, IsNumber
<1>4. CASE NotifyValue
  BY <1>0, <1>4 DEF NotifyValue, StoredFirst, ReqValue, NotifiedValueIsRead
<1> QED
  BY <1>1, <1>2, <1>3, <1>4 DEF Next, HandlerStep, vars,
     ScriptStep, SpuriousWake, CallWait, EndScript, InsertVals, InsertTimes, Test,
     Block, DeleteVals, DeleteTimes, Leave, Reload, Tick, TimeThread, EditScripts,
     ReloadStep, Unsubscribe, SetTerminate, WakeVals, WakeTimes, Join, ClearVals,
     ClearTimes, Load, Spawn, SubscribeReload

\* As long as sensors keep the kinds of their values, a script that was notified
\* of a message finds this message's value or a later one with request_value,
\* although storing and notifying are two critical sections.
THEOREM NotifiedValuesAreRead ==
    ASSUME KindsKept
    PROVE  Spec => []NotifiedValueIsRead
<1>1. Spec => []StoredFirst
  BY TypeCorrect, StoredInit, StoredStep, PTL DEF Spec
<1>2. StoredFirst => NotifiedValueIsRead
  BY DEF StoredFirst
<1> QED
  BY <1>1, <1>2, PTL

-----------------------------------------------------------------------------
(* Nobody sleeps in vain.                                                  *)

LEMMA WakeInit == Init => WakeInv
BY DEF Init, StartOfMain, WakeInv, SleepersUnsatisfied, HitsAreCounted, WokenByStop, InScope,
   Asleep

\* What a step leaves of a script's wait, and of the phase of the reload.
LEMMA WakeKept ==
    ASSUME WakeInv, NEW s \in Scripts,
           wait'[s] = wait[s], num'[s] = num[s], hit'[s] = hit[s],
           pc'[s] \in InScope => pc[s] \in InScope,
           Asleep(s)' /\ s \notin missed' => Asleep(s) /\ s \notin missed,
           rpc' \in {"wakeTime", "join"} => rpc' = rpc
    PROVE  /\ pc'[s] \in InScope => Args(wait'[s]) # {}
           /\ Asleep(s)' /\ s \notin missed' => ~Satisfied(s)'
           /\ pc'[s] \in InScope => num'[s] >= Cardinality(hit'[s])
           /\ Asleep(s)' /\ s \notin missed' =>
                 /\ rpc' \in {"wakeTime", "join"} => DOMAIN wait'[s].val \subseteq hit'[s]
                 /\ rpc' = "join" => DOMAIN wait'[s].due \subseteq hit'[s]
<1>1. Satisfied(s)' <=> Satisfied(s)
  BY DEF Satisfied
<1> QED
  BY <1>1 DEF WakeInv, SleepersUnsatisfied, HitsAreCounted, WokenByStop

LEMMA WakeScript ==
    ASSUME TypeOK, Protocol, WakeInv, NEW s \in Scripts,
           ScriptStep(s) \/ SpuriousWake(s)
    PROVE  WakeInv'
<1>1. rpc' = rpc /\ UNCHANGED terminate
  BY DEF ScriptStep, SpuriousWake, CallWait, EndScript, InsertVals, InsertTimes,
     Test, Block, DeleteVals, DeleteTimes, Leave, reloadVars
<1>2. ASSUME NEW t \in Scripts, t # s
      PROVE  /\ wait'[t] = wait[t] /\ num'[t] = num[t] /\ hit'[t] = hit[t]
             /\ pc'[t] = pc[t]
             /\ t \in missed' <=> t \in missed
  BY <1>2 DEF TypeOK, ScriptStep, SpuriousWake, CallWait, EndScript, InsertVals,
     InsertTimes, Test, Block, DeleteVals, DeleteTimes, Leave, Goto, waitHistory
<1>3. ASSUME NEW t \in Scripts, t # s
      PROVE  Asleep(t)' /\ t \notin missed' => Asleep(t) /\ t \notin missed
  BY <1>2, <1>3 DEF Asleep
<1> DEFINE Kept(t) ==
        /\ pc'[t] \in InScope => Args(wait'[t]) # {}
        /\ Asleep(t)' /\ t \notin missed' => ~Satisfied(t)'
        /\ pc'[t] \in InScope => num'[t] >= Cardinality(hit'[t])
        /\ Asleep(t)' /\ t \notin missed' =>
              /\ rpc' \in {"wakeTime", "join"} => DOMAIN wait'[t].val \subseteq hit'[t]
              /\ rpc' = "join" => DOMAIN wait'[t].due \subseteq hit'[t]
<1>4. ASSUME NEW t \in Scripts, t # s PROVE Kept(t)
  <2>1. /\ wait'[t] = wait[t] /\ num'[t] = num[t] /\ hit'[t] = hit[t]
        /\ pc'[t] \in InScope => pc[t] \in InScope
    BY <1>2, <1>4
  <2> QED
    BY <1>1, <1>3, <1>4, <2>1, WakeKept
<1>5. Kept(s)
  <2>1. CASE CallWait(s)
    <3>1. pc'[s] = "insVal" /\ num'[s] = 0 /\ hit'[s] = {}
      BY <2>1 DEF CallWait, Goto, TypeOK
    <3>2. PICK r \in Requests[s] :
             wait' = [wait EXCEPT ![s] =
                        [or |-> r.or, val |-> r.val,
                         due |-> [p \in DOMAIN r.delay |-> now + r.delay[p]]]]
      BY <2>1 DEF CallWait
    <3>3. wait'[s].val = r.val /\ DOMAIN wait'[s].due = DOMAIN r.delay
      BY <3>2 DEF TypeOK
    <3>4. Args(wait'[s]) # {}
      BY <3>3, RequestAssumption DEF IsRequest, Args
    <3> QED
      BY <3>1, <3>4, FS_EmptySet DEF Asleep
  <2>2. CASE Test(s)
    <3>1. /\ pc[s] = "test"
          /\ pc'[s] = IF terminate \/ Satisfied(s) THEN "delVal" ELSE "sleep"
          /\ UNCHANGED <<wait, num, hit>>
      BY <2>2 DEF Test, TypeOK
    <3>2. Satisfied(s)' <=> Satisfied(s)
      BY <3>1 DEF Satisfied
    <3>3. rpc' \in {"wakeTime", "join"} => terminate
      BY <1>1 DEF Protocol, ReloadPhases
    <3>4. Asleep(s)' => ~terminate /\ ~Satisfied(s)
      BY <3>1 DEF Asleep
    <3> QED
      BY <3>1, <3>2, <3>3, <3>4 DEF WakeInv, HitsAreCounted, InScope
  <2>3. CASE ~CallWait(s) /\ ~Test(s)
    <3>1. /\ UNCHANGED <<wait, num, hit, missed>>
          /\ pc'[s] \in InScope => pc[s] \in InScope
      BY <2>3 DEF TypeOK, ScriptStep, SpuriousWake, EndScript, InsertVals,
         InsertTimes, Block, DeleteVals, DeleteTimes, Leave, Goto, waitHistory,
         InScope
    <3>2. Asleep(s)' => Asleep(s)
      BY <2>3 DEF TypeOK, ScriptStep, SpuriousWake, EndScript, InsertVals,
         InsertTimes, Block, DeleteVals, DeleteTimes, Leave, Goto, Asleep
    <3> QED
      BY <1>1, <3>1, <3>2, WakeKept
  <2> QED
    BY <2>1, <2>2, <2>3
<1> HIDE DEF Kept
<1>6. \A t \in Scripts : Kept(t)
  BY <1>4, <1>5
<1> QED
  BY <1>6 DEF Kept, WakeInv, SleepersUnsatisfied, HitsAreCounted, WokenByStop

\* Who still sleeps after a notification, and has not missed it, was not meant.
LEMMA NotMeant ==
    ASSUME TypeOK, NEW map, NEW K, Notify(map, K), NEW s \in Scripts,
           Asleep(s)', s \notin missed'
    PROVE  /\ Asleep(s) /\ s \notin missed /\ Fired(map, K, s) = {}
           /\ num'[s] = num[s]
<1>1. Asleep(s) /\ s \notin missed /\ Fired(map, K, s) = {}
  BY DEF Notify, Woken, Asleep
<1>2. num'[s] = num[s] + 0
  BY <1>1, NotifyEffect, FS_EmptySet
<1> QED
  BY <1>1, <1>2 DEF TypeOK

LEMMA CountGrows ==
    ASSUME NEW H, NEW F, NEW H2, H \subseteq Positions, F \subseteq Positions,
           H2 \subseteq H \cup F, NEW n \in Nat, n >= Cardinality(H)
    PROVE  n + Cardinality(F) >= Cardinality(H2)
<1>1. /\ Cardinality(H) \in Nat
      /\ Cardinality(H \cup F) = Cardinality(H) + Cardinality(F \ H)
  BY CountUnion
<1>2. IsFiniteSet(H \cup F) /\ IsFiniteSet(F)
  BY FiniteAssumption, FS_Subset
<1>3. Cardinality(F \ H) <= Cardinality(F) /\ Cardinality(H2) <= Cardinality(H \cup F)
  BY <1>2, FS_Subset
<1>4. /\ Cardinality(F) \in Nat /\ Cardinality(F \ H) \in Nat
      /\ Cardinality(H2) \in Nat
  BY <1>2, FS_Subset, FS_CardinalityType
<1> QED
  BY <1>1, <1>3, <1>4

\* The four wakers: each adds what it fires, and hits no more than that.
LEMMA WakeNotify ==
    ASSUME TypeOK, Protocol, WakeInv, NEW map, NEW K, Notify(map, K),
           wait' = wait,
           \A s \in Scripts : /\ hit[s] \subseteq hit'[s]
                              /\ hit'[s] \subseteq hit[s] \cup Fired(map, K, s)
                              /\ Fired(map, K, s) \subseteq Positions,
           \A s \in Scripts : Asleep(s) /\ s \notin missed /\ Fired(map, K, s) = {} =>
               /\ rpc' \in {"wakeTime", "join"} => DOMAIN wait[s].val \subseteq hit[s]
               /\ rpc' = "join" => DOMAIN wait[s].due \subseteq hit[s]
    PROVE  WakeInv'
<1>1. ASSUME NEW s \in Scripts
      PROVE  /\ pc'[s] = pc[s] \/ (pc[s] = "blocked" /\ pc'[s] = "test")
             /\ num'[s] = num[s] + Cardinality(Fired(map, K, s))
  BY NotifyEffect
<1>2. ASSUME NEW s \in Scripts, pc'[s] \in InScope
      PROVE  Args(wait'[s]) # {} /\ num'[s] >= Cardinality(hit'[s])
  <2>1. pc[s] \in InScope
    BY <1>1, <1>2 DEF InScope
  <2>2. num[s] >= Cardinality(hit[s]) /\ num[s] \in Nat
    BY <2>1 DEF WakeInv, HitsAreCounted, TypeOK
  <2>3. hit[s] \subseteq Positions
    BY ArgsArePositions
  <2>4. num[s] + Cardinality(Fired(map, K, s)) >= Cardinality(hit'[s])
    BY <2>2, <2>3, CountGrows
  <2> QED
    BY <1>1, <2>1, <2>4 DEF WakeInv
<1>3. ASSUME NEW s \in Scripts, Asleep(s)', s \notin missed'
      PROVE  /\ ~Satisfied(s)'
             /\ rpc' \in {"wakeTime", "join"} => DOMAIN wait'[s].val \subseteq hit'[s]
             /\ rpc' = "join" => DOMAIN wait'[s].due \subseteq hit'[s]
  <2>1. /\ Asleep(s) /\ s \notin missed /\ Fired(map, K, s) = {}
        /\ num'[s] = num[s]
    BY <1>3, NotMeant
  <2>2. ~Satisfied(s) /\ (Satisfied(s)' <=> Satisfied(s))
    BY <2>1 DEF WakeInv, SleepersUnsatisfied, Satisfied
  <2> QED
    BY <2>1, <2>2
<1> QED
  BY <1>2, <1>3 DEF WakeInv, SleepersUnsatisfied, HitsAreCounted, WokenByStop

LEMMA WakeNotifyValue == TypeOK /\ Protocol /\ WakeInv /\ NotifyValue => WakeInv'
<1> SUFFICES ASSUME TypeOK, Protocol, WakeInv, NotifyValue PROVE WakeInv'
  OBVIOUS
<1>1. Notify(valMap, {hVal}) /\ UNCHANGED <<wait, rpc>>
  BY DEF NotifyValue, reloadVars
<1>2. ASSUME NEW s \in Scripts
      PROVE  /\ hit[s] \subseteq hit'[s]
             /\ hit'[s] \subseteq hit[s] \cup Fired(valMap, {hVal}, s)
             /\ Fired(valMap, {hVal}, s) \subseteq Positions
  <2>1. hit'[s] = IF pc[s] \in ValRegistered
                  THEN hit[s] \cup {p \in DOMAIN wait[s].val : wait[s].val[p] = hVal}
                  ELSE hit[s]
    BY DEF NotifyValue, HitByValue
  <2>2. Fired(valMap, {hVal}, s) =
           IF pc[s] \in ValRegistered
           THEN {p \in DOMAIN wait[s].val : wait[s].val[p] \in {hVal}} \ hit[s]
           ELSE {}
    BY FiredVals
  <2>3. Fired(valMap, {hVal}, s) \subseteq Positions
    BY FiredIsFinite DEF TypeOK
  <2> QED
    BY <2>1, <2>2, <2>3
<1>3. ASSUME NEW s \in Scripts, Asleep(s), s \notin missed
      PROVE  /\ rpc' \in {"wakeTime", "join"} => DOMAIN wait[s].val \subseteq hit[s]
             /\ rpc' = "join" => DOMAIN wait[s].due \subseteq hit[s]
  BY <1>1, <1>3 DEF WakeInv, WokenByStop
<1> QED
  BY <1>1, <1>2, <1>3, WakeNotify

LEMMA WakeTimeThread == TypeOK /\ Protocol /\ WakeInv /\ TimeThread => WakeInv'
<1> SUFFICES ASSUME TypeOK, Protocol, WakeInv, TimeThread PROVE WakeInv'
  OBVIOUS
<1>1. Notify(timeMap, DuePoints) /\ UNCHANGED <<wait, rpc>>
  BY DEF TimeThread, reloadVars
<1>2. ASSUME NEW s \in Scripts
      PROVE  /\ hit[s] \subseteq hit'[s]
             /\ hit'[s] \subseteq hit[s] \cup Fired(timeMap, DuePoints, s)
             /\ Fired(timeMap, DuePoints, s) \subseteq Positions
  <2>1. hit'[s] = IF pc[s] \in TimeRegistered
                  THEN hit[s] \cup {p \in DOMAIN wait[s].due : wait[s].due[p] <= now}
                  ELSE hit[s]
    BY DEF TimeThread, HitByTime
  <2>2. Fired(timeMap, DuePoints, s) =
           IF pc[s] \in TimeRegistered
           THEN {p \in DOMAIN wait[s].due : wait[s].due[p] \in DuePoints} \ hit[s]
           ELSE {}
    BY FiredTimes
  <2>3. ASSUME pc[s] \in TimeRegistered, NEW p \in DOMAIN wait[s].due,
               wait[s].due[p] <= now, p \notin hit[s]
        PROVE  wait[s].due[p] \in DuePoints
    <3>1. Live(s, p, wait[s].due[p]) \in timeMap
      BY <2>3 DEF Protocol, LiveUntilHit
    <3>2. wait[s].due[p] \in AllKeys(timeMap)
      BY <3>1 DEF Live, AllKeys
    <3> QED
      BY <2>3, <3>2 DEF DuePoints
  <2>4. Fired(timeMap, DuePoints, s) \subseteq Positions
    BY FiredIsFinite DEF TypeOK
  <2> QED
    BY <2>1, <2>2, <2>3, <2>4
<1>3. ASSUME NEW s \in Scripts, Asleep(s), s \notin missed
      PROVE  /\ rpc' \in {"wakeTime", "join"} => DOMAIN wait[s].val \subseteq hit[s]
             /\ rpc' = "join" => DOMAIN wait[s].due \subseteq hit[s]
  BY <1>1, <1>3 DEF WakeInv, WokenByStop
<1> QED
  BY <1>1, <1>2, <1>3, WakeNotify

\* A sleeping script is in both maps: what stop_all finds no pointer of has
\* happened.
LEMMA UnfiredHasHappened ==
    ASSUME TypeOK, Protocol, NEW s \in Scripts, Asleep(s)
    PROVE  /\ Fired(valMap, AllKeys(valMap), s) = {} =>
                 DOMAIN wait[s].val \subseteq hit[s]
           /\ Fired(timeMap, AllKeys(timeMap), s) = {} =>
                 DOMAIN wait[s].due \subseteq hit[s]
<1>1. pc[s] \in ValRegistered /\ pc[s] \in TimeRegistered
  BY DEF Asleep, ValRegistered, TimeRegistered
<1>2. ASSUME NEW p \in DOMAIN wait[s].val, p \notin hit[s]
      PROVE  p \in Fired(valMap, AllKeys(valMap), s)
  <2>1. Live(s, p, wait[s].val[p]) \in valMap
    BY <1>1, <1>2 DEF Protocol, LiveUntilHit
  <2> QED
    BY <2>1 DEF Live, Fired, AllKeys
<1>3. ASSUME NEW p \in DOMAIN wait[s].due, p \notin hit[s]
      PROVE  p \in Fired(timeMap, AllKeys(timeMap), s)
  <2>1. Live(s, p, wait[s].due[p]) \in timeMap
    BY <1>1, <1>3 DEF Protocol, LiveUntilHit
  <2> QED
    BY <2>1 DEF Live, Fired, AllKeys
<1> QED
  BY <1>2, <1>3

LEMMA WakeStop ==
    TypeOK /\ Protocol /\ WakeInv /\ (WakeVals \/ WakeTimes) => WakeInv'
<1> SUFFICES ASSUME TypeOK, Protocol, WakeInv, WakeVals \/ WakeTimes PROVE WakeInv'
  OBVIOUS
<1>1. CASE WakeVals
  <2>1. /\ Notify(valMap, AllKeys(valMap)) /\ UNCHANGED <<wait, hit>>
        /\ rpc' = "wakeTime"
    BY <1>1 DEF WakeVals
  <2>2. \A s \in Scripts : Fired(valMap, AllKeys(valMap), s) \subseteq Positions
    BY FiredIsFinite DEF TypeOK
  <2>3. ASSUME NEW s \in Scripts, Asleep(s), s \notin missed,
               Fired(valMap, AllKeys(valMap), s) = {}
        PROVE  /\ rpc' \in {"wakeTime", "join"} => DOMAIN wait[s].val \subseteq hit[s]
               /\ rpc' = "join" => DOMAIN wait[s].due \subseteq hit[s]
    BY <2>1, <2>3, UnfiredHasHappened
  <2> QED
    BY <2>1, <2>2, <2>3, WakeNotify
<1>2. CASE WakeTimes
  <2>1. /\ Notify(timeMap, AllKeys(timeMap)) /\ UNCHANGED <<wait, hit>>
        /\ rpc = "wakeTime"
    BY <1>2 DEF WakeTimes
  <2>2. \A s \in Scripts : Fired(timeMap, AllKeys(timeMap), s) \subseteq Positions
    BY FiredIsFinite DEF TypeOK
  <2>3. ASSUME NEW s \in Scripts, Asleep(s), s \notin missed,
               Fired(timeMap, AllKeys(timeMap), s) = {}
        PROVE  /\ rpc' \in {"wakeTime", "join"} => DOMAIN wait[s].val \subseteq hit[s]
               /\ rpc' = "join" => DOMAIN wait[s].due \subseteq hit[s]
    <3>1. DOMAIN wait[s].val \subseteq hit[s]
      BY <2>1, <2>3 DEF WakeInv, WokenByStop
    <3>2. DOMAIN wait[s].due \subseteq hit[s]
      BY <2>3, UnfiredHasHappened
    <3> QED
      BY <3>1, <3>2
  <2> QED
    BY <2>1, <2>2, <2>3, WakeNotify
<1> QED
  BY <1>1, <1>2

\* All other steps leave the waits as they are and start no sleep.
LEMMA WakeOthers ==
    ASSUME TypeOK, WakeInv,
           \/ ReceiveStatus \/ StoreValue \/ Reload \/ Tick \/ EditScripts
           \/ Unsubscribe \/ SetTerminate \/ Join \/ ClearVals \/ ClearTimes
           \/ Load \/ Spawn \/ SubscribeReload \/ UNCHANGED vars
    PROVE  WakeInv'
<1>1. /\ UNCHANGED <<wait, num, hit, missed>>
      /\ rpc' \in {"wakeTime", "join"} => rpc' = rpc
  BY DEF ReceiveStatus, StoreValue, Reload, Tick, EditScripts, Unsubscribe,
     SetTerminate, Join, ClearVals, ClearTimes, Load, Spawn, SubscribeReload,
     vars, scriptVars, reloadVars, waitHistory
<1>2. \A s \in Scripts : pc'[s] = pc[s] \/ pc'[s] \in {"none", "lua"}
  BY DEF TypeOK, ReceiveStatus, StoreValue, Reload, Tick, EditScripts, Unsubscribe,
     SetTerminate, Join, ClearVals, ClearTimes, Load, Spawn, SubscribeReload,
     vars, scriptVars
<1>3. ASSUME NEW s \in Scripts
      PROVE  /\ pc'[s] \in InScope => pc[s] \in InScope
             /\ Asleep(s)' /\ s \notin missed' => Asleep(s) /\ s \notin missed
             /\ wait'[s] = wait[s] /\ num'[s] = num[s] /\ hit'[s] = hit[s]
  BY <1>1, <1>2 DEF Asleep, InScope
<1>4. ASSUME NEW s \in Scripts
      PROVE  /\ pc'[s] \in InScope => Args(wait'[s]) # {}
             /\ Asleep(s)' /\ s \notin missed' => ~Satisfied(s)'
             /\ pc'[s] \in InScope => num'[s] >= Cardinality(hit'[s])
             /\ Asleep(s)' /\ s \notin missed' =>
                   /\ rpc' \in {"wakeTime", "join"} => DOMAIN wait'[s].val \subseteq hit'[s]
                   /\ rpc' = "join" => DOMAIN wait'[s].due \subseteq hit'[s]
  BY <1>1, <1>3, WakeKept
<1> QED
  BY <1>4 DEF WakeInv, SleepersUnsatisfied, HitsAreCounted, WokenByStop

LEMMA WakeStep == TypeOK /\ Protocol /\ WakeInv /\ [Next]_vars => WakeInv'
<1> SUFFICES ASSUME TypeOK, Protocol, WakeInv, [Next]_vars PROVE WakeInv'
  OBVIOUS
<1>1. CASE \E s \in Scripts : ScriptStep(s) \/ SpuriousWake(s)
  BY <1>1, WakeScript
<1>2. CASE NotifyValue
  BY <1>2, WakeNotifyValue
<1>3. CASE TimeThread
  BY <1>3, WakeTimeThread
<1>4. CASE WakeVals \/ WakeTimes
  BY <1>4, WakeStop
<1>5. CASE \/ ReceiveStatus \/ StoreValue \/ Reload \/ Tick \/ EditScripts
           \/ Unsubscribe \/ SetTerminate \/ Join \/ ClearVals \/ ClearTimes
           \/ Load \/ Spawn \/ SubscribeReload \/ UNCHANGED vars
  BY <1>5, WakeOthers
<1> QED
  BY <1>1, <1>2, <1>3, <1>4, <1>5 DEF Next, HandlerStep, ReloadStep

-----------------------------------------------------------------------------
\* Every sleeper had an unsatisfied predicate when it last looked, its count has not
\* changed since, and after stop_all's wake-ups it has nothing left to be woken by.
THEOREM WakeHolds == Spec => [](IInv /\ WakeInv)
<1>1. Init => WakeInv
  BY WakeInit
<1>2. IInv /\ WakeInv /\ [Next]_vars => WakeInv'
  BY WakeStep DEF IInv, Protocol
<1> QED
  BY <1>1, <1>2, ProtocolHolds, PTL DEF Spec

\* A call with all it waits for would pass the predicate.
LEMMA EnoughIsSatisfied ==
    ASSUME TypeOK, WakeInv, NEW s \in Scripts, Asleep(s), Fulfilled(s)
    PROVE  Satisfied(s)
<1>1. Args(wait[s]) # {} /\ num[s] >= Cardinality(hit[s])
  BY DEF WakeInv, HitsAreCounted, Asleep, InScope
<1>2. /\ hit[s] \subseteq Positions /\ IsFiniteSet(hit[s])
      /\ Cardinality(hit[s]) \in Nat /\ num[s] \in Nat
  BY ArgsArePositions, FiniteAssumption, FS_Subset, FS_CardinalityType DEF TypeOK
<1>3. hit[s] # {}
  BY <1>1 DEF Fulfilled
<1>4. Cardinality(hit[s]) # 0
  BY <1>2, <1>3, FS_EmptySet
<1> QED
  BY <1>1, <1>2, <1>4 DEF Fulfilled, Satisfied

\* Only a notification that falls between a thread's look at its predicate and its
\* blocking can leave a fulfilled wait asleep.
THEOREM NobodySleepsInVain == Spec => []NoneSleepsInVain
<1>1. IInv /\ WakeInv => NoneSleepsInVain
  <2> SUFFICES ASSUME IInv, WakeInv, NEW s \in Scripts, Asleep(s), s \notin missed
               PROVE  ~Fulfilled(s)
    BY DEF NoneSleepsInVain
  <2>1. ~Satisfied(s)
    BY DEF WakeInv, SleepersUnsatisfied
  <2> QED
    BY <2>1, EnoughIsSatisfied DEF IInv
<1> QED
  BY <1>1, WakeHolds, PTL

\* When stop_all comes to join the script threads, it has woken each of them but
\* those that missed a notification in that gap.
THEOREM StopWakesEverybody == Spec => []StopWakesAll
<1>1. IInv /\ WakeInv => StopWakesAll
  <2> SUFFICES ASSUME IInv, WakeInv, rpc = "join", NEW s \in Scripts, Asleep(s),
                      s \notin missed
               PROVE  FALSE
    BY DEF StopWakesAll
  <2>1. hit[s] = Args(wait[s]) /\ Args(wait[s]) # {}
    BY DEF WakeInv, WokenByStop, IInv, HitsAreArgs, Asleep, InScope, Args
  <2>2. Fulfilled(s)
    BY <2>1 DEF Fulfilled
  <2>3. ~Satisfied(s)
    BY DEF WakeInv, SleepersUnsatisfied
  <2> QED
    BY <2>2, <2>3, EnoughIsSatisfied DEF IInv
<1> QED
  BY <1>1, WakeHolds, PTL

-----------------------------------------------------------------------------
(* The refinement of ScriptEngine.                                         *)

LEMMA PhasesInit == Init => FlagPhase /\ StorePhase
BY DEF Init, StartOfMain, FlagPhase, StorePhase

LEMMA PhasesStep ==
    FlagPhase /\ StorePhase /\ [Next]_vars => FlagPhase' /\ StorePhase'
<1> SUFFICES ASSUME FlagPhase, StorePhase, [Next]_vars
             PROVE  FlagPhase' /\ StorePhase'
  OBVIOUS
<1> USE DEF FlagPhase, StorePhase, reloadVars
<1>1. CASE \E s \in Scripts : ScriptStep(s) \/ SpuriousWake(s)
  BY <1>1 DEF ScriptStep, SpuriousWake, CallWait, EndScript,
     InsertVals, InsertTimes, Test, Block, DeleteVals, DeleteTimes, Leave
<1>2. CASE ReceiveStatus \/ HandlerStep \/ Tick \/ TimeThread \/ EditScripts
  BY <1>2 DEF ReceiveStatus, HandlerStep, StoreValue, NotifyValue, Tick,
     TimeThread, EditScripts
<1>3. CASE Reload
  BY <1>3 DEF Reload
<1>4. CASE ReloadStep
  BY <1>4 DEF ReloadStep, Unsubscribe, SetTerminate, WakeVals, WakeTimes,
     Join, ClearVals, ClearTimes, Load, Spawn, SubscribeReload
<1>5. CASE UNCHANGED vars
  BY <1>5 DEF vars
<1> QED
  BY <1>1, <1>2, <1>3, <1>4, <1>5 DEF Next

-----------------------------------------------------------------------------
(* What the multimaps hold of a wait call, said without them.              *)

Registered(s) ==
    (IF pc[s] \in ValRegistered THEN DOMAIN wait[s].val ELSE {})
    \cup (IF pc[s] \in TimeRegistered THEN DOMAIN wait[s].due ELSE {})

LEMMA LiveArgsAre == IInv => \A s \in Scripts : LiveArgs(s) = Registered(s) \ hit[s]
<1> SUFFICES ASSUME IInv, NEW s \in Scripts
             PROVE  LiveArgs(s) = Registered(s) \ hit[s]
  OBVIOUS
<1>0. TypeOK /\ Protocol
  BY DEF IInv, Protocol
<1>1. LiveArgs(s) = Fired(valMap, Values, s) \cup Fired(timeMap, Nat, s)
  BY <1>0 DEF LiveArgs, Fired, TypeOK, Entry
<1>2. /\ \A p \in DOMAIN wait[s].val : wait[s].val[p] \in Values
      /\ \A p \in DOMAIN wait[s].due : wait[s].due[p] \in Nat
  BY <1>0 DEF TypeOK, IsWait, IsArgs
<1>3. Fired(valMap, Values, s) =
        IF pc[s] \in ValRegistered THEN DOMAIN wait[s].val \ hit[s] ELSE {}
  BY <1>0, <1>2, FiredVals
<1>4. Fired(timeMap, Nat, s) =
        IF pc[s] \in TimeRegistered THEN DOMAIN wait[s].due \ hit[s] ELSE {}
  BY <1>0, <1>2, FiredTimes
<1> QED
  BY <1>1, <1>3, <1>4 DEF Registered

\* The refinement mapping in both states of a step, without the multimaps.
LEMMA Mapping ==
    IInv /\ IInv' =>
      \A s \in Scripts : /\ LiveArgs(s) = Registered(s) \ hit[s]
                         /\ LiveArgs(s)' = Registered(s)' \ hit'[s]
<1>1. (IInv => \A s \in Scripts : LiveArgs(s) = Registered(s) \ hit[s])'
  BY LiveArgsAre, PTL
<1> QED
  BY <1>1, LiveArgsAre

LEMMA EngineInit == Init => Engine!Init
<1> SUFFICES ASSUME Init PROVE Engine!Init
  OBVIOUS
<1>1. \A s \in Scripts : ScriptState(s) = "none" /\ LiveArgs(s) = {}
  BY DEF Init, StartOfMain, ScriptState, LiveArgs
<1>2. ReloadPhase = "stopped"
  BY DEF Init, StartOfMain, ReloadPhase
<1> QED
  BY <1>1, <1>2 DEF Init, StartOfMain, Engine!Init, Engine!NoCall, NoWait, NoArgs

-----------------------------------------------------------------------------
(* Every step of exe_service is a step of the script engine.               *)

\* The steps of a script change the mapped state of that script only.
LEMMA OthersKept ==
    ASSUME RInv, RInv', NEW s \in Scripts, ScriptStep(s) \/ SpuriousWake(s)
    PROVE  /\ \A t \in Scripts \ {s} : /\ ScriptState(t)' = ScriptState(t)
                                      /\ LiveArgs(t)' = LiveArgs(t)
           /\ ReloadPhase' = ReloadPhase
           /\ UNCHANGED <<store, now, rpc, terminate>>
<1>1. /\ \A t \in Scripts \ {s} : /\ pc'[t] = pc[t]
                                 /\ wait'[t] = wait[t]
                                 /\ hit'[t] = hit[t]
      /\ UNCHANGED <<store, now, rpc, terminate>>
  BY DEF RInv, IInv, TypeOK, ScriptStep, SpuriousWake, CallWait, EndScript,
     InsertVals, InsertTimes, Test, Block, DeleteVals, DeleteTimes, Leave,
     Goto, waitHistory, reloadVars
<1>2. \A t \in Scripts : /\ LiveArgs(t) = Registered(t) \ hit[t]
                         /\ LiveArgs(t)' = Registered(t)' \ hit'[t]
  BY Mapping DEF RInv
<1> QED
  BY <1>1, <1>2 DEF ScriptState, Registered, ReloadPhase

LEMMA EngineScript ==
    ASSUME RInv, RInv', NEW s \in Scripts, ScriptStep(s) \/ SpuriousWake(s)
    PROVE  [Engine!Next]_Engine!vars
<1> DEFINE State == [t \in Scripts |-> ScriptState(t)]
           Pending == [t \in Scripts |-> LiveArgs(t)]
<1> USE DEF Goto, waitHistory
<1>0. /\ pc \in [Scripts -> PCs]
      /\ hit \in [Scripts -> SUBSET Positions]
      /\ wait = [t \in Scripts |-> wait[t]]
  BY DEF RInv, IInv, TypeOK
<1>1. /\ ReloadPhase' = ReloadPhase
      /\ UNCHANGED <<store, now, rpc, terminate>>
  BY OthersKept
<1>2. State' = [State EXCEPT ![s] = ScriptState(s)']
  BY OthersKept
<1>3. Pending' = [Pending EXCEPT ![s] = LiveArgs(s)']
  BY OthersKept
<1>4. /\ LiveArgs(s) = Registered(s) \ hit[s]
      /\ LiveArgs(s)' = Registered(s)' \ hit'[s]
  BY Mapping DEF RInv
<1>5. pc[s] # "none" /\ rpc \notin {"clearVal", "clearTime", "load"}
  BY <1>0 DEF RInv, IInv, ReloadPhases, ScriptStep, SpuriousWake, CallWait,
     EndScript, InsertVals, InsertTimes, Test, Block, DeleteVals, DeleteTimes,
     Leave
<1>6. terminate => ReloadPhase = "stopping"
  BY <1>5 DEF RInv, FlagPhase, ReloadPhase
<1>7. ~terminate => ReloadPhase # "stopping"
  BY <1>5 DEF RInv, IInv, ReloadPhases, ReloadPhase, TypeOK
<1> HIDE DEF State, Pending
<1>10. CASE CallWait(s)
  <2>1. /\ ScriptState(s) = "running"
        /\ ScriptState(s)' = "waiting"
        /\ Registered(s) = {} /\ Registered(s)' = {}
    BY <1>0, <1>10 DEF CallWait, ScriptState, Registered, ValRegistered,
       TimeRegistered
  <2>2. Pending' = Pending
    BY <1>3, <1>4, <2>1 DEF Pending
  <2>3. /\ State[s] = "running"
        /\ State' = [State EXCEPT ![s] = "waiting"]
    BY <1>2, <2>1 DEF State
  <2>4. Engine!Call(s)
    BY <1>1, <1>10, <2>2, <2>3 DEF CallWait, Engine!Call, State, Pending
  <2> QED
    BY <2>4 DEF Engine!Next
<1>11. CASE EndScript(s)
  <2>1. /\ ScriptState(s) = "running"
        /\ ScriptState(s)' = "ended"
        /\ Registered(s) = {} /\ Registered(s)' = {}
    BY <1>0, <1>11 DEF EndScript, ScriptState, Registered, ValRegistered,
       TimeRegistered
  <2>2. Pending' = Pending
    BY <1>3, <1>4, <2>1 DEF Pending
  <2>3. /\ State[s] = "running"
        /\ State' = [State EXCEPT ![s] = "ended"]
    BY <1>2, <2>1 DEF State
  <2>4. Engine!End(s)
    BY <1>1, <1>11, <2>2, <2>3 DEF EndScript, Engine!End, State, Pending
  <2> QED
    BY <2>4 DEF Engine!Next
<1>12. CASE InsertVals(s) \/ InsertTimes(s)
  <2>1. /\ ScriptState(s) = "waiting" /\ ScriptState(s)' = "waiting"
        /\ UNCHANGED <<wait, hit>>
    BY <1>0, <1>12 DEF InsertVals, InsertTimes, ScriptState
  <2>2. /\ Registered(s) \subseteq Registered(s)'
        /\ Registered(s)' \subseteq Args(wait[s])
    BY <1>0, <1>12 DEF InsertVals, InsertTimes, Registered, ValRegistered,
       TimeRegistered, Args
  <2> DEFINE new == Registered(s)' \ hit[s]
  <2>3. /\ new \in SUBSET (Args(wait[s]) \ hit[s])
        /\ Pending' = [Pending EXCEPT ![s] = Pending[s] \cup new]
    BY <1>3, <1>4, <2>1, <2>2 DEF Pending
  <2>4. State[s] = "waiting" /\ State' = State
    BY <1>2, <2>1 DEF State
  <2>5. Engine!Listen(s)
    BY <1>1, <2>1, <2>3, <2>4 DEF Engine!Listen, Engine!Args, Args, State, Pending
  <2> QED
    BY <2>5 DEF Engine!Next
<1>13. CASE Test(s) \/ Block(s) \/ SpuriousWake(s)
  <2>1. /\ ScriptState(s) = "waiting" /\ ScriptState(s)' = "waiting"
        /\ Registered(s)' = Registered(s)
        /\ UNCHANGED <<wait, hit>>
    BY <1>0, <1>13 DEF Test, Block, SpuriousWake, ScriptState, Registered,
       ValRegistered, TimeRegistered
  <2>2. Pending' = Pending /\ State' = State
    BY <1>2, <1>3, <1>4, <2>1 DEF Pending, State
  <2> QED
    BY <1>1, <2>1, <2>2 DEF Engine!vars, State, Pending
<1>14. CASE DeleteVals(s) \/ DeleteTimes(s)
  <2>1. /\ ScriptState(s) = "waiting" /\ ScriptState(s)' = "waiting"
        /\ UNCHANGED <<wait, hit>>
    BY <1>0, <1>14 DEF DeleteVals, DeleteTimes, ScriptState
  <2>2. Registered(s)' \subseteq Registered(s)
    BY <1>0, <1>14 DEF DeleteVals, DeleteTimes, Registered, ValRegistered,
       TimeRegistered
  <2>3. LiveArgs(s)' \in SUBSET LiveArgs(s)
    BY <1>4, <2>1, <2>2
  <2>4. Pending' = [Pending EXCEPT ![s] = LiveArgs(s)'] /\ Pending[s] = LiveArgs(s)
    BY <1>3 DEF Pending
  <2>5. State[s] = "waiting" /\ State' = State
    BY <1>2, <2>1 DEF State
  <2>6. Fulfilled(s) \/ ReloadPhase = "stopping"
    BY <1>6, <1>14 DEF RInv, IInv, PassedFulfilled, DeleteVals, DeleteTimes
  <2>7. Engine!Close(s)
    BY <1>1, <2>1, <2>3, <2>4, <2>5, <2>6
       DEF Engine!Close, Engine!Fulfilled, Engine!Args, Fulfilled, Args, State, Pending
  <2> QED
    BY <2>7 DEF Engine!Next
<1>15. CASE Leave(s)
  <2>1. /\ ScriptState(s) = "waiting"
        /\ ScriptState(s)' = IF terminate THEN "ended" ELSE "running"
        /\ Registered(s) = {} /\ Registered(s)' = {}
        /\ UNCHANGED <<wait, hit>>
    BY <1>0, <1>15 DEF Leave, ScriptState, Registered, ValRegistered,
       TimeRegistered
  <2>2. Pending' = Pending /\ Pending[s] = {}
    BY <1>3, <1>4, <2>1 DEF Pending
  <2>3. /\ State[s] = "waiting"
        /\ State' = [State EXCEPT ![s] = IF terminate THEN "ended" ELSE "running"]
    BY <1>2, <2>1 DEF State
  <2>4. CASE terminate
    <3>1. Engine!BreakOff(s)
      BY <1>1, <1>6, <2>1, <2>2, <2>3, <2>4 DEF Engine!BreakOff, State, Pending
    <3> QED
      BY <3>1 DEF Engine!Next
  <2>5. CASE ~terminate
    <3>1. Fulfilled(s)
      BY <1>15, <2>5 DEF Leave, RInv, IInv, PassedFulfilled
    <3>2. Engine!Return(s)
      BY <1>1, <1>7, <2>1, <2>2, <2>3, <2>5, <3>1
         DEF Engine!Return, Engine!Fulfilled, Engine!Args, Fulfilled, Args, State, Pending
    <3> QED
      BY <3>2 DEF Engine!Next
  <2> QED
    BY <2>4, <2>5
<1> QED
  BY <1>10, <1>11, <1>12, <1>13, <1>14, <1>15 DEF ScriptStep

\* A waker maps to the delivery of its event to all who listen to it.
LEMMA EngineEvents ==
    ASSUME RInv, RInv', NotifyValue \/ TimeThread
    PROVE  [Engine!Next]_Engine!vars
<1> DEFINE State == [t \in Scripts |-> ScriptState(t)]
           Pending == [t \in Scripts |-> LiveArgs(t)]
<1>0. /\ TypeOK
      /\ \A s \in Scripts : DOMAIN wait[s].val \cap DOMAIN wait[s].due = {}
  BY DEF RInv, IInv, TypeOK, IsWait
<1>1. \A s \in Scripts :
         /\ LiveArgs(s) = Registered(s) \ hit[s]
         /\ LiveArgs(s)' = Registered(s)' \ hit'[s]
  BY Mapping DEF RInv
<1>2. /\ \A s \in Scripts : pc'[s] = pc[s] \/ (pc[s] = "blocked" /\ pc'[s] = "test")
      /\ UNCHANGED <<wait, store, rpc, now>>
  BY <1>0, NotifyEffect DEF NotifyValue, TimeThread, reloadVars
<1>3. /\ State' = State
      /\ ReloadPhase' = ReloadPhase
      /\ \A s \in Scripts : Registered(s)' = Registered(s)
  BY <1>2 DEF State, ScriptState, ReloadPhase, Registered, ValRegistered,
     TimeRegistered
<1> HIDE DEF State
<1>4. CASE NotifyValue
  <2> DEFINE Heard(s) == {p \in LiveArgs(s) :
                             p \in DOMAIN wait[s].val /\ wait[s].val[p] = hVal}
  <2>1. \A s \in Scripts : hit'[s] = hit[s] \cup Heard(s)
    <3> SUFFICES ASSUME NEW s \in Scripts PROVE hit'[s] = hit[s] \cup Heard(s)
      OBVIOUS
    <3>1. hit'[s] = IF pc[s] \in ValRegistered
                    THEN hit[s] \cup {p \in DOMAIN wait[s].val : wait[s].val[p] = hVal}
                    ELSE hit[s]
      BY <1>4 DEF NotifyValue, HitByValue
    <3> QED
      BY <3>1, <1>0, <1>1 DEF Registered
  <2>2. hit' = [s \in Scripts |-> hit[s] \cup Heard(s)]
    BY <1>4, <2>1 DEF NotifyValue, HitByValue
  <2>3. \A s \in Scripts : LiveArgs(s)' = LiveArgs(s) \ Heard(s)
    BY <1>1, <1>3, <2>1
  <2>4. hVal \in Values
    BY <1>0, <1>4 DEF TypeOK, NotifyValue
  <2>5. Engine!ValueEvent(hVal)
    BY <1>2, <1>3, <2>2, <2>3 DEF Engine!ValueEvent, Engine!Deliver, State
  <2> QED
    BY <2>4, <2>5 DEF Engine!Next
<1>5. CASE TimeThread
  <2> DEFINE Heard(s) == {p \in LiveArgs(s) :
                             p \in DOMAIN wait[s].due /\ wait[s].due[p] <= now}
  <2>1. \A s \in Scripts : hit'[s] = hit[s] \cup Heard(s)
    <3> SUFFICES ASSUME NEW s \in Scripts PROVE hit'[s] = hit[s] \cup Heard(s)
      OBVIOUS
    <3>1. hit'[s] = IF pc[s] \in TimeRegistered
                    THEN hit[s] \cup {p \in DOMAIN wait[s].due : wait[s].due[p] <= now}
                    ELSE hit[s]
      BY <1>5 DEF TimeThread, HitByTime
    <3> QED
      BY <3>1, <1>0, <1>1 DEF Registered
  <2>2. hit' = [s \in Scripts |-> hit[s] \cup Heard(s)]
    BY <1>5, <2>1 DEF TimeThread, HitByTime
  <2>3. \A s \in Scripts : LiveArgs(s)' = LiveArgs(s) \ Heard(s)
    BY <1>1, <1>3, <2>1
  <2>4. Engine!TimeEvent
    BY <1>2, <1>3, <2>2, <2>3 DEF Engine!TimeEvent, Engine!Deliver, State
  <2> QED
    BY <2>4 DEF Engine!Next
<1> QED
  BY <1>4, <1>5

\* Steps that leave the scripts and their hits alone leave what they listen
\* to: stop_all's wakers count, but fire nothing.
LEMMA PendingKept ==
    ASSUME RInv, RInv', UNCHANGED <<wait, hit>>,
           \A s \in Scripts : pc'[s] = pc[s]
                            \/ (pc[s] = "blocked" /\ pc'[s] = "test")
    PROVE  /\ [s \in Scripts |-> LiveArgs(s)]' = [s \in Scripts |-> LiveArgs(s)]
           /\ [s \in Scripts |-> ScriptState(s)]' = [s \in Scripts |-> ScriptState(s)]
<1>1. \A s \in Scripts :
         /\ LiveArgs(s) = Registered(s) \ hit[s]
         /\ LiveArgs(s)' = Registered(s)' \ hit'[s]
  BY Mapping DEF RInv
<1>2. \A s \in Scripts : Registered(s)' = Registered(s)
  BY DEF Registered, ValRegistered, TimeRegistered
<1>3. \A s \in Scripts : ScriptState(s)' = ScriptState(s)
  BY DEF ScriptState
<1> QED
  BY <1>1, <1>2, <1>3

LEMMA EngineReload ==
    ASSUME RInv, RInv', ReloadStep
    PROVE  [Engine!Next]_Engine!vars
<1> DEFINE State == [s \in Scripts |-> ScriptState(s)]
           Pending == [s \in Scripts |-> LiveArgs(s)]
<1>0. TypeOK
  BY DEF RInv, IInv
<1>woken. WakeVals \/ WakeTimes =>
             \A s \in Scripts : pc'[s] = pc[s] \/ (pc[s] = "blocked" /\ pc'[s] = "test")
  BY <1>0, NotifyEffect DEF WakeVals, WakeTimes
<1>kept. ~(Join \/ Spawn) => /\ UNCHANGED <<wait, hit, now>>
                             /\ State' = State
                             /\ Pending' = Pending
  <2> SUFFICES ASSUME ~(Join \/ Spawn)
               PROVE  /\ UNCHANGED <<wait, hit, now>>
                      /\ State' = State
                      /\ Pending' = Pending
    OBVIOUS
  <2>1. UNCHANGED <<wait, hit, now>> /\ (WakeVals \/ WakeTimes \/ UNCHANGED pc)
    BY DEF ReloadStep, Unsubscribe, SetTerminate, WakeVals, WakeTimes,
       ClearVals, ClearTimes, Load, SubscribeReload, scriptVars, waitHistory
  <2>2. \A s \in Scripts : pc'[s] = pc[s] \/ (pc[s] = "blocked" /\ pc'[s] = "test")
    BY <1>woken, <2>1
  <2> QED
    BY <2>1, <2>2, PendingKept
<1> HIDE DEF State, Pending
<1> USE DEF scriptVars, mapVars, reloadVars, waitHistory, ReloadPhase
<1>apart. Unsubscribe \/ SetTerminate \/ WakeVals \/ WakeTimes \/ ClearVals
             \/ ClearTimes \/ Load \/ SubscribeReload => ~(Join \/ Spawn)
  BY DEF Unsubscribe, SetTerminate, WakeVals, WakeTimes, ClearVals, ClearTimes,
     Load, SubscribeReload, Join, Spawn
<1>1. CASE Unsubscribe
  BY <1>1, <1>kept, <1>apart DEF Unsubscribe, Engine!vars, State, Pending
<1>2. CASE SetTerminate
  <2>1. Engine!Stop
    BY <1>2, <1>kept, <1>apart DEF SetTerminate, Engine!Stop, State, Pending
  <2> QED
    BY <2>1 DEF Engine!Next
<1>3. CASE WakeVals \/ WakeTimes
  BY <1>3, <1>kept, <1>apart DEF WakeVals, WakeTimes, Engine!vars, State, Pending
<1>4. CASE Join
  <2>1. \A s \in Scripts :
           /\ pc[s] \in {"none", "done"}
           /\ pc'[s] = "none"
           /\ LiveArgs(s) = Registered(s) \ hit[s]
           /\ LiveArgs(s)' = Registered(s)' \ hit'[s]
    BY <1>4, Mapping DEF Join, Ended, RInv
  <2>2. \A s \in Scripts : /\ LiveArgs(s) = {} /\ LiveArgs(s)' = {}
                          /\ ScriptState(s) \in {"none", "ended"}
                          /\ ScriptState(s)' = "none"
    BY <2>1 DEF Registered, ValRegistered, TimeRegistered, ScriptState
  <2>3. Engine!Reap
    BY <1>4, <2>2 DEF Join, Engine!Reap
  <2> QED
    BY <2>3 DEF Engine!Next
<1>5. CASE ClearVals \/ ClearTimes
  BY <1>5, <1>kept, <1>apart DEF ClearVals, ClearTimes, Engine!vars, State, Pending
<1>6. CASE Load
  <2>1. store' \in SUBSET Scripts
    BY <1>0, <1>6 DEF Load, TypeOK
  <2>2. Engine!Choose
    BY <1>6, <1>kept, <1>apart, <2>1 DEF Load, Engine!Choose, State, Pending
  <2> QED
    BY <2>2 DEF Engine!Next
<1>7. CASE Spawn
  <2>1. PICK s \in store :
           /\ store' = store \ {s}
           /\ pc' = IF s \in LoadRejects THEN pc ELSE [pc EXCEPT ![s] = "lua"]
    BY <1>7 DEF Spawn
  <2>2. s \in Scripts /\ pc[s] = "none"
    BY <1>0, <1>7 DEF Spawn, TypeOK, RInv, IInv, ReloadPhases
  <2>3. \A t \in Scripts :
           /\ LiveArgs(t) = Registered(t) \ hit[t]
           /\ LiveArgs(t)' = Registered(t)' \ hit'[t]
    BY Mapping DEF RInv
  <2>4. \A t \in Scripts : LiveArgs(t)' = LiveArgs(t)
    BY <1>0, <1>7, <2>1, <2>2, <2>3
       DEF Spawn, TypeOK, Registered, ValRegistered, TimeRegistered
  <2>5. /\ ScriptState(s) = "none"
        /\ ScriptState(s)' \in {"none", "running"}
        /\ \A t \in Scripts \ {s} : ScriptState(t)' = ScriptState(t)
    BY <1>0, <2>1, <2>2 DEF ScriptState, TypeOK
  <2>6. Engine!Start(s)
    BY <1>7, <2>1, <2>2, <2>4, <2>5 DEF Spawn, Engine!Start
  <2> QED
    BY <2>2, <2>6 DEF Engine!Next
<1>8. CASE SubscribeReload
  <2>1. Engine!Started
    BY <1>8, <1>kept, <1>apart DEF SubscribeReload, Engine!Started, State, Pending
  <2> QED
    BY <2>1 DEF Engine!Next
<1> QED
  BY <1>1, <1>2, <1>3, <1>4, <1>5, <1>6, <1>7, <1>8 DEF ReloadStep

LEMMA EngineOthers ==
    ASSUME RInv, RInv',
           ReceiveStatus \/ StoreValue \/ Reload \/ Tick \/ EditScripts \/ UNCHANGED vars
    PROVE  [Engine!Next]_Engine!vars
<1> USE DEF vars, scriptVars, mapVars, reloadVars, waitHistory
<1>1. /\ UNCHANGED <<pc, wait, hit, store>>
      /\ ReloadPhase' = ReloadPhase
  BY DEF ReceiveStatus, StoreValue, Reload, Tick, EditScripts, ReloadPhase
<1> DEFINE State == [s \in Scripts |-> ScriptState(s)]
           Pending == [s \in Scripts |-> LiveArgs(s)]
<1>kept. State' = State /\ Pending' = Pending
  BY <1>1, PendingKept
<1> HIDE DEF State, Pending
<1>2. CASE Tick
  <2>1. Engine!Tick
    BY <1>1, <1>2, <1>kept DEF Tick, Engine!Tick, State, Pending
  <2> QED
    BY <2>1 DEF Engine!Next
<1>3. CASE ~Tick
  <2>1. now' = now
    BY <1>3 DEF ReceiveStatus, StoreValue, Reload, EditScripts
  <2> QED
    BY <1>1, <1>kept, <2>1 DEF Engine!vars, State, Pending
<1> QED
  BY <1>2, <1>3

LEMMA EngineStep == RInv /\ RInv' /\ [Next]_vars => [Engine!Next]_Engine!vars
<1> SUFFICES ASSUME RInv, RInv', [Next]_vars PROVE [Engine!Next]_Engine!vars
  OBVIOUS
<1>1. CASE \E s \in Scripts : ScriptStep(s) \/ SpuriousWake(s)
  BY <1>1, EngineScript
<1>2. CASE NotifyValue \/ TimeThread
  BY <1>2, EngineEvents
<1>3. CASE ReloadStep
  BY <1>3, EngineReload
<1>4. CASE ReceiveStatus \/ StoreValue \/ Reload \/ Tick \/ EditScripts \/ UNCHANGED vars
  BY <1>4, EngineOthers
<1> QED
  BY <1>1, <1>2, <1>3, <1>4 DEF Next, HandlerStep

-----------------------------------------------------------------------------
\* The phases of a reload as the scripts see them: the terminate flag is up only
\* between stop_all (mq_exe_daemon.cpp:162) and the reset in start_all (:148), and
\* scripts are listed only while start_all starts them.
THEOREM PhasesHold == Spec => []RInv
<1>1. Spec => [](FlagPhase /\ StorePhase)
  BY PhasesInit, PhasesStep, PTL DEF Spec
<1> QED
  BY <1>1, ProtocolHolds, PTL DEF RInv

\* The maps, pointers and condition variables of exe_service keep the promises
\* of ScriptEngine, for any scripts and any wait calls.
THEOREM EngineImplemented == Spec => EngineSpec
BY PhasesHold, EngineInit, EngineStep, PTL DEF Spec, EngineSpec, Engine!Spec

=============================================================================
