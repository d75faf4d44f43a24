---------------------------- MODULE StartUpProofs ----------------------------
(***************************************************************************)
(* Theorems about the counters (Heartbeat), for any counters, init         *)
(* functions, verbosity and number of events, and about StartUp, for any   *)
(* packages, imports and import paths.                                     *)
(***************************************************************************)
EXTENDS StartUp, SequenceTheorems, TLAPS

(***************************************************************************)
(* Counters and heartbeats                                                 *)
(***************************************************************************)

(* Report reads counters, and nothing else.                                *)
LEMMA WalkOfCounters == Walk \in Seq(Counters) /\ Len(Walk) \in Nat
<1>1. InstrumentedOrder \in Seq(Counters) /\ ExecutedOrder \in Seq(Counters)
  BY HeartbeatAssumption DEF Counters
<1>2. <<ExecutedPropagation>> \in Seq(Counters) /\ <<>> \in Seq(Counters)
  BY DEF Counters, Executed
<1>3. QED
  BY <1>1, <1>2, ConcatProperties, LenProperties DEF Walk

(* While Report runs it is at one of the counters.                         *)
LEMMA AtACounter ==
  ASSUME TypeOK, position # 0
  PROVE  /\ position \in 1..Len(Walk)
         /\ Walk[position] \in Counters
<1>1. position \in 1..Len(Walk)
  BY WalkOfCounters DEF TypeOK
<1>2. QED
  BY <1>1, WalkOfCounters, ElementOfSeq

(* There is always something to read: <<InstrumentedPropagation>> at least. *)
LEMMA WalkNotEmpty == Len(Walk) >= 1
<1>1. Len(InstrumentedOrder) \in Nat /\ DOMAIN InstrumentedOrder = 1..Len(InstrumentedOrder)
  BY HeartbeatAssumption, LenProperties
<1>2. Len(InstrumentedOrder) >= 1
  BY <1>1, HeartbeatAssumption DEF Instrumented, ElementsOf
<1>3. QED
  BY <1>1, <1>2, HeartbeatAssumption, ConcatProperties, LenProperties DEF Walk

(* An event-free counter is never on its way, and counters of the two      *)
(* kinds are never mixed up.                                               *)
LEMMA Kinds ==
  /\ Executed \subseteq Counters /\ Instrumented \subseteq Counters
  /\ \A c \in Counters : c \in Executed <=> c \notin Instrumented
  /\ ExecutedPropagation \in Executed
  /\ InstrumentedPropagation \notin Executed
  BY HeartbeatAssumption DEF Counters, Executed

(* The state of the counters and of Report has its types in every          *)
(* reachable state: Report never reads past the last counter.              *)
THEOREM HeartbeatTypeCorrect == Spec => []TypeOK
<1>1. Init => TypeOK
  BY WalkOfCounters DEF Init, TypeOK, NoCount
<1>2. TypeOK /\ [Next]_vars => TypeOK'
  <2> SUFFICES ASSUME TypeOK, [Next]_vars
               PROVE  TypeOK'
    OBVIOUS
  <2>0. ASSUME Advance PROVE position # 0 => position' \in 0..Len(Walk)
    BY <2>0, WalkOfCounters DEF Advance, TypeOK
  <2>1. ASSUME NEW c \in Executed, Execute(c) PROVE TypeOK'
    BY <2>1, Kinds DEF Execute, TypeOK, Walk
  <2>2. ASSUME NEW f \in InitFunctions, RegisterInstrumentedSinks(f) PROVE TypeOK'
    BY <2>2, Kinds, HeartbeatAssumption DEF RegisterInstrumentedSinks, TypeOK, Walk
  <2>3. CASE Begin
    BY <2>3, WalkOfCounters, WalkNotEmpty DEF Begin, TypeOK, Walk
  <2>4. CASE ReadCounter
    <3>1. Walk[position] \in Counters
      BY <2>4, AtACounter DEF ReadCounter
    <3>2. counter' \in [Counters -> Nat]
      BY <2>4, <3>1 DEF ReadCounter, AfterRead, TypeOK
    <3>3. cnt' \in Nat \union {NoCount}
      BY <2>4, <3>1 DEF ReadCounter, TypeOK
    <3>4. position' \in 0..Len(Walk)
      BY <2>4, <2>0 DEF ReadCounter, TypeOK
    <3>5. QED
      BY <2>4, <3>2, <3>3, <3>4 DEF ReadCounter, TypeOK, Walk
  <2>5. CASE Submit
    <3>1. Walk[position] \in Counters
      BY <2>5, AtACounter DEF Submit
    <3>2. cnt \in Nat
      BY <2>5 DEF Submit, TypeOK
    <3>3. submitted' \in [Executed -> Nat] /\ reported' \in [Instrumented -> Nat]
      <4> DEFINE w == Walk[position]
      <4>1. CASE w \in Executed
        <5>1. submitted' = [submitted EXCEPT ![w] = @ + cnt] /\ reported' = reported
          BY <2>5, <4>1 DEF Submit
        <5> HIDE DEF w
        <5>2. QED
          BY <3>2, <4>1, <5>1 DEF TypeOK
      <4>2. CASE w \notin Executed
        <5>1. reported' = [reported EXCEPT ![w] = cnt] /\ submitted' = submitted
          BY <2>5, <4>2 DEF Submit
        <5> HIDE DEF w
        <5>2. QED
          BY <3>2, <4>2, <5>1 DEF TypeOK
      <4>3. QED
        BY <4>1, <4>2
    <3>4. position' \in 0..Len(Walk)
      BY <2>5, <2>0 DEF Submit
    <3>5. QED
      BY <2>5, <3>3, <3>4 DEF Submit, TypeOK, Walk
  <2>6. CASE UNCHANGED vars
    BY <2>6 DEF vars, TypeOK, Walk
  <2>7. QED
    BY <2>1, <2>2, <2>3, <2>4, <2>5, <2>6 DEF Next
<1>3. QED
  BY <1>1, <1>2, PTL DEF Spec

(***************************************************************************)
(* What each step does to the events that are pending                      *)
(***************************************************************************)

LEMMA ExecutePending ==
  ASSUME TypeOK, NEW e \in Executed, Execute(e)
  PROVE  /\ Pending' = [Pending EXCEPT ![e] = @ + 1]
         /\ happened' = [happened EXCEPT ![e] = @ + 1]
         /\ UNCHANGED submitted
<1>1. \A c \in Executed : InFlight(c)' = InFlight(c) /\ InFlight(c) \in Int
  BY AtACounter DEF Execute, InFlight, Walk, TypeOK, NoCount
<1>2. \A c \in Executed :
        /\ counter[c] \in Nat
        /\ counter'[c] = IF c = e THEN counter[c] + 1 ELSE counter[c]
  BY Kinds DEF Execute, TypeOK
<1>3. \A c \in Executed : Pending'[c] = IF c = e THEN Pending[c] + 1 ELSE Pending[c]
  BY <1>1, <1>2 DEF Pending
<1>4. Pending' = [Pending EXCEPT ![e] = @ + 1]
  BY <1>3 DEF Pending
<1>5. QED
  BY <1>4 DEF Execute

LEMMA RegisterPending ==
  ASSUME TypeOK, NEW f \in InitFunctions, RegisterInstrumentedSinks(f)
  PROVE  UNCHANGED <<Pending, happened, submitted>>
<1>1. \A c \in Executed : InFlight(c)' = InFlight(c)
  BY DEF RegisterInstrumentedSinks, InFlight, Walk
<1>2. \A c \in Executed : counter'[c] = counter[c]
  BY Kinds, HeartbeatAssumption DEF RegisterInstrumentedSinks, TypeOK
<1>3. QED
  BY <1>1, <1>2 DEF RegisterInstrumentedSinks, Pending

LEMMA BeginPending ==
  ASSUME TypeOK, Begin, cnt = NoCount
  PROVE  UNCHANGED <<Pending, happened, submitted>>
<1>1. \A c \in Executed : InFlight(c)' = InFlight(c)
  BY DEF Begin, InFlight
<1>2. QED
  BY <1>1 DEF Begin, Pending

LEMMA ReadPending ==
  ASSUME TypeOK, ReadCounter
  PROVE  UNCHANGED <<Pending, happened, submitted>>
<1> DEFINE w == Walk[position]
<1>1. w \in Counters /\ position # 0 /\ cnt = NoCount
  BY AtACounter DEF ReadCounter
<1>2. Walk' = Walk
  BY DEF Walk
<1>3. ASSUME NEW c \in Executed
      PROVE  counter'[c] + InFlight(c)' = counter[c] + InFlight(c)
  <2>1. InFlight(c) = 0
    BY <1>1 DEF InFlight
  <2>2. counter[c] \in Nat /\ counter[w] \in Nat /\ c \in Counters
    BY <1>1, Kinds DEF TypeOK
  <2>3. CASE c # w
    <3>1. counter'[c] = counter[c]
      BY <2>2, <2>3 DEF ReadCounter, AfterRead, TypeOK
    <3>2. InFlight(c)' = 0
      BY <1>1, <1>2, <2>3 DEF ReadCounter, InFlight
    <3>3. QED
      BY <2>1, <3>1, <3>2
  <2>4. CASE c = w
    <3>1. counter'[c] = 0
      BY <2>2, <2>4 DEF ReadCounter, AfterRead, TypeOK
    <3>2. CASE counter[w] = 0
      <4>1. cnt' = cnt
        BY <2>4, <3>2, Kinds DEF ReadCounter
      <4>2. QED
        BY <1>1, <2>1, <2>4, <3>1, <3>2, <4>1 DEF InFlight
    <3>3. CASE counter[w] # 0
      <4>1. cnt' = counter[w] /\ position' = position
        BY <3>3 DEF ReadCounter
      <4>2. InFlight(c)' = counter[w]
        BY <1>1, <1>2, <2>2, <2>4, <4>1 DEF InFlight, NoCount
      <4>3. QED
        BY <2>1, <2>2, <2>4, <3>1, <4>2
    <3>4. QED
      BY <3>2, <3>3
  <2>5. QED
    BY <2>3, <2>4
<1>4. QED
  BY <1>3 DEF ReadCounter, Pending

(* Submitting delivers what is on its way.                                 *)
LEMMA SubmitPending ==
  ASSUME TypeOK, Submit
  PROVE  /\ UNCHANGED happened
         /\ \/ /\ Walk[position] \notin Executed
               /\ UNCHANGED <<Pending, submitted>>
            \/ /\ Walk[position] \in Executed
               /\ cnt \in 0..Pending[Walk[position]]
               /\ Pending' = [Pending EXCEPT ![Walk[position]] = @ - cnt]
               /\ submitted' = [submitted EXCEPT ![Walk[position]] = @ + cnt]
<1> DEFINE w == Walk[position]
<1>1. w \in Counters /\ position # 0 /\ cnt # NoCount /\ cnt \in Nat /\ cnt' = NoCount
  BY AtACounter DEF Submit, TypeOK
<1>2. \A c \in Executed : InFlight(c) = IF c = w THEN cnt ELSE 0
  BY <1>1 DEF InFlight
<1>3. \A c \in Executed : InFlight(c)' = 0
  BY <1>1 DEF InFlight
<1>4. \A c \in Executed : counter'[c] = counter[c] /\ counter[c] \in Nat
  BY Kinds DEF Submit, TypeOK
<1>5. CASE w \notin Executed
  BY <1>2, <1>3, <1>4, <1>5 DEF Submit, Pending
<1>6. CASE w \in Executed
  <2> HIDE DEF w
  <2>1. Pending[w] = counter[w] + cnt
    BY <1>2, <1>6 DEF Pending
  <2>2. \A c \in Executed : Pending'[c] = [Pending EXCEPT ![w] = @ - cnt][c]
    BY <1>1, <1>2, <1>3, <1>4, <1>6 DEF Pending
  <2>3. Pending' = [Pending EXCEPT ![w] = @ - cnt]
    BY <2>2 DEF Pending
  <2>4. QED
    BY <1>1, <1>4, <1>6, <2>1, <2>3 DEF Submit, w
<1>7. QED
  BY <1>5, <1>6

(***************************************************************************)
(* Conservation and refinement                                             *)
(***************************************************************************)

(* Report holds no value of a counter while it is not running.             *)
IdleHoldsNothing == position = 0 => cnt = NoCount

LEMMA IdleInvariant == Spec => []IdleHoldsNothing
<1>1. Init => IdleHoldsNothing
  BY DEF Init, IdleHoldsNothing
<1>2. TypeOK /\ IdleHoldsNothing /\ [Next]_vars => IdleHoldsNothing'
  BY WalkOfCounters, WalkNotEmpty
     DEF IdleHoldsNothing, Next, vars, Execute, RegisterInstrumentedSinks, Begin,
         ReadCounter, Submit, Advance, TypeOK
<1>3. QED
  BY <1>1, <1>2, HeartbeatTypeCorrect, PTL DEF Spec

(* No event of a run-time counter is lost or submitted twice, wherever in  *)
(* a heartbeat it happens (heartbeat.go:59-82).                            *)
THEOREM EventsConserved == Spec => []Conservation
<1>1. Init => Conservation
  BY DEF Init, Conservation, Pending, InFlight, Counters
<1>2. TypeOK /\ IdleHoldsNothing /\ Conservation /\ [Next]_vars => Conservation'
  <2> SUFFICES ASSUME TypeOK, IdleHoldsNothing, Conservation, [Next]_vars
               PROVE  Conservation'
    OBVIOUS
  <2>0. \A c \in Executed : Pending[c] \in Int /\ submitted[c] \in Nat /\ happened[c] \in Nat
    BY Kinds, AtACounter DEF Pending, InFlight, TypeOK, NoCount
  <2>1. ASSUME NEW e \in Executed, Execute(e) PROVE Conservation'
    <3>1. /\ Pending' = [Pending EXCEPT ![e] = @ + 1]
          /\ happened' = [happened EXCEPT ![e] = @ + 1]
          /\ submitted' = submitted
      BY <2>1, ExecutePending
    <3>2. DOMAIN Pending = Executed /\ DOMAIN happened = Executed
      BY DEF Pending, TypeOK
    <3>3. QED
      BY <2>0, <3>1, <3>2 DEF Conservation
  <2>2. ASSUME NEW f \in InitFunctions, RegisterInstrumentedSinks(f) PROVE Conservation'
    BY <2>2, RegisterPending DEF Conservation
  <2>3. CASE Begin
    BY <2>3, BeginPending DEF Conservation, IdleHoldsNothing, Begin
  <2>4. CASE ReadCounter
    BY <2>4, ReadPending DEF Conservation
  <2>5. CASE Submit
    <3>1. CASE Walk[position] \notin Executed
      BY <2>5, <3>1, SubmitPending DEF Conservation
    <3>2. CASE Walk[position] \in Executed
      <4> DEFINE w == Walk[position]
      <4>1. /\ cnt \in Nat
            /\ Pending' = [Pending EXCEPT ![w] = @ - cnt]
            /\ submitted' = [submitted EXCEPT ![w] = @ + cnt]
            /\ happened' = happened
        BY <2>5, <3>2, SubmitPending
      <4>2. DOMAIN Pending = Executed /\ DOMAIN submitted = Executed
        BY DEF Pending, TypeOK
      <4> HIDE DEF w
      <4>3. QED
        BY <2>0, <4>1, <4>2 DEF Conservation
    <3>3. QED
      BY <3>1, <3>2
  <2>6. CASE UNCHANGED vars
    BY <2>6 DEF vars, Conservation, Pending, InFlight, Walk
  <2>7. QED
    BY <2>1, <2>2, <2>3, <2>4, <2>5, <2>6 DEF Next
<1>3. QED
  BY <1>1, <1>2, HeartbeatTypeCorrect, IdleInvariant, PTL DEF Spec

(* Heartbeats implement a ledger of events: each is delivered once.        *)
THEOREM HeartbeatImplementsLedger == Spec => ImplementsLedger
<1>1. Init => Ledger!LedgerInit
  BY DEF Init, Ledger!LedgerInit, Pending, InFlight, Counters
<1>2. TypeOK /\ IdleHoldsNothing /\ [Next]_vars => [Ledger!LedgerNext]_(Ledger!ledgerVars)
  <2> SUFFICES ASSUME TypeOK, IdleHoldsNothing, [Next]_vars
               PROVE  [Ledger!LedgerNext]_(Ledger!ledgerVars)
    OBVIOUS
  <2>1. ASSUME NEW e \in Executed, Execute(e) PROVE Ledger!LedgerNext
    BY <2>1, ExecutePending DEF Ledger!LedgerNext, Ledger!Record
  <2>2. ASSUME NEW f \in InitFunctions, RegisterInstrumentedSinks(f)
        PROVE  UNCHANGED Ledger!ledgerVars
    BY <2>2, RegisterPending DEF Ledger!ledgerVars
  <2>3. CASE Begin
    BY <2>3, BeginPending DEF IdleHoldsNothing, Begin, Ledger!ledgerVars
  <2>4. CASE ReadCounter
    BY <2>4, ReadPending DEF Ledger!ledgerVars
  <2>5. CASE Submit
    <3> DEFINE w == Walk[position]
    <3>1. CASE w \notin Executed
      BY <2>5, <3>1, SubmitPending DEF Ledger!ledgerVars
    <3>2. CASE w \in Executed
      <4>1. /\ cnt \in 0..Pending[w]
            /\ Pending' = [Pending EXCEPT ![w] = @ - cnt]
            /\ submitted' = [submitted EXCEPT ![w] = @ + cnt]
        BY <2>5, <3>2, SubmitPending
      <4>2. Pending[w] \in Int /\ submitted[w] \in Nat
        BY <3>2, Kinds, AtACounter DEF Pending, InFlight, TypeOK, NoCount
      <4> HIDE DEF w
      <4>3. CASE cnt = 0
        <5>0. Pending = [c \in Executed |-> Pending[c]]
          BY DEF Pending
        <5>1. Pending' = Pending
          BY <4>1, <4>2, <4>3, <3>2, <5>0
        <5>2. submitted' = submitted
          BY <4>1, <4>2, <4>3, <3>2 DEF TypeOK
        <5>3. QED
          BY <5>1, <5>2 DEF Ledger!ledgerVars
      <4>4. CASE cnt # 0
        <5>1. cnt \in 1..Pending[w]
          BY <4>1, <4>2, <4>4
        <5>2. QED
          BY <3>2, <4>1, <5>1 DEF Ledger!LedgerNext, Ledger!Deliver
      <4>5. QED
        BY <4>3, <4>4
    <3>3. QED
      BY <3>1, <3>2
  <2>6. CASE UNCHANGED vars
    BY <2>6 DEF vars, Ledger!ledgerVars, Pending, InFlight, Walk
  <2>7. QED
    BY <2>1, <2>2, <2>3, <2>4, <2>5, <2>6 DEF Next
<1>3. QED
  BY <1>1, <1>2, HeartbeatTypeCorrect, IdleInvariant, PTL
     DEF Spec, ImplementsLedger, Ledger!LedgerSpec

(***************************************************************************)
(* Start-up uses the counters as Heartbeat describes them                  *)
(***************************************************************************)

(* A step of the start is a step of the counters, or does not touch them.  *)
LEMMA StartNextIsNext == [StartNext]_allVars => [Next]_vars
<1> SUFFICES ASSUME [StartNext]_allVars
             PROVE  [Next]_vars
  OBVIOUS
<1>1. CASE InitConfig \/ MakeStore \/ RegisterHeartbeat
  BY <1>1 DEF InitConfig, MakeStore, RegisterHeartbeat
<1>2. ASSUME NEW p \in InitFunctions, InitInstrumented(p) PROVE [Next]_vars
  BY <1>2 DEF InitInstrumented, Next
<1>3. ASSUME NEW p \in Packages, InitOther(p) PROVE [Next]_vars
  BY <1>3 DEF InitOther
<1>4. ASSUME NEW c \in Executed, ReportSink(c) PROVE [Next]_vars
  BY <1>4 DEF ReportSink, Next
<1>5. CASE StartTracer \/ StartSpan \/ FinishSpan
  BY <1>5 DEF StartTracer, StartSpan, FinishSpan
<1>6. CASE SendHeartbeat \/ ReportHeartbeat
  BY <1>6 DEF SendHeartbeat, ReportHeartbeat, Next
<1>7. CASE UNCHANGED allVars
  BY <1>7 DEF allVars, vars
<1>8. QED
  BY <1>1, <1>2, <1>3, <1>4, <1>5, <1>6, <1>7 DEF StartNext, InitStep

(* Whatever is proved of Heartbeat holds during the start.                 *)
LEMMA StartUpUsesHeartbeat == StartSpec => Spec
<1>1. StartInit => Init
  BY DEF StartInit
<1>2. QED
  BY <1>1, StartNextIsNext, PTL DEF StartSpec, Spec

(* No event is lost or submitted twice, although init functions and the    *)
(* first heartbeats come in any order Go allows, and the counters promise  *)
(* what a ledger does (telemetry.go:20-32, heartbeat.go:59-82).            *)
THEOREM StartUpImplementsLedger == StartSpec => ImplementsLedger /\ []Conservation
  BY StartUpUsesHeartbeat, EventsConserved, HeartbeatImplementsLedger, PTL

(***************************************************************************)
(* Order of initialization                                                 *)
(***************************************************************************)

(* What is initialized has initialized imports; who needs the configuration*)
(* comes after it.                                                         *)
ImportsDone == \A p \in done : Imports(p) \subseteq done

ConfigLoaded ==
  "config" \in done =>
    enabled = Enabled /\ maxConcurrentRequests = MaxConcurrentRequests

StoreConfigured ==
  /\ storeMade => triggerTrimThreshold = TrimThreshold(MaxConcurrentRequests)
  /\ "spans" \in done => storeMade

HeartbeatRegistered == position # 0 => "spans" \in done

OrderInv == ImportsDone /\ ConfigLoaded /\ StoreConfigured /\ HeartbeatRegistered

(* The package that is initialized next has initialized imports.           *)
LEMMA NextIsReady ==
  ASSUME NEW p, IsNext(p) PROVE p \in Packages \ done /\ Imports(p) \subseteq done
  BY DEF IsNext, Ready

(* Go initializes the configuration before the store.                      *)
LEMMA SpansImportConfig == "config" \in Imports("spans")
  BY DEF Imports, OwnImports, Own

(* A package other than config and spans is initialized, and nothing else  *)
(* happens to the configuration, the store and the heartbeat.              *)
LEMMA OtherInitialized ==
  ASSUME OrderInv, NEW p, p \notin {"config", "spans"}, InitPackage(p),
         UNCHANGED <<enabled, maxConcurrentRequests, storeMade, triggerTrimThreshold, position>>
  PROVE  OrderInv'
<1>1. ImportsDone'
  BY NextIsReady DEF InitPackage, OrderInv, ImportsDone
<1>2. QED
  BY <1>1 DEF InitPackage, OrderInv, ConfigLoaded, StoreConfigured, HeartbeatRegistered

(* Nothing is initialized, and a heartbeat runs only if it is registered.  *)
LEMMA NothingInitialized ==
  ASSUME OrderInv, position' # 0 => position # 0 \/ "spans" \in done,
         UNCHANGED <<done, enabled, maxConcurrentRequests, storeMade, triggerTrimThreshold>>
  PROVE  OrderInv'
  BY DEF OrderInv, ImportsDone, ConfigLoaded, StoreConfigured, HeartbeatRegistered

(* Packages are initialized in an order that OrderInv describes.           *)
LEMMA OrderInvariant == StartSpec => []OrderInv
<1>1. StartInit => OrderInv
  BY DEF StartInit, Init, OrderInv, ImportsDone, ConfigLoaded, StoreConfigured, HeartbeatRegistered
<1>2. OrderInv /\ [StartNext]_allVars => OrderInv'
  <2> SUFFICES ASSUME OrderInv, [StartNext]_allVars
               PROVE  OrderInv'
    OBVIOUS
  <2>1. CASE InitConfig
    <3>1. ImportsDone'
      BY <2>1, NextIsReady DEF InitConfig, InitPackage, OrderInv, ImportsDone
    <3>2. QED
      BY <2>1, <3>1
         DEF InitConfig, InitPackage, vars, OrderInv, ConfigLoaded, StoreConfigured,
             HeartbeatRegistered
  <2>2. CASE MakeStore
    <3>1. "config" \in done
      BY <2>2, NextIsReady, SpansImportConfig DEF MakeStore
    <3>2. QED
      BY <2>2, <3>1
         DEF MakeStore, vars, OrderInv, ImportsDone, ConfigLoaded, StoreConfigured,
             HeartbeatRegistered
  <2>3. CASE RegisterHeartbeat
    <3>1. ImportsDone'
      BY <2>3, NextIsReady DEF RegisterHeartbeat, InitPackage, OrderInv, ImportsDone
    <3>2. QED
      BY <2>3, <3>1
         DEF RegisterHeartbeat, InitPackage, vars, OrderInv, ConfigLoaded, StoreConfigured,
             HeartbeatRegistered
  <2>4. ASSUME NEW p \in InitFunctions, InitInstrumented(p) PROVE OrderInv'
    <3>1. p \notin {"config", "spans"}
      BY StartUpAssumption DEF Own, OwnImports
    <3>2. QED
      BY <2>4, <3>1, OtherInitialized DEF InitInstrumented, RegisterInstrumentedSinks
  <2>5. ASSUME NEW p \in Packages, InitOther(p) PROVE OrderInv'
    BY <2>5, OtherInitialized DEF InitOther, vars
  <2>6. ASSUME NEW c \in Executed, ReportSink(c) PROVE OrderInv'
    BY <2>6, NothingInitialized DEF ReportSink, Execute, vars
  <2>7. CASE StartTracer \/ StartSpan \/ FinishSpan
    BY <2>7, NothingInitialized DEF StartTracer, StartSpan, FinishSpan, vars
  <2>8. CASE SendHeartbeat
    BY <2>8, NothingInitialized DEF SendHeartbeat, startVars
  <2>9. CASE ReportHeartbeat
    BY <2>9, NothingInitialized DEF ReportHeartbeat, ReadCounter, Submit, startVars
  <2>10. CASE UNCHANGED allVars
    BY <2>10, NothingInitialized DEF allVars
  <2>11. QED
    BY <2>1, <2>2, <2>3, <2>4, <2>5, <2>6, <2>7, <2>8, <2>9, <2>10 DEF StartNext, InitStep
<1>3. QED
  BY <1>1, <1>2, PTL DEF StartSpec

(***************************************************************************)
(* What a reader should know of                                            *)
(***************************************************************************)

(* Whatever the import paths and whatever the application imports, the     *)
(* store is made for the configured number of requests, and no heartbeat   *)
(* comes before the configuration is loaded (annotation.go:23-29, 124-132).*)
THEOREM ConfigurationComesFirst == StartSpec => []ConfigPrecedesUse
<1>1. OrderInv => ConfigPrecedesUse
  BY SpansImportConfig
     DEF OrderInv, ImportsDone, ConfigLoaded, StoreConfigured, HeartbeatRegistered,
         ConfigPrecedesUse
<1>2. QED
  BY <1>1, OrderInvariant, PTL

(* Every application package that can run a sink or finish a span imports  *)
(* spans, directly or through others.                                      *)
ApplicationImportsSpans ==
  \A p \in Application :
    ApplicationImports[p] \intersect (InitFunctions \union {"tracer"}) # {} =>
      "spans" \in ApplicationImports[p]

(* The code of such a package runs after the store was made.               *)
LEMMA RunsWithStore ==
  ASSUME ApplicationImportsSpans, OrderInv,
         RunsWith(InitFunctions) \/ RunsWith({"tracer"})
  PROVE  storeMade
<1>1. PICK p \in Application :
        IsRunning(p) /\ ApplicationImports[p] \intersect (InitFunctions \union {"tracer"}) # {}
  BY DEF RunsWith
<1>2. Imports(p) \subseteq done
  BY <1>1, NextIsReady DEF IsRunning, OrderInv, ImportsDone
<1>3. Imports(p) = ApplicationImports[p]
  BY StartUpAssumption DEF Imports
<1>4. QED
  BY <1>1, <1>2, <1>3 DEF ApplicationImportsSpans, OrderInv, StoreConfigured

(* If every package with sinks or spans of its own imports spans, no order *)
(* of initialization lets a sink or a span that is finished panic.  The run*)
(* start_up_early_application shows that the condition is needed           *)
(* (cmd/app/main.go:24, annotation.go:25, orchestrion.go:23).              *)
THEOREM NoPanicIfSpansImported == ApplicationImportsSpans => (StartSpec => []NoPanic)
<1> SUFFICES ASSUME ApplicationImportsSpans
             PROVE  StartSpec => []NoPanic
  OBVIOUS
<1>1. StartInit => NoPanic
  BY DEF StartInit, NoPanic
<1>2. OrderInv /\ NoPanic /\ [StartNext]_allVars => NoPanic'
  <2> SUFFICES ASSUME OrderInv, NoPanic, [StartNext]_allVars
               PROVE  NoPanic'
    OBVIOUS
  <2>1. CASE InitStep
    BY <2>1 DEF InitStep, InitConfig, MakeStore, RegisterHeartbeat, InitInstrumented, InitOther,
       NoPanic
  <2>2. ASSUME NEW c \in Executed, ReportSink(c) PROVE NoPanic'
    BY <2>2, RunsWithStore DEF ReportSink, NoPanic
  <2>3. CASE StartTracer \/ StartSpan \/ FinishSpan
    BY <2>3, RunsWithStore DEF StartTracer, StartSpan, FinishSpan, NoPanic
  <2>4. CASE SendHeartbeat \/ ReportHeartbeat \/ UNCHANGED allVars
    BY <2>4 DEF SendHeartbeat, ReportHeartbeat, startVars, allVars, NoPanic
  <2>5. QED
    BY <2>1, <2>2, <2>3, <2>4 DEF StartNext
<1>3. QED
  BY <1>1, <1>2, OrderInvariant, PTL DEF StartSpec
=============================================================================
