----------------------------- MODULE ConfigProofs -----------------------------
(***************************************************************************)
(* Theorems about Config, for any settings, ranges, parsers and            *)
(* environments.                                                           *)
(***************************************************************************)
EXTENDS Config, SequenceTheorems, TLAPS

(* What Load gives to the setting it loads.                                *)
LoadedWell(s) ==
  /\ value'[s] \in Lower[s]..Upper[s]
  /\ env[s] \in Parsable[s] =>
       \/ value'[s] = env[s]
       \/ value'[s] = Lower[s] /\ env[s] < Lower[s]
       \/ value'[s] = Upper[s] /\ env[s] > Upper[s]
  /\ registered'[s].value = value'[s]
  /\ registered'[s].origin = "default" => value'[s] = Default[s]
  /\ env[s] # Unset /\ value'[s] # env[s] => s \in warned'

(* The state of load().                                                    *)
LoadState ==
  /\ position \in 1..(Len(Order) + 1)
  /\ value \in [Settings -> Int]
  /\ DOMAIN registered = Settings

(* Loading a setting puts it in its range.                                 *)
LEMMA LoadInRange ==
  ASSUME LoadState, NEW s \in Settings, Load(s)
  PROVE  LoadedWell(s) /\ value'[s] \in Int
<1> DEFINE parsed  == FromEnv(s)
           bounded == IF s \in Bounded THEN ClampUnsigned(parsed.value, Lower[s], Upper[s])
                                       ELSE parsed.value
<1>1. /\ Lower[s] \in Nat /\ Upper[s] \in Nat /\ Default[s] \in Lower[s]..Upper[s]
      /\ Parsable[s] \in SUBSET (0..MaxUint64)
      /\ s \notin Bounded => Parsable[s] \subseteq Lower[s]..Upper[s]
      /\ s \in Bounded => Upper[s] <= MaxInt
      /\ MaxInt \in Nat /\ MaxUint64 \in Nat
  BY ConfigurationAssumption
<1>2. /\ parsed.value \in Nat
      /\ env[s] \in Parsable[s] => env[s] # Unset /\ parsed.value = env[s]
      /\ env[s] \notin Parsable[s] => parsed.value = Default[s]
      /\ parsed.origin = "default" => parsed.value = Default[s]
      /\ s \notin Bounded => parsed.value \in Lower[s]..Upper[s]
  <2>0. Unset \notin Parsable[s]
    BY ConfigurationAssumption
  <2>1. CASE env[s] \in Parsable[s]
    <3>1. parsed.value = env[s] /\ parsed.origin = "env_var"
      BY <2>1 DEF FromEnv
    <3> HIDE DEF parsed
    <3>2. env[s] \in 0..MaxUint64 /\ env[s] # Unset
      BY <1>1, <2>0, <2>1
    <3>3. QED
      BY <1>1, <2>1, <3>1, <3>2
  <2>2. CASE env[s] \notin Parsable[s]
    <3>1. parsed.value = Default[s]
      BY <2>2 DEF FromEnv
    <3> HIDE DEF parsed
    <3>2. QED
      BY <1>1, <2>2, <3>1
  <2>3. QED
    BY <2>1, <2>2
<1>2a. env[s] \notin Parsable[s] /\ env[s] # Unset => parsed.failed
  BY DEF FromEnv
<1>3. /\ value' = [value EXCEPT ![s] = IF s \in Bounded THEN ToInt(bounded) ELSE bounded]
      /\ registered' = [registered EXCEPT ![s] = [value |-> bounded, origin |-> parsed.origin]]
      /\ warned' = IF parsed.failed \/ bounded # parsed.value
                     THEN warned \union {s} ELSE warned
  BY DEF Load
<1> HIDE DEF parsed
<1>4. /\ bounded \in Lower[s]..Upper[s]
      /\ parsed.value \in Lower[s]..Upper[s] => bounded = parsed.value
      /\ \/ bounded = parsed.value
         \/ bounded = Lower[s] /\ parsed.value < Lower[s]
         \/ bounded = Upper[s] /\ parsed.value > Upper[s]
  <2>1. Lower[s] \in Int /\ Upper[s] \in Int /\ Lower[s] <= Upper[s] /\ parsed.value \in Int
    BY <1>1, <1>2
  <2>2. CASE s \in Bounded
    BY <2>1, <2>2 DEF ClampUnsigned
  <2>3. CASE s \notin Bounded
    BY <1>2, <2>3
  <2>4. QED
    BY <2>2, <2>3
<1> HIDE DEF bounded
<1>5. value'[s] = bounded /\ bounded \in Nat
  BY <1>1, <1>3, <1>4 DEF LoadState, ToInt
<1>6. registered'[s] = [value |-> bounded, origin |-> parsed.origin]
  BY <1>3 DEF LoadState
<1>7. env[s] \in Parsable[s] =>
       \/ value'[s] = env[s]
       \/ value'[s] = Lower[s] /\ env[s] < Lower[s]
       \/ value'[s] = Upper[s] /\ env[s] > Upper[s]
  BY <1>1, <1>2, <1>4, <1>5
<1>8. registered'[s].value = value'[s] /\ (registered'[s].origin = "default" => value'[s] = Default[s])
  BY <1>1, <1>2, <1>4, <1>5, <1>6
<1>9. env[s] # Unset /\ value'[s] # env[s] => s \in warned'
  BY <1>2, <1>2a, <1>3, <1>5
<1>10. QED
  BY <1>4, <1>5, <1>7, <1>8, <1>9 DEF LoadedWell

(* The settings that were loaded, one step later.                          *)
LEMMA LoadedNext ==
  ASSUME LoadState, LoadNext
  PROVE  /\ Order[position] \in Settings \ Loaded
         /\ Loaded' = Loaded \union {Order[position]}
         /\ LoadState'
<1>1. /\ Len(Order) \in Nat /\ DOMAIN Order = 1..Len(Order)
      /\ position \in 1..Len(Order) /\ position' = position + 1
  BY ConfigurationAssumption, LenProperties DEF LoadState, LoadNext
<1>2. Order[position] \in Settings
  BY <1>1 DEF Settings
<1>3. Order[position] \notin Loaded
  <2>1. \A i \in 1..(position - 1) : Order[i] # Order[position]
    <3>1. \A i, j \in DOMAIN Order : Order[i] = Order[j] => i = j
      BY ConfigurationAssumption
    <3>2. QED
      BY <1>1, <3>1
  <2>2. QED
    BY <2>1 DEF Loaded
<1>4. Loaded' = Loaded \union {Order[position]}
  BY <1>1 DEF Loaded
<1>5. value'[Order[position]] \in Int
  BY <1>2, LoadInRange DEF LoadNext
<1>6. LoadState'
  BY <1>1, <1>2, <1>5 DEF LoadState, LoadNext, Load
<1>7. QED
  BY <1>2, <1>3, <1>4, <1>6

ConfigInv == LoadState /\ WithinRange /\ Closest /\ ReportedAsEffective

LEMMA ConfigInvariant == Spec => []ConfigInv
<1>1. Init => ConfigInv
  <2> SUFFICES ASSUME Init PROVE ConfigInv
    OBVIOUS
  <2>1. Loaded = {}
    BY DEF Init, Loaded
  <2>2. LoadState
    BY ConfigurationAssumption, LenProperties DEF Init, LoadState
  <2>3. QED
    BY <2>1, <2>2 DEF ConfigInv, WithinRange, Closest, ReportedAsEffective
<1>2. ConfigInv /\ [Next]_vars => ConfigInv'
  <2> SUFFICES ASSUME ConfigInv, [Next]_vars
               PROVE  ConfigInv'
    OBVIOUS
  <2>1. CASE LoadNext
    <3> DEFINE s == Order[position]
    <3>1. s \in Settings \ Loaded /\ Loaded' = Loaded \union {s} /\ LoadState'
      BY <2>1, LoadedNext DEF ConfigInv
    <3>2. LoadedWell(s)
      BY <2>1, <3>1, LoadInRange DEF ConfigInv, LoadNext
    <3>3. ASSUME NEW t \in Loaded
          PROVE  value'[t] = value[t] /\ registered'[t] = registered[t]
                   /\ env'[t] = env[t] /\ (t \in warned => t \in warned')
      <4>1. t # s
        BY <3>1, <3>3
      <4>2. t \in Settings
        BY ConfigurationAssumption, LenProperties, <3>3 DEF Loaded, Settings, ConfigInv, LoadState
      <4>3. QED
        BY <2>1, <4>1, <4>2 DEF LoadNext, Load, ConfigInv, LoadState
    <3>4. env' = env
      BY <2>1 DEF LoadNext
    <3> HIDE DEF s
    <3>5. WithinRange'
      BY <3>1, <3>2, <3>3 DEF ConfigInv, WithinRange, LoadedWell
    <3>6. Closest'
      BY <3>1, <3>2, <3>3, <3>4 DEF ConfigInv, Closest, LoadedWell
    <3>7. ReportedAsEffective'
      BY <3>1, <3>2, <3>3, <3>4 DEF ConfigInv, ReportedAsEffective, LoadedWell
    <3>8. QED
      BY <3>1, <3>5, <3>6, <3>7 DEF ConfigInv
  <2>2. CASE ProductStarted
    BY <2>2 DEF ProductStarted, ConfigInv, LoadState, WithinRange, Closest, ReportedAsEffective, Loaded
  <2>3. CASE UNCHANGED vars
    BY <2>3 DEF vars, ConfigInv, LoadState, WithinRange, Closest, ReportedAsEffective, Loaded
  <2>4. QED
    BY <2>1, <2>2, <2>3 DEF Next
<1>3. QED
  BY <1>1, <1>2, PTL DEF Spec

(* Whatever the environment holds, every setting ends in its documented    *)
(* range: neither a clamp nor a conversion to int can leave it             *)
(* (config.go:80-92).                                                      *)
THEOREM SettingsWithinRange == Spec => []WithinRange
<1>1. ConfigInv => WithinRange
  BY DEF ConfigInv
<1>2. QED
  BY <1>1, ConfigInvariant, PTL

(* A value the parser accepts ends as the closest one of the range         *)
(* (loader.go:58-71, parser.go:115-124).                                   *)
THEOREM SettingsClosest == Spec => []Closest
<1>1. ConfigInv => Closest
  BY DEF ConfigInv
<1>2. QED
  BY <1>1, ConfigInvariant, PTL

(* Telemetry is told what is in effect, and no value is replaced without a *)
(* warning (loader.go:36-82).                                              *)
THEOREM SettingsReported == Spec => []ReportedAsEffective
<1>1. ConfigInv => ReportedAsEffective
  BY DEF ConfigInv
<1>2. QED
  BY <1>1, ConfigInvariant, PTL
=============================================================================
