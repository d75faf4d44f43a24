-------------------------------- MODULE Config --------------------------------
(***************************************************************************)
(* The IAST configuration, loaded from the environment when the program    *)
(* starts: internal/config with its loader and its parser.                 *)
(*                                                                         *)
(* Every value is an integer here: a Boolean 0 or 1, a level of verbosity  *)
(* its rank, a pattern any number.  What a parser accepts is a constant,   *)
(* and NotParsed stands for every text it rejects that is not an integer.  *)
(***************************************************************************)
EXTENDS Integers, Sequences

CONSTANTS Order,      \* the settings, in the order load() reads them
          Enabled,    \* the setting that enables IAST
          Unset,      \* the environment has no such variable
          NotParsed,  \* its text is no integer
          EnvIntegers, \* the integers it can hold (bound of the model)
          Parsable,   \* what the parser of each setting accepts
          Bounded,    \* the settings read with UintFromEnvBounded
          Default, Lower, Upper,  \* of each setting: its default and its documented range
          MaxInt, MaxUint8, MaxUint64

Settings == {Order[i] : i \in DOMAIN Order}

ASSUME ConfigurationAssumption ==
  /\ Order \in Seq(Settings)
  /\ \A i, j \in DOMAIN Order : Order[i] = Order[j] => i = j
  /\ Enabled \in Settings
  /\ EnvIntegers \subseteq Int
  /\ \A s \in Settings : Unset \notin Parsable[s] /\ NotParsed \notin Parsable[s]
  /\ MaxInt \in Nat /\ MaxUint8 \in Nat
  /\ MaxUint64 = 2 * MaxInt + 1
  /\ Bounded \subseteq Settings
  /\ Parsable \in [Settings -> SUBSET (0..MaxUint64)]
  /\ Lower \in [Settings -> Nat] /\ Upper \in [Settings -> Nat]
  /\ Default \in [Settings -> Nat]
  /\ \A s \in Settings : Lower[s] <= Default[s] /\ Default[s] <= Upper[s]
  /\ \A s \in Settings \ Bounded : Parsable[s] \subseteq Lower[s]..Upper[s]
  /\ \A s \in Bounded : Upper[s] <= MaxInt

VARIABLES
  env,         \* the environment
  position,    \* where load() is
  value,       \* the variables of the package
  registered,  \* what telemetry was told of each setting
  warned,      \* the settings that were warned about
  started      \* whether telemetry was told that IAST is on

vars == <<env, position, value, registered, warned, started>>

Init ==
  /\ env \in [Settings -> EnvIntegers \union {Unset, NotParsed}]
  /\ position = 1
  /\ value = [s \in Settings |-> 0]
  /\ registered = [s \in Settings |-> [value |-> 0, origin |-> "none"]]
  /\ warned = {}
  /\ started = FALSE

-----------------------------------------------------------------------------
(* parser.FromEnv, and its variants for Booleans and unsigned integers.    *)
FromEnv(s) ==
  IF env[s] \in Parsable[s]
    THEN [value |-> env[s], origin |-> "env_var", failed |-> FALSE]
    ELSE [value |-> Default[s], origin |-> "default", failed |-> env[s] # Unset]

(* Mutant: the upper bound is forgotten.                                   *)
ClampUnsigned_NoUpper(v, lower, upper) == IF v < lower THEN lower ELSE v

(* Mutant: the value is converted before it is clamped.                    *)
ClampUnsigned_ConvertFirst(v, lower, upper) ==
  LET w == IF upper <= MaxUint8 THEN v % (MaxUint8 + 1) ELSE v IN
    IF w < lower THEN lower ELSE IF w > upper THEN upper ELSE w

ClampUnsigned(v, lower, upper) ==
  IF v < lower THEN lower ELSE IF v > upper THEN upper ELSE v

(* int(x) of an unsigned integer of 64 bits.                               *)
ToInt(x) == IF x <= MaxInt THEN x ELSE x - (MaxUint64 + 1)

(* Mutant: the value from the environment is registered as it stands.      *)
Load_RegisterRaw(s) ==
  LET parsed  == FromEnv(s)
      bounded == IF s \in Bounded THEN ClampUnsigned(parsed.value, Lower[s], Upper[s])
                                  ELSE parsed.value
  IN  /\ value' = [value EXCEPT ![s] = IF s \in Bounded THEN ToInt(bounded) ELSE bounded]
      /\ registered' =
           [registered EXCEPT ![s] = [value |-> parsed.value, origin |-> parsed.origin]]
      /\ warned' = IF parsed.failed \/ bounded # parsed.value
                     THEN warned \union {s} ELSE warned

(* loader.FromEnv, BoolFromEnv, UintFromEnv and UintFromEnvBounded: a text *)
(* that cannot be parsed is warned about, and so is a value out of bounds. *)
Load(s) ==
  LET parsed  == FromEnv(s)
      bounded == IF s \in Bounded THEN ClampUnsigned(parsed.value, Lower[s], Upper[s])
                                  ELSE parsed.value
  IN  /\ value' = [value EXCEPT ![s] = IF s \in Bounded THEN ToInt(bounded) ELSE bounded]
      /\ registered' = [registered EXCEPT ![s] = [value |-> bounded, origin |-> parsed.origin]]
      /\ warned' = IF parsed.failed \/ bounded # parsed.value
                     THEN warned \union {s} ELSE warned

LoadNext ==
  /\ position <= Len(Order)
  /\ Load(Order[position])
  /\ position' = position + 1
  /\ UNCHANGED <<env, started>>

(* The end of init().                                                      *)
ProductStarted ==
  /\ position = Len(Order) + 1
  /\ value[Enabled] = 1
  /\ ~started
  /\ started' = TRUE
  /\ UNCHANGED <<env, position, value, registered, warned>>

Next == LoadNext \/ ProductStarted

Spec == Init /\ [][Next]_vars

-----------------------------------------------------------------------------
(* Properties                                                              *)

Loaded == {Order[i] : i \in 1..(position - 1)}

(* Every setting that was loaded lies in its documented range, whatever    *)
(* the environment holds, and no conversion wraps it (config.go:80-92).    *)
WithinRange == \A s \in Loaded : value[s] \in Lower[s]..Upper[s]

(* A value the parser accepts ends as the closest value of the range.      *)
(* (loader.go:58-71, parser.go:115-124)                                    *)
Closest ==
  \A s \in Loaded : env[s] \in Parsable[s] =>
    \/ value[s] = env[s]
    \/ value[s] = Lower[s] /\ env[s] < Lower[s]
    \/ value[s] = Upper[s] /\ env[s] > Upper[s]

(* Telemetry is told the value in effect, as one of the environment only   *)
(* if the environment decided it; and nobody gets a value other than the   *)
(* one they asked for without a warning (loader.go:36-82).                 *)
ReportedAsEffective ==
  \A s \in Loaded :
    /\ registered[s].value = value[s]
    /\ registered[s].origin = "default" => value[s] = Default[s]
    /\ env[s] # Unset /\ value[s] # env[s] => s \in warned
=============================================================================
