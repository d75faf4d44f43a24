----------------------------- MODULE CountLedger -----------------------------
(***************************************************************************)
(* What telemetry promises of a counter that is reset when it is           *)
(* submitted: every event is delivered exactly once, in some heartbeat     *)
(* after it happened.                                                      *)
(***************************************************************************)
EXTENDS Integers

CONSTANT Metrics   \* the counters

VARIABLES pending,   \* events of each counter that are still to be delivered
          delivered  \* those that were delivered

ledgerVars == <<pending, delivered>>

LedgerInit ==
  /\ pending   = [m \in Metrics |-> 0]
  /\ delivered = [m \in Metrics |-> 0]

Record(m) ==
  /\ pending' = [pending EXCEPT ![m] = @ + 1]
  /\ UNCHANGED delivered

(* Some or all of the pending events are delivered.                        *)
Deliver(m) ==
  \E n \in 1..pending[m] :
    /\ pending'   = [pending EXCEPT ![m] = @ - n]
    /\ delivered' = [delivered EXCEPT ![m] = @ + n]

LedgerNext == \E m \in Metrics : Record(m) \/ Deliver(m)

LedgerSpec == LedgerInit /\ [][LedgerNext]_ledgerVars
=============================================================================
