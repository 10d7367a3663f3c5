--------------------------------- MODULE ScSignal ---------------------------------
(***************************************************************************)
(* sc_signalx: a value that changes at the end of the delta cycle.  The    *)
(* constructor initialises neither val nor _val.                           *)
(***************************************************************************)
EXTENDS ScScheduler

CONSTANT SignalValues

VARIABLES val, _val, delta

signalVars == <<val, _val, delta>>

SignalInit == val \in SignalValues /\ _val \in SignalValues /\ delta = -1

SignalWrite(newval) ==
  /\ _val' = newval
  /\ GoOn({}, IF newval # val THEN {"signal"} ELSE {})
  /\ UNCHANGED <<val, delta>>

SignalNotifies == IF _val # val THEN {"change"} ELSE {}
\* The delta count goes up before the updates.
SignalUpdate_Always ==
  /\ val' = _val /\ delta' = delta_count + 1
  /\ UNCHANGED _val
SignalUpdate ==
  /\ IF _val # val THEN val' = _val /\ delta' = delta_count + 1 ELSE UNCHANGED <<val, delta>>
  /\ UNCHANGED _val

event == delta = delta_count

================================================================================
