--------------------------------- MODULE ScClock ---------------------------------
(***************************************************************************)
(* sc_clockx: a thread that flips the clock every half period, and a       *)
(* write like that of a signal.  The thread sets clk at once, and not      *)
(* through the update; edge and change are notified before that, also when *)
(* the thread starts and nothing changes.  clk and _clk are the code's val *)
(* and _val.                                                               *)
(***************************************************************************)
EXTENDS ScScheduler

VARIABLES clk, _clk, period

clockVars == <<clk, _clk, period>>

ClockInit(p) == clk = TRUE /\ _clk = TRUE /\ period = p

\* run up to the first wait.  Half of an odd period is rounded down, and a period
\* of 1 waits for no time at all.
tmp == period \div 2
ClockWait ==
  /\ running' = NoProcess
  /\ waits' = [waits EXCEPT ![running] = IF tmp = 0 THEN "delta" ELSE "time"]
  /\ timer' = [timer EXCEPT ![running] = now + tmp]

ClockStart ==
  /\ ClockWait
  /\ notified' = notified \cup {"edge", "clock_change"}
  /\ UNCHANGED <<runnable, requested, delta_count, now>>
  /\ UNCHANGED clockVars

ClockTick ==
  /\ ClockWait /\ clk' = ~clk
  /\ notified' = notified \cup {"edge", "clock_change"}
  /\ UNCHANGED <<runnable, requested, delta_count, now, _clk, period>>

ClockWrite(newval) ==
  /\ _clk' = newval
  /\ GoOn({}, IF newval # clk THEN {"clock"} ELSE {})
  /\ UNCHANGED <<clk, period>>

ClockNotifies == IF _clk # clk THEN {"clock_change"} ELSE {}
ClockUpdate == clk' = _clk /\ UNCHANGED <<_clk, period>>

================================================================================
