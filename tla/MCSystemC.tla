-------------------------------- MODULE MCSystemC --------------------------------
(***************************************************************************)
(* Programs for TLC: writers and readers of the FIFO, users of the mutex,  *)
(* of the signal and of a clock, with the numbers of calls bounded.        *)
(***************************************************************************)
EXTENDS SystemC

CONSTANTS p1, p2, p3

Do(op) == [op |-> op, v |-> 0]
With(op, v) == [op |-> op, v |-> v]
Pause == With("await", "delta")
Program(a, b, c, t) ==
  [calls |-> [p \in Processes |-> IF p = p1 THEN a ELSE IF p = p2 THEN b ELSE c], period |-> t]
Times(n, calls) == FlattenSeq([k \in 1 .. n |-> calls])

Writes(vs) == [k \in DOMAIN vs |-> With("write", vs[k])]
Guarded == <<Do("lock"), Pause, Do("unlock")>>

MCPrograms ==
  { Program(Writes(<<1, 2, 3, 4, 5>>), Times(3, <<Do("read")>>), <<Do("nb_read"), Pause, Do("read")>>, 2),
    Program(Writes(<<1, 2, 3>>), Writes(<<4, 5, 6>>), Times(3, <<Do("read"), Pause, Do("read")>>), 2),
    Program(Writes(<<1, 2>>) \o <<Pause>> \o Writes(<<3>>), Times(3, <<Do("nb_read")>>), <<>>, 2),
    Program(Times(2, Guarded), Guarded \o <<Pause>> \o Guarded, <<Do("trylock")>> \o Guarded, 2),
    Program(<<Do("lock"), With("write", 1), Pause, Do("unlock")>>, <<Do("read"), Do("lock"), Do("unlock")>>, Guarded, 2),
    Program(<<With("set", 1), Pause, With("set", 0), With("set", 1), Pause, With("set", 0)>>,
            <<With("set", 1), Pause, Pause, With("set", 1)>>, <<Pause, With("set", 0)>>, 2) }
  \cup { Program(<<Do("clock")>> \o Times(4, <<Do("tick")>>), Times(3, <<With("await", "edge"), Do("look")>>),
                 <<With("await", "clock_change"), With("set", 1)>>, t) : t \in 1 .. 4 }
  \cup { Program(<<Do("clock")>> \o Times(3, <<Do("tick")>>), <<With("await", "edge"), With("set_clock", TRUE)>>,
                 <<Pause, With("set_clock", FALSE), With("await", "clock_change")>>, 2) }

\* Every process has returned or waits for ever.
Finished == EvaluationOver /\ ~DeltaPending /\ WaitingFor("time") = {} /\ UNCHANGED vars

MCNext == Next \/ Finished
MCSpec == Init /\ [][MCNext]_vars /\ WF_vars(Next)

================================================================================
