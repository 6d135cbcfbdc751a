--------------------------- MODULE MCEventTimeline ---------------------------
(* Two events; t1 reports from e1 only, t2 from both.  A window of one minute *)
(* of two ticks, and queries that return one of the two rows there may be.    *)
EXTENDS EventTimeline

CONSTANTS e1, e2, t1, t2, s1, s2

HomeNext == Next /\ \A r \in history' : r.thing = t1 => r.event = e1
HomeSpec == Init /\ [][HomeNext]_vars /\ Fairness
==============================================================================
