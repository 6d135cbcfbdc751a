----------------------------- MODULE MCDashboard -----------------------------
(* Two events and two overview requests in flight.  The events are alike, so *)
(* it is e1 that exists at first, if one does.                               *)
EXTENDS Dashboard

CONSTANTS e1, e2, s1, s2

OneEventInit == Init /\ existing \subseteq {e1}
OneEventSpec == OneEventInit /\ [][Next]_vars /\ Fairness
==============================================================================
