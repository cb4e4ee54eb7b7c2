-------------------------- MODULE TicketLifecycle --------------------------
(***************************************************************************)
(* What the durable queue promises about its tickets, with neither a       *)
(* journal, a worker nor failures in sight: a ticket only moves forward,   *)
(* so it executes at most once and never after it was spent, and one       *)
(* ticket executes at a time.  One step may spend several tickets: a power *)
(* loss forgets whatever was not yet synced.                               *)
(***************************************************************************)
CONSTANT Tickets

VARIABLE life

Lives == {"free", "issued", "executing", "spent"}

Forward == {<<"free", "issued">>, <<"free", "spent">>, <<"issued", "executing">>,
            <<"issued", "spent">>, <<"executing", "spent">>}

Init == life = [t \in Tickets |-> "free"]

Executing == {t \in Tickets : life[t] = "executing"}

Next ==
  /\ life' \in [Tickets -> Lives]
  /\ \A t \in Tickets : life'[t] = life[t] \/ <<life[t], life'[t]>> \in Forward
  /\ \A t, u \in Executing' : t = u

Spec == Init /\ [][Next]_life
=============================================================================
