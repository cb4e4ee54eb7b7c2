------------------------ MODULE SpeechQueueTickets ------------------------
(***************************************************************************)
(* The queue of SpeechQueue keeps the promise of TicketLifecycle.          *)
(***************************************************************************)
EXTENDS SpeechQueue

(* Some restart would still execute the ticket.                            *)
Redeemable(t) ==
  \E p \in possible : \E j \in Jobs : p.at[j].status = "pending" /\ p.at[j].ticket = t

(* The worker has the claim of a ticket whose stages have not begun.       *)
ClaimHeld(t) == pc \in {"claimed", "checked"} /\ entry.ticket = t

LifeOf(t) ==
  IF minted < t THEN "free"
  ELSE IF pc = "running" /\ entry.ticket = t THEN "executing"
  ELSE IF Redeemable(t) \/ ClaimHeld(t) THEN "issued"
  ELSE "spent"

Life == [t \in Tickets |-> LifeOf(t)]

Promise == INSTANCE TicketLifecycle WITH life <- Life

(* Whatever fails and whenever it restarts, the queue's tickets are        *)
(* issued, executed at most once and spent, one executing at a time.       *)
TicketPromise == Promise!Spec
=============================================================================
