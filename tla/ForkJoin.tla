------------------------------ MODULE ForkJoin ------------------------------
(***************************************************************************)
(* What a pool of persistent workers promises its callers: one run at a    *)
(* time; every item of the run is worked on exactly once, by a worker or   *)
(* by the caller, and a run returns only when nothing of it is in hand,    *)
(* without an error only when all of it was done.  Once stopped the pool   *)
(* runs nothing, and Close returns only when no worker is left.            *)
(***************************************************************************)
EXTENDS Naturals

CONSTANTS Callers, Workers, Items, NoOne

VARIABLES
  run,      \* the caller whose run it is
  want,     \* the items of the run
  busy,     \* handed to workers, not finished
  ran,      \* finished
  alive,    \* workers that have not left
  stopping, \* runs may be refused
  stopped,
  answer    \* what each caller was told last

vars == <<run, want, busy, ran, alive, stopping, stopped, answer>>

Init ==
  /\ run = NoOne /\ want = {} /\ busy = {} /\ ran = {}
  /\ alive \in SUBSET Workers
  /\ ~stopping /\ ~stopped
  /\ answer = [c \in Callers |-> "none"]

Tell(c, a) == answer' = [answer EXCEPT ![c] = a]

Call(c) ==
  /\ Tell(c, "none")
  /\ UNCHANGED <<run, want, busy, ran, alive, stopping, stopped>>

Begin(c, S) ==
  /\ run = NoOne /\ ~stopped
  /\ run' = c /\ want' = S /\ ran' = {}
  /\ UNCHANGED <<busy, alive, stopping, stopped, answer>>

Hand(S) ==
  /\ run # NoOne /\ S \subseteq want \ (busy \cup ran)
  /\ busy' = busy \cup S
  /\ UNCHANGED <<run, want, ran, alive, stopping, stopped, answer>>

Finish(S) ==
  /\ S \subseteq busy
  /\ busy' = busy \ S /\ ran' = ran \cup S
  /\ UNCHANGED <<run, want, alive, stopping, stopped, answer>>

(* The caller works on S itself, on scratch that a worker may own: only    *)
(* while no worker is at it.                                               *)
Self(S) ==
  /\ run # NoOne /\ busy = {} /\ S \subseteq want \ ran
  /\ ran' = ran \cup S
  /\ UNCHANGED <<run, want, busy, alive, stopping, stopped, answer>>

Return(a) ==
  /\ run # NoOne /\ busy = {}
  /\ a = "done" => ran = want
  /\ run' = NoOne /\ want' = {} /\ ran' = {}
  /\ Tell(run, a)
  /\ UNCHANGED <<busy, alive, stopping, stopped>>

Refuse(c, a) ==
  /\ a = "refused" => stopping
  /\ Tell(c, a)
  /\ UNCHANGED <<run, want, busy, ran, alive, stopping, stopped>>

Stop ==
  /\ stopping' = TRUE
  /\ stopped' \in BOOLEAN
  /\ stopped' # stopped => run = NoOne /\ stopped'
  /\ UNCHANGED <<run, want, busy, ran, alive, answer>>

Leave(w) ==
  /\ stopped /\ busy = {}
  /\ alive' = alive \ {w}
  /\ UNCHANGED <<run, want, busy, ran, stopping, stopped, answer>>

Closed(c) ==
  /\ stopped /\ alive = {}
  /\ Tell(c, "closed")
  /\ UNCHANGED <<run, want, busy, ran, alive, stopping, stopped>>

Next ==
  \/ \E c \in Callers :
       \/ Call(c) \/ Closed(c)
       \/ \E S \in SUBSET Items : Begin(c, S)
       \/ \E a \in {"refused", "cancelled"} : Refuse(c, a)
  \/ \E S \in SUBSET Items : Hand(S) \/ Finish(S) \/ Self(S)
  \/ \E a \in {"done", "cancelled"} : Return(a)
  \/ Stop
  \/ \E w \in Workers : Leave(w)

Spec == Init /\ [][Next]_vars
=============================================================================
