----------------------------- MODULE StageLease -----------------------------
(***************************************************************************)
(* What a Vulkan stage owner promises to the executor that admits jobs to  *)
(* it: the stage is leased to one job at a time, and the lease comes back  *)
(* only when no native work of the owner survives.  Otherwise it is never  *)
(* given back.  The owner's resources are destroyed only once it is        *)
(* stopping, under the lease of a closer, while nothing of it is executing;*)
(* after that it runs nothing.                                             *)
(***************************************************************************)
CONSTANTS
  Runners,  \* the jobs' threads
  Closers,  \* the threads that close the owner
  Owned,    \* the owner's resources
  Nobody    \* the holder of a lease that is free

VARIABLES
  holder,   \* who has the lease
  native,   \* work of this owner is executing on the device
  stopping, \* Close has been called
  gone,     \* destroyed resources
  closed

vars == <<holder, native, stopping, gone, closed>>

Init ==
  /\ holder = Nobody /\ ~native /\ ~stopping /\ gone = {} /\ ~closed

Lease(t) ==
  /\ holder = Nobody /\ ~closed
  /\ t \in Runners => ~stopping
  /\ holder' = t
  /\ UNCHANGED <<native, stopping, gone, closed>>

Submit ==
  /\ holder \in Runners /\ ~native /\ gone = {}
  /\ native' = TRUE
  /\ UNCHANGED <<holder, stopping, gone, closed>>

Complete ==
  /\ native /\ native' = FALSE
  /\ UNCHANGED <<holder, stopping, gone, closed>>

Stop ==
  /\ stopping' = TRUE
  /\ UNCHANGED <<holder, native, gone, closed>>

Destroy(r) ==
  /\ holder \in Closers /\ stopping /\ ~native
  /\ gone' = gone \cup {r}
  /\ UNCHANGED <<holder, native, stopping, closed>>

Release ==
  /\ holder # Nobody /\ ~native
  /\ holder' = Nobody
  /\ closed' = (holder \in Closers /\ gone = Owned)
  /\ UNCHANGED <<native, stopping, gone>>

Next ==
  \/ \E t \in Runners \cup Closers : Lease(t)
  \/ Submit \/ Complete \/ Stop \/ Release
  \/ \E r \in Owned : Destroy(r)

Spec == Init /\ [][Next]_vars
=============================================================================
