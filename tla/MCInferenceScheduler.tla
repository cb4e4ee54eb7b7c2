----------------------- MODULE MCInferenceScheduler -----------------------
(* Small instances of InferenceScheduler for TLC.                          *)
EXTENDS InferenceScheduler

CONSTANT faulty

(* The faulty request arrives after the others, which arrive together.     *)
MCArrival == [i \in Requests |-> IF i = faulty THEN 2 ELSE 1]

(* Nobody arrives before anybody else.                                     *)
TieArrival == [i \in Requests |-> 1]
=============================================================================
