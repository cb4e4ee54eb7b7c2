--------------------------- MODULE MCWorkerPools ---------------------------
(* Pools of two and three workers under two callers.  Four tiles over three*)
(* workers leave the last of them without a job, and over two workers give *)
(* a wave of two rounds.                                                   *)
EXTENDS WorkerPools

AllKinds == {"channel", "cond", "spin", "gemm"}
=============================================================================
