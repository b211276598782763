--------------------------- MODULE MCWorkerQueue ---------------------------
(* WorkerQueue on three small instances for TLC, on the same variables: one  *)
(* job through two leases with the completion gate in front of it, one job   *)
(* through three leases without the gate, and two jobs that share an         *)
(* idempotency key with one lease each or two of one.  focus picks the one a *)
(* behaviour exercises.                                                      *)
EXTENDS WorkerQueue, TLC

VARIABLE focus

Gated == INSTANCE WorkerQueue WITH MaxGrants <- 2
Leases == INSTANCE WorkerQueue WITH TTL <- 1, MaxClaims <- 0
Two == INSTANCE WorkerQueue WITH MaxGrants <- 2, TTL <- 1, MaxClaims <- 0

MCInit == Init /\ focus \in {"gate", "three leases", "two jobs"}

MCNext ==
  \/ focus = "gate" /\ Gated!Next /\ njobs' <= 1 /\ UNCHANGED focus
  \/ focus = "three leases" /\ Leases!Next /\ njobs' <= 1 /\ UNCHANGED focus
  \/ focus = "two jobs" /\ Two!Next /\ UNCHANGED focus

\* Clocks advance.  Nothing inside the queue calls reap_stale_leases: that
\* someone keeps calling it is an assumption about the queue's owner.
MCSpec == MCInit /\ [][MCNext]_<<vars, focus>> /\ WF_vars(Tick) /\ WF_vars(ReapStaleLeases)
=============================================================================
