----------------------------- MODULE FencedLog -----------------------------
(***************************************************************************)
(* What a fenced work queue promises about the checkpoints of its items,   *)
(* with nothing said about leases, tokens, clocks or verdicts.             *)
(*                                                                         *)
(* Every item has a fencing generation, which only grows, and a log, which *)
(* is only extended at its end, only under the generation that is current, *)
(* and only with a larger sequence number than the last entry's.  In the   *)
(* repository this is the promise of the header of                         *)
(* tools/workers/queue.py: "monotonic lease_generation fencing tokens,     *)
(* checkpoint resumption on worker disconnect".                            *)
(***************************************************************************)
EXTENDS Naturals, Sequences

CONSTANTS
  Items,   \* what is queued
  Seqs     \* the sequence numbers a checkpoint may carry

VARIABLES epoch, log

LastSeq(i) == IF log[i] = <<>> THEN 0 ELSE log[i][Len(log[i])].seq

Init ==
  /\ epoch = [i \in Items |-> 0]
  /\ log = [i \in Items |-> <<>>]

\* The item is handed to a new owner: the old one is fenced from here on.
Advance(i) ==
  /\ epoch' = [epoch EXCEPT ![i] = @ + 1]
  /\ UNCHANGED log

\* The owner of the current generation appends one checkpoint.
Extend(i) ==
  /\ \E s \in Seqs :
        /\ s > LastSeq(i)
        /\ log' = [log EXCEPT ![i] = Append(@, [gen |-> epoch[i], seq |-> s])]
  /\ UNCHANGED epoch

Next == \E i \in Items : Advance(i) \/ Extend(i)

Spec == Init /\ [][Next]_<<epoch, log>>
=============================================================================
