----------------------------- MODULE AtomicTxn -----------------------------
(***************************************************************************)
(* What AdminState promises the clients of the administrative interface:   *)
(* one transaction at a time, whose acknowledged changes reach the state   *)
(* together when it commits, and none of which reach it otherwise.  The    *)
(* transaction may end without its client (a failed action, the monitor).  *)
(* No private copy, no threads, no lock: AdminTxn implements this.         *)
(***************************************************************************)
EXTENDS Naturals

CONSTANTS Changes, Closed

VARIABLES
    state,    \* the changes in the global state
    pending   \* the changes acknowledged in the open transaction, or Closed

Init == state = {} /\ pending = Closed

Begin == pending = Closed /\ pending' = {} /\ UNCHANGED state

Apply(c) == /\ pending # Closed
            /\ pending' = pending \cup {c}
            /\ UNCHANGED state

Commit == /\ pending # Closed
          /\ state' = state \cup pending
          /\ pending' = Closed

Abort == pending # Closed /\ pending' = Closed /\ UNCHANGED state

Next == Begin \/ (\E c \in Changes : Apply(c)) \/ Commit \/ Abort

Spec == Init /\ [][Next]_<<state, pending>>
=============================================================================
