--------------------------- MODULE WriteBackStore ---------------------------
(***************************************************************************)
(* What a slab storage promises its callers, without caches or objects.    *)
(*                                                                         *)
(* Callers read and write a "view" of every slab.  A call that takes many  *)
(* steps (a commit, a preload) copies slabs of the view to a "saved" copy  *)
(* that survives restarts, one slab at a time, and only slabs that belong  *)
(* to an account.  Nothing else ever changes the saved copy; only a write, *)
(* or a return to the saved copy, ever changes the view, and neither       *)
(* happens during such a call unless the process dies.                     *)
(***************************************************************************)
CONSTANTS Ids,      \* all slab IDs
          OwnedIds, \* the IDs that belong to an account
          Contents, \* what a slab can hold
          None      \* "there is no such slab"

VARIABLES view,     \* what callers read under each ID
          saved,    \* what a restarted process would read
          busy      \* a call of many steps is running

Slots == Contents \cup {None}

Init == /\ saved \in [Ids -> Slots]
        /\ \A id \in Ids \ OwnedIds : saved[id] = None
        /\ view = saved
        /\ busy = FALSE

\* A caller rewrites one slab, or two at once when a slab moves to another ID.
Write == /\ ~ busy /\ ~ busy'
         /\ \E i, j \in Ids, x, y \in Slots :
              view' = [view EXCEPT ![i] = x, ![j] = y]
         /\ UNCHANGED saved

Begin == ~ busy /\ busy' /\ UNCHANGED <<view, saved>>

\* One account slab is saved; no caller sees a difference.
Save == /\ busy /\ busy'
        /\ \E id \in OwnedIds : saved' = [saved EXCEPT ![id] = view[id]]
        /\ UNCHANGED view

\* The call returns, with or without an error.
End == busy /\ ~ busy' /\ UNCHANGED <<view, saved>>

\* Everything unsaved is given up: dropped on purpose or lost in a crash.
Revert == ~ busy' /\ view' = saved /\ UNCHANGED saved

Next == Write \/ Begin \/ Save \/ End \/ Revert

Spec == Init /\ [][Next]_<<view, saved, busy>>
=============================================================================
