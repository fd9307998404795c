---------------------------- MODULE ConfigRegister ----------------------------
(* What the persistence seam (include/rurp_config_storage.h) has to be for the policy
   above it: a register that holds one configuration or none.  A write either takes
   effect as a whole or leaves the old value, whenever the power goes. *)
EXTENDS Naturals

CONSTANT Value

VARIABLES stored,   \* {} or {v}: what a load returns
          pending   \* {} or {v}: the write under way

rvars == <<stored, pending>>

Holds(s) == s = {} \/ \E v \in Value : s = {v}

RInit == Holds(stored) /\ pending = {}

Begin == pending = {} /\ (\E v \in Value : pending' = {v}) /\ UNCHANGED stored
Commit == pending # {} /\ stored' = pending /\ pending' = {}
Drop == pending # {} /\ pending' = {} /\ UNCHANGED stored

RNext == Begin \/ Commit \/ Drop
RSpec == RInit /\ [][RNext]_rvars
===============================================================================
