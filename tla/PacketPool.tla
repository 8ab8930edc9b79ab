------------------------------ MODULE PacketPool ------------------------------
(***************************************************************************)
(* The free list of packets that all cameras share (packet_pool.hpp).      *)
(* Both operations hold its mutex, so each is one step.  A packet has no   *)
(* identity here: what can go wrong is that one is not given back.         *)
(***************************************************************************)
EXTENDS Naturals

CONSTANT PoolCapacity   \* capacity_, 300 in the program

ASSUME PoolAssumption == PoolCapacity \in Nat

VARIABLES
  free,   \* free_list_, by its size
  live    \* packets that were allocated and not freed

pool == <<free, live>>

PoolTypeOK == free \in 0 .. PoolCapacity /\ live \in Nat

PoolInit == free = 0 /\ live = 0

Acquire ==
  IF free = 0 THEN live' = live + 1 /\ UNCHANGED free
              ELSE free' = free - 1 /\ UNCHANGED live

(* Mutant: a full list is not noticed.                                     *)
Release_AlwaysKeeps == free' = free + 1 /\ UNCHANGED live

Release ==
  IF free < PoolCapacity THEN free' = free + 1 /\ UNCHANGED live
                         ELSE live' = live - 1 /\ UNCHANGED free

=============================================================================
