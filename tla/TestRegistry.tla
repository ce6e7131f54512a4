----------------------------- MODULE TestRegistry -----------------------------
(***************************************************************************)
(* What the session table promises the goroutines of the server: a test    *)
(* belongs to one client and one test ID, the first user brings it into    *)
(* being, everybody who comes while it is in use shares it, and it         *)
(* disappears with its last user - not before, and not later.              *)
(***************************************************************************)
CONSTANTS Keys, Users, Insts, None  \* None is no element of Insts

VARIABLES
  inst,     \* inst[k]: the test registered under k, or None
  holders   \* holders[k]: the users of that test

registryVars == <<inst, holders>>

RegistryTypeOK ==
  /\ inst \in [Keys -> Insts \cup {None}]
  /\ holders \in [Keys -> SUBSET Users]

RegistryInit ==
  /\ inst = [k \in Keys |-> None]
  /\ holders = [k \in Keys |-> {}]

\* The user u gets the test of k: the one in use, or one that is not in use.
Acquire(u, k) ==
  /\ u \notin holders[k]
  /\ holders' = [holders EXCEPT ![k] = @ \cup {u}]
  /\ IF holders[k] # {}
       THEN inst' = inst
       ELSE \E i \in Insts : /\ \A l \in Keys : inst[l] # i
                             /\ inst' = [inst EXCEPT ![k] = i]

\* The user u is done with the test of k; the last one takes it away.
Release(u, k) ==
  /\ u \in holders[k]
  /\ holders' = [holders EXCEPT ![k] = @ \ {u}]
  /\ inst' = IF holders[k] = {u} THEN [inst EXCEPT ![k] = None] ELSE inst

RegistryNext == \E u \in Users, k \in Keys : Acquire(u, k) \/ Release(u, k)

RegistrySpec == RegistryInit /\ [][RegistryNext]_registryVars
=============================================================================
