---------------------------- MODULE DistributedLock ----------------------------
(***************************************************************************)
(* The Redis lock of the workflow engine for one key, as withLock and       *)
(* executeTransaction use it: SET NX PX, tried again until the wait time is *)
(* over; the function; a release that deletes the key if it holds the       *)
(* caller's owner id.  A function may extend its lock.                      *)
(*                                                                         *)
(* Time passes in Ticks; a tick is at least the retry interval.  "age" is   *)
(* the time since Redis set the key, so the way back to the caller counts.  *)
(*                                                                         *)
(* An operator marked "Variant" is wrong on purpose: a run with it in the   *)
(* place of the definition that follows must find a property violated.      *)
(***************************************************************************)
EXTENDS Integers

CONSTANTS
  Callers,    \* calls, of any processes
  Free,       \* the key is not set
  Owner,      \* the owner id each call passes
  Ttl,        \* ttlMs
  WaitTime,   \* waitTimeMs
  MaxHold     \* bounds the time from SET to the end of the function

ASSUME LockAssumption ==
  /\ Free \notin Callers
  /\ DOMAIN Owner = Callers
  /\ Ttl \in Nat \ {0} /\ WaitTime \in Nat /\ MaxHold \in Nat

VARIABLES
  lock,    \* the call that set the key, or Free
  ttl,     \* the time the key has left
  pc,      \* where each call is
  age,     \* how long ago a running call was given the lock
  waited   \* how long a trying call has tried

vars == <<lock, ttl, pc, age, waited>>

TypeOK ==
  /\ lock \in Callers \cup {Free}
  /\ ttl \in 0 .. Ttl /\ (lock = Free <=> ttl = 0)
  /\ pc \in [Callers -> {"idle", "trying", "running", "releasing"}]
  /\ age \in [Callers -> 0 .. MaxHold]
  /\ waited \in [Callers -> 0 .. WaitTime]

Init ==
  /\ lock = Free /\ ttl = 0
  /\ pc = [p \in Callers |-> "idle"]
  /\ age = [p \in Callers |-> 0]
  /\ waited = [p \in Callers |-> 0]

\* p goes on to s, where no time is counted.
Go(p, s) ==
  /\ pc' = [pc EXCEPT ![p] = s]
  /\ age' = [age EXCEPT ![p] = 0]
  /\ waited' = [waited EXCEPT ![p] = 0]

-----------------------------------------------------------------------------
Start(p) == pc[p] = "idle" /\ Go(p, "trying") /\ UNCHANGED <<lock, ttl>>

\* Variant: SET PX without NX.
SetKeyAnyway(p) == lock' = p /\ ttl' = Ttl

\* Variant: SET NX without PX: the key has no end.
SetKeyForever(p) == lock = Free /\ lock' = p /\ ttl' = -1

\* SET NX PX by p.
SetKey(p) == lock = Free /\ lock' = p /\ ttl' = Ttl

\* Variant: the key is deleted whoever holds it.
DeleteAny(p) == lock' = Free /\ ttl' = 0

\* The key is deleted if the owner id it holds is p's.
DeleteIfOwn(p) ==
  IF lock # Free /\ Owner[lock] = Owner[p]
  THEN lock' = Free /\ ttl' = 0
  ELSE UNCHANGED <<lock, ttl>>

Acquire(p) == pc[p] = "trying" /\ SetKey(p) /\ Go(p, "running")

\* The lock is taken and the call has waited long enough.
GiveUp(p) ==
  /\ pc[p] = "trying" /\ lock # Free /\ waited[p] = WaitTime
  /\ Go(p, "idle") /\ UNCHANGED <<lock, ttl>>

\* The command fails, which ends the call; Redis may have set the key.
AcquireError(p) ==
  /\ pc[p] = "trying" /\ Go(p, "idle")
  /\ SetKey(p) \/ UNCHANGED <<lock, ttl>>

\* PEXPIRE if the key holds p's owner id.
Extend(p) ==
  /\ pc[p] = "running" /\ lock # Free /\ Owner[lock] = Owner[p]
  /\ ttl' = Ttl
  /\ UNCHANGED <<lock, pc, age, waited>>

\* The function returns or throws.
End(p) == pc[p] = "running" /\ Go(p, "releasing") /\ UNCHANGED <<lock, ttl>>

Release(p) == pc[p] = "releasing" /\ Go(p, "idle") /\ DeleteIfOwn(p)

\* A release that fails is logged.
ReleaseError(p) ==
  /\ pc[p] = "releasing" /\ Go(p, "idle")
  /\ DeleteIfOwn(p) \/ UNCHANGED <<lock, ttl>>

Crash(p) == pc[p] # "idle" /\ Go(p, "idle") /\ UNCHANGED <<lock, ttl>>

ExpireKey ==
  /\ lock' = IF ttl = 1 THEN Free ELSE lock
  /\ ttl'  = IF ttl > 0 THEN ttl - 1 ELSE ttl

\* Variant: each attempt starts the wait anew.
WaitedAnew(p) == 0

\* Variant: the wait goes on when its time is over.
WaitedOn(p) == waited[p] + 1

Waited(p) == IF waited[p] < WaitTime THEN waited[p] + 1 ELSE waited[p]

Tick ==
  /\ \A p \in Callers : pc[p] = "running" => age[p] < MaxHold
  /\ ExpireKey
  /\ age' = [p \in Callers |-> IF pc[p] = "running" THEN age[p] + 1 ELSE age[p]]
  /\ waited' = [p \in Callers |-> IF pc[p] = "trying" THEN Waited(p) ELSE waited[p]]
  /\ UNCHANGED pc

Call(p) == Acquire(p) \/ GiveUp(p) \/ End(p) \/ Release(p)

Next ==
  \/ Tick
  \/ \E p \in Callers :
       \/ Start(p) \/ Call(p) \/ Extend(p)
       \/ AcquireError(p) \/ ReleaseError(p) \/ Crash(p)

Spec == Init /\ [][Next]_vars

\* Time passes, a call goes on trying, and its function ends.
FairSpec == Spec /\ WF_vars(Tick) /\ \A p \in Callers : WF_vars(Call(p))

-----------------------------------------------------------------------------
(* Properties *)

InTime(p) == pc[p] = "running" /\ age[p] < Ttl

\* Of the functions that have held the lock for less than ttlMs no two run,
\* whatever crashes, fails or waits, and beside one that outlasts ttlMs.
Exclusive ==
  \A p, q \in Callers : InTime(p) /\ InTime(q) => p = q

\* A key goes away because its time is over or because the call that set it has
\* ended: a release that comes after the key has expired and was set by another
\* call leaves that call its lock.  (Checked with functions that take too long.)
ReleaseIsOwn ==
  [][lock # Free /\ lock' = Free => ttl = 1 \/ pc[lock] = "releasing"]_vars

\* However a call ends, its key does not stay.
KeyGoes == \A p \in Callers : lock = p ~> lock # p

\* Nobody waits forever: a call gets the lock, or ends without it.
WaitEnds == \A p \in Callers : pc[p] = "trying" ~> pc[p] # "trying"

=============================================================================
