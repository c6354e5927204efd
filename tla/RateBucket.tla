----------------------------- MODULE RateBucket -----------------------------
(***************************************************************************)
(* The minimum-interval gate shared by the flows of a credential or of a   *)
(* source host.  acquire() reserves a slot under the lock, sleeps outside  *)
(* of it and corrects the slot on waking; the waiter may be cancelled      *)
(* while it sleeps, and wakes late when the runtime is busy.               *)
(*                                                                         *)
(* Times are relative to now: slot[b] is `last` of bucket b, -Interval or  *)
(* less being as good as never; left[u] is the time until user u's slot.   *)
(***************************************************************************)
EXTENDS Integers, FiniteSets

CONSTANTS
    Buckets,   \* RateBucket instances
    Users,     \* tasks that call acquire(), one call at a time
    Interval,  \* min_interval
    MaxLate,   \* bound: how much too late a sleeper is woken
    MaxAhead,  \* bound: how far ahead a slot is reserved
    Nowhere    \* not a bucket

ASSUME BucketAssumption ==
    /\ Interval \in Nat \ {0} /\ MaxLate \in Nat /\ MaxAhead \in Nat
    /\ Nowhere \notin Buckets

VARIABLES
    slot,   \* the last reserved slot of each bucket
    at,     \* the bucket each user waits for, or Nowhere
    left    \* ticks until its reservation, negative once it is late

bucketVars == <<slot, at, left>>

BucketTypeOK ==
    /\ slot \in [Buckets -> Int] /\ \A b \in Buckets : slot[b] >= -Interval
    /\ at \in [Users -> Buckets \cup {Nowhere}]
    /\ left \in [Users -> Int]

BucketInit ==
    /\ slot = [b \in Buckets |-> -Interval]
    /\ at = [u \in Users |-> Nowhere]
    /\ left = [u \in Users |-> 0]

\* The later of now and one interval after the latest reservation.
Target(b) == IF slot[b] + Interval > 0 THEN slot[b] + Interval ELSE 0

\* acquire(), first critical section.
Reserve(u, b) ==
    /\ at[u] = Nowhere /\ Target(b) <= MaxAhead
    /\ slot' = [slot EXCEPT ![b] = Target(b)]
    /\ at' = [at EXCEPT ![u] = b]
    /\ left' = [left EXCEPT ![u] = Target(b)]

\* acquire(), after the sleep: a late waker moves the slot up to now.
Woken(u) ==
    /\ at[u] # Nowhere /\ left[u] <= 0
    /\ slot' = [slot EXCEPT ![at[u]] = IF @ < 0 THEN 0 ELSE @]
    /\ at' = [at EXCEPT ![u] = Nowhere]
    /\ left' = [left EXCEPT ![u] = 0]

\* The future is dropped by a select!: the reservation stays.
Abandon(u) ==
    /\ at[u] # Nowhere
    /\ at' = [at EXCEPT ![u] = Nowhere] /\ left' = [left EXCEPT ![u] = 0]
    /\ UNCHANGED slot

\* Time passes; no sleeper is left more than MaxLate behind.
BucketTick ==
    /\ \A u \in Users : at[u] # Nowhere => left[u] > -MaxLate
    /\ slot' = [b \in Buckets |-> IF slot[b] > -Interval THEN slot[b] - 1 ELSE slot[b]]
    /\ left' = [u \in Users |-> IF at[u] # Nowhere THEN left[u] - 1 ELSE left[u]]
    /\ UNCHANGED at

BucketNext ==
    \/ \E u \in Users, b \in Buckets : Reserve(u, b)
    \/ \E u \in Users : Woken(u) \/ Abandon(u)
    \/ BucketTick

BucketSpec == BucketInit /\ [][BucketNext]_bucketVars

-----------------------------------------------------------------------------
\* Two users of one bucket never hold slots closer than the interval, however the
\* calls overlap, whoever is cancelled and however late anybody wakes.
SlotsSpaced ==
    \A u, v \in Users :
       (u # v /\ at[u] # Nowhere /\ at[u] = at[v]) =>
          left[u] - left[v] >= Interval \/ left[v] - left[u] >= Interval

=============================================================================
