----------------------------- MODULE RateLimiter -----------------------------
(***************************************************************************)
(* The token bucket of one provider (crates/cceroby/src/rate_limit.rs).    *)
(*                                                                         *)
(* A task reads the clock, then waits for the bucket's lock, and decides   *)
(* under the lock with the time it read before: it takes a token or sleeps *)
(* until one should be there, and tries again.  Tokens are counted in      *)
(* ticks of refill, so that the fractions of the code stay whole numbers.  *)
(***************************************************************************)
EXTENDS Integers

-----------------------------------------------------------------------------
(* The tasks of the running cceroby processes: how far each has come, and  *)
(* the one clock they all read.                                            *)

CONSTANTS
  Task,      \* requests and commands under way
  Process    \* cceroby programs running on the machine

VARIABLES
  job,     \* of each task: [does, process, key], given when it starts
  stage,   \* what each task does next
  clock    \* the time, in ticks

Does(t) == job[t].does
Home(t) == job[t].process
Ended(t) == stage[t] \in {"done", "dead"}
Siblings(t) == {u \in Task : Home(u) = Home(t)}

At(t, s) == stage[t] = s
GoTo(t, s) == stage' = [stage EXCEPT ![t] = s]

\* The latest of two times, the least of two amounts.
Later(a, b) == IF a >= b THEN a ELSE b
Lesser(a, b) == IF a <= b THEN a ELSE b

-----------------------------------------------------------------------------
(* The bucket.                                                             *)

CONSTANTS
  Capacity,   \* TokenBucketPolicy::capacity
  Interval    \* TokenBucketPolicy::refill_interval, in ticks

ASSUME CapacityAssumption == Capacity \in Nat \ {0}
ASSUME IntervalAssumption == Interval \in Nat \ {0}

VARIABLES
  level,     \* BucketState::available of each process, in ticks
  updated,   \* BucketState::updated_at of each process
  instant,   \* the time each task read before it waited for the lock
  due,       \* when each sleeping task wakes
  granted,   \* tokens each process took so far
  rewound    \* ticks a bucket's time was moved back, in all

limiterVars == <<level, updated, instant, due, granted, rewound>>

Full == Capacity * Interval

LimiterInit ==
  /\ level = [p \in Process |-> Full]
  /\ updated = [p \in Process |-> clock]
  /\ instant = [t \in Task |-> clock]
  /\ due = [t \in Task |-> clock]
  /\ granted = [p \in Process |-> 0]
  /\ rewound = [p \in Process |-> 0]

\* The head of the loop: the clock is read before the lock is there.
ReadClock(t) ==
  /\ At(t, "asking") /\ GoTo(t, "locking")
  /\ instant' = [instant EXCEPT ![t] = clock]
  /\ UNCHANGED <<job, clock, level, updated, due, granted, rewound>>

\* What the bucket holds by the time the task read.
Replenished(t) ==
  Lesser(level[Home(t)] + Later(0, instant[t] - updated[Home(t)]), Full)

\* Faulty variant: the bucket keeps its time, and fills for it again.
SettleKeepingTime(t, rest) ==
  /\ level' = [level EXCEPT ![Home(t)] = rest]
  /\ UNCHANGED <<job, clock, instant, updated, rewound>>
\* The update of the bucket under its lock, leaving `rest` in it.
Settle(t, rest) ==
  LET p == Home(t) IN
  /\ level' = [level EXCEPT ![p] = rest]
  /\ updated' = [updated EXCEPT ![p] = instant[t]]
  /\ rewound' = [rewound EXCEPT ![p] = @ + Later(0, updated[p] - instant[t])]
  /\ UNCHANGED <<job, clock, instant>>

\* Faulty variant: a token is granted only when more than one is there.
MoreThanEnough(t) == Replenished(t) > Interval
\* decide_acquire: one whole token is enough.
Enough(t) == Replenished(t) >= Interval

Grant(t) ==
  /\ At(t, "locking") /\ Enough(t)
  /\ Settle(t, Replenished(t) - Interval)
  /\ granted' = [granted EXCEPT ![Home(t)] = @ + 1]
  /\ GoTo(t, "granted") /\ UNCHANGED due

Postpone(t) ==
  /\ At(t, "locking") /\ ~Enough(t)
  /\ Settle(t, Replenished(t))
  /\ due' = [due EXCEPT ![t] = clock + (Interval - Replenished(t))]
  /\ GoTo(t, "sleeping") /\ UNCHANGED granted

Wake(t) ==
  /\ At(t, "sleeping") /\ clock >= due[t]
  /\ GoTo(t, "asking")
  /\ UNCHANGED <<job, clock, limiterVars>>

Acquire(t) == ReadClock(t) \/ Grant(t) \/ Postpone(t) \/ Wake(t)

(***************************************************************************)
(* Since it started a process's bucket granted no more than its capacity   *)
(* and one token for each interval, but for the time its own clock was     *)
(* moved back: a task that waited for the lock sets the time of the bucket *)
(* to the earlier moment it read, and the ticks since are refilled again.  *)
(***************************************************************************)
GrantsAreBounded ==
  \A p \in Process : granted[p] * Interval <= Full + clock + rewound[p]
=============================================================================
