---------------------------- MODULE RateLimiter ----------------------------
(***************************************************************************)
(* The sliding window of InMemoryRateLimiter.is_allowed for one key        *)
(* (backend/app/core/rate_limit.py). Requests run in a thread pool: each   *)
(* reads the clock first and takes the lock later, so a request may decide *)
(* with a reading older than one already recorded.                         *)
(***************************************************************************)
EXTENDS Naturals, Sequences, FiniteSets

CONSTANTS
    Callers,       \* threads with a request of the key
    MaxCalls,      \* the budget of the key
    Window,        \* window_seconds, in ticks of the clock
    MaxTime        \* bound: last tick

VARIABLES
    now,           \* time.monotonic()
    stamp,         \* the reading each caller decides with; 0 when it has none
    bucket,        \* self._events[key]: readings of the calls let through
    granted        \* history: [stamp, at] of every call let through, in order

vars == <<now, stamp, bucket, granted>>

(***************************************************************************)
(* Mutants.                                                                *)
(***************************************************************************)
(* The call is recorded before the test, and the test is off by one.       *)
AllowedOneMore(events) == Len(events) <= MaxCalls

(* The events a reading leaves: those at the head that fell out of the     *)
(* window, up to the first that did not.                                   *)
Expired(reading, events) ==
    CHOOSE n \in 0..Len(events) :
        /\ \A i \in 1..n : events[i] + Window <= reading
        /\ n < Len(events) => events[n + 1] + Window > reading

Remaining(reading, events) == SubSeq(events, Expired(reading, events) + 1, Len(events))

-----------------------------------------------------------------------------
Init ==
    /\ now = 1
    /\ stamp = [c \in Callers |-> 0]
    /\ bucket = <<>>
    /\ granted = <<>>

Tick ==
    /\ now < MaxTime
    /\ now' = now + 1
    /\ UNCHANGED <<stamp, bucket, granted>>

(* now = time.monotonic(), before the lock.                                *)
ReadClock(c) ==
    /\ stamp[c] = 0
    /\ stamp' = [stamp EXCEPT ![c] = now]
    /\ UNCHANGED <<now, bucket, granted>>

Allowed(events) == Len(events) < MaxCalls

Answered(c) == stamp' = [stamp EXCEPT ![c] = 0]

(* The locked section of a call that is let through.                       *)
Allow(c) ==
    LET left == Remaining(stamp[c], bucket)
    IN /\ stamp[c] # 0
       /\ Allowed(left)
       /\ bucket' = Append(left, stamp[c])
       /\ granted' = Append(granted, [stamp |-> stamp[c], at |-> now])
       /\ Answered(c)
       /\ UNCHANGED now

(* The locked section of a call that gets 429.                             *)
Deny(c) ==
    LET left == Remaining(stamp[c], bucket)
    IN /\ stamp[c] # 0
       /\ ~ Allowed(left)
       /\ bucket' = left
       /\ Answered(c)
       /\ UNCHANGED <<now, granted>>

Next == Tick \/ \E c \in Callers : ReadClock(c) \/ Allow(c) \/ Deny(c)

Spec == Init /\ [][Next]_vars

-----------------------------------------------------------------------------
TypeOK ==
    /\ now \in 1..MaxTime
    /\ stamp \in [Callers -> 0..now]
    /\ \A i \in 1..Len(bucket) : bucket[i] \in 1..now
    /\ Len(bucket) <= MaxCalls
    /\ \A i \in 1..Len(granted) : granted[i].stamp <= granted[i].at /\ granted[i].at <= now

(* Calls let through whose reading lies in the window that ends at t.      *)
InWindow(t) ==
    {i \in 1..Len(granted) : granted[i].stamp <= t /\ granted[i].stamp + Window > t}

InOrder == \A i \in 1..(Len(granted) - 1) : granted[i].stamp <= granted[i + 1].stamp

(***************************************************************************)
(* As long as callers reach the lock in the order of their readings, no    *)
(* window of time holds more calls than the budget.                        *)
(***************************************************************************)
Budget == InOrder => \A t \in 1..MaxTime : Cardinality(InWindow(t)) <= MaxCalls

=============================================================================
