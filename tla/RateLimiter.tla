----------------------------- MODULE RateLimiter -----------------------------
(***************************************************************************)
(* FixedWindowRateLimiter, shared by the threads that serve /auth/login.   *)
(* A thread reads the clock before it takes the lock, so that its reading  *)
(* may be older than the window it meets.  A key is dropped by nothing.    *)
(***************************************************************************)
EXTENDS Naturals

CONSTANTS
    Threads,        \* concurrent login attempts
    Keys,           \* "<ip>:<email>"
    MaxEvents,      \* login_rate_limit_max
    Window,         \* login_rate_limit_window_seconds
    MaxTime,        \* bound: the clock
    MaxCalls        \* bound: attempts on a key

ASSUME LimiterAssumption ==
    MaxEvents \in Nat /\ Window \in Nat /\ MaxTime \in Nat /\ MaxCalls \in Nat

VARIABLES
    clock,          \* time.monotonic()
    hits,           \* _hits: window start and count, count 0 without an entry
    call,           \* the key and the reading of each thread before the lock
    \* History:
    granted,        \* attempts allowed in the window of each key
    calls           \* attempts on each key

rvars == <<clock, hits, call, granted, calls>>

NoCall == [key |-> "none", now |-> 0]

RInit ==
    /\ clock = 0
    /\ hits = [key \in Keys |-> [start |-> 0, count |-> 0]]
    /\ call = [t \in Threads |-> NoCall]
    /\ granted = [key \in Keys |-> 0]
    /\ calls = [key \in Keys |-> 0]

Tick ==
    /\ clock < MaxTime
    /\ clock' = clock + 1
    /\ UNCHANGED <<hits, call, granted, calls>>

\* login calls allow: now = time.monotonic().
ReadClock(t) ==
    /\ call[t] = NoCall
    /\ \E key \in Keys :
         /\ calls[key] < MaxCalls
         /\ calls' = [calls EXCEPT ![key] = @ + 1]
         /\ call' = [call EXCEPT ![t] = [key |-> key, now |-> clock]]
    /\ UNCHANGED <<clock, hits, granted>>

\* Variant: a reading that is not in the window, an older one too, opens one.
ElapsedEitherWay(h, now) == h.count > 0 /\ (now < h.start \/ now >= h.start + Window)

\* The window that an attempt meets is over.
Elapsed(h, now) == h.count > 0 /\ now >= h.start + Window

\* With the lock held.
Allow(t) ==
    LET key == call[t].key
        now == call[t].now
        new == hits[key].count = 0 \/ Elapsed(hits[key], now)
        count == IF new THEN 1 ELSE hits[key].count + 1
    IN  /\ call[t] # NoCall
        /\ hits' = [hits EXCEPT ![key] = [start |-> IF new THEN now ELSE @.start,
                                          count |-> count]]
        /\ granted' = [granted EXCEPT ![key] =
                         (IF new THEN 0 ELSE @) + (IF count <= MaxEvents THEN 1 ELSE 0)]
        /\ call' = [call EXCEPT ![t] = NoCall]
        /\ UNCHANGED <<clock, calls>>

RNext ==
    \/ Tick
    \/ \E t \in Threads : ReadClock(t) \/ Allow(t)

RateSpec == RInit /\ [][RNext]_rvars

-----------------------------------------------------------------------------
(* Properties *)

\* "Allow at most max_events per window_seconds for each key" (ratelimit.py:16):
\* no more are granted in a window, and a window is replaced only by one that
\* begins a full window later, though attempts take the lock in another order
\* than they read the clock.
LimitPerWindow ==
    [][\A key \in Keys :
         /\ granted'[key] <= MaxEvents
         /\ hits'[key].start = hits[key].start \/ hits[key].count = 0
              \/ hits'[key].start >= hits[key].start + Window]_rvars
=============================================================================
