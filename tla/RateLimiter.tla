------------------------------ MODULE RateLimiter ------------------------------
(***************************************************************************)
(* The in-process rate limiter (webapp/backend/rate_limit.py): a table of   *)
(* the moments each key was let through, bounded by a capacity, swept of    *)
(* dead keys now and then.  A call reads the clock first and takes the lock *)
(* afterwards, so two calls may enter in another order than they read it.   *)
(***************************************************************************)
EXTENDS Integers, Sequences, FiniteSets

CONSTANTS
    Keys, Callers,
    Limit, Window,      \* what the endpoint that uses a key passes to allow()
    Capacity, SweepInterval,
    MaxTime,            \* bound: where the clock stops
    MaxDelay            \* bound: how long a call waits for the lock

ASSUME LimiterAssumption ==
    /\ Limit \in [Keys -> Nat] /\ Window \in [Keys -> Nat \ {0}]
    /\ Capacity \in Nat /\ SweepInterval \in Nat
    /\ MaxTime \in Nat /\ MaxDelay \in Nat

VARIABLES
    clock,
    hits,           \* _hits: a function on the tracked keys; of the moments a key was
                    \* let through, the places in `admitted` of those its list holds
    lastSweep, maxWindow,
    call,           \* the call each caller is making, or none
    admitted,       \* for each key, the moments it was let through, all of them
    late            \* history: the longest a call has waited for the lock

vars == <<clock, hits, lastSweep, maxWindow, call, admitted, late>>

NoCall == [at |-> "rest"]
Waiting(c) == call[c].at = "lock"

Init ==
    /\ clock = 0
    /\ hits = [k \in {} |-> {}]
    /\ lastSweep = 0 /\ maxWindow = 0
    /\ call = [c \in Callers |-> NoCall]
    /\ admitted = [k \in Keys |-> <<>>]
    /\ late = 0

Tick ==
    /\ clock < MaxTime
    /\ \A c \in Callers : Waiting(c) => clock - call[c].now < MaxDelay
    /\ clock' = clock + 1
    /\ UNCHANGED <<hits, lastSweep, maxWindow, call, admitted, late>>

\* allow() reads the clock, before it takes the lock.
Enter(c, k) ==
    /\ ~Waiting(c)
    /\ call' = [call EXCEPT ![c] = [at |-> "lock", key |-> k, now |-> clock]]
    /\ UNCHANGED <<clock, hits, lastSweep, maxWindow, admitted, late>>

----------------------------------------------------------------------------
(* Under the lock.                                                         *)

\* _max_window_s, this call's window included.
Longest(k) == IF Window[k] > maxWindow THEN Window[k] ELSE maxWindow

\* The last entry of a key's list.
IsLast(i, k) == i \in hits[k] /\ \A j \in hits[k] : j <= i

\* Mutant of Kept: a key goes one tick before its window is over.
KeptShort(now, longest) ==
    {k \in DOMAIN hits : \E i \in hits[k] : IsLast(i, k) /\ now - admitted[k][i] < longest - 1}

\* The keys a sweep keeps: their last call is inside the longest window.
Kept(now, longest) ==
    {k \in DOMAIN hits : \E i \in hits[k] : IsLast(i, k) /\ now - admitted[k][i] < longest}

\* The tracked keys after the periodic sweep, when it is time for one.
Tracked(k, now) ==
    IF now - lastSweep >= SweepInterval THEN Kept(now, Longest(k)) ELSE DOMAIN hits

\* The moments of a key that still count against it.
Live(k, now) == {i \in hits[k] : now - admitted[k][i] < Window[k]}

\* What lastSweep becomes.
SweptAt(now, swept) == IF swept THEN now ELSE lastSweep

LetThrough(k, now, keys, before) ==
    /\ hits' = [j \in keys \cup {k} |->
                   IF j = k THEN before \cup {Len(admitted[k]) + 1} ELSE hits[j]]
    /\ admitted' = [admitted EXCEPT ![k] = Append(@, now)]

\* The call returns.
Leave(c) ==
    /\ call' = [call EXCEPT ![c] = NoCall]
    /\ late' = IF clock - call[c].now > late THEN clock - call[c].now ELSE late
    /\ UNCHANGED clock

\* A key the table holds: refused at its limit, let through below it.
AllowTracked(c) ==
    LET k == call[c].key  now == call[c].now  keys == Tracked(k, now) IN
    /\ Waiting(c) /\ k \in keys
    /\ IF Cardinality(Live(k, now)) >= Limit[k]
       THEN /\ hits' = [j \in keys |-> IF j = k THEN Live(k, now) ELSE hits[j]]
            /\ UNCHANGED admitted
       ELSE LetThrough(k, now, keys, Live(k, now))
    /\ lastSweep' = SweptAt(now, now - lastSweep >= SweepInterval)
    /\ maxWindow' = Longest(k)
    /\ Leave(c)

\* Mutant of AllowNew: a swept table is taken to have room.
AllowAfterSweep(c) ==
    LET k == call[c].key  now == call[c].now  keys == Tracked(k, now) IN
    /\ Waiting(c) /\ k \notin keys
    /\ LetThrough(k, now, keys \cap Kept(now, Longest(k)), {})
    /\ lastSweep' = now
    /\ maxWindow' = Longest(k)
    /\ Leave(c)

\* A key it does not hold: a full table is swept, and refuses if still full.
AllowNew(c) ==
    LET k == call[c].key  now == call[c].now  keys == Tracked(k, now)
        full == Cardinality(keys) >= Capacity
        left == IF full THEN keys \cap Kept(now, Longest(k)) ELSE keys IN
    /\ Waiting(c) /\ k \notin keys
    /\ IF Cardinality(left) >= Capacity
       THEN hits' = [j \in left |-> hits[j]] /\ UNCHANGED admitted
       ELSE IF Limit[k] = 0
       THEN /\ hits' = [j \in left \cup {k} |-> IF j = k THEN {} ELSE hits[j]]
            /\ UNCHANGED admitted
       ELSE LetThrough(k, now, left, {})
    /\ lastSweep' = SweptAt(now, full \/ now - lastSweep >= SweepInterval)
    /\ maxWindow' = Longest(k)
    /\ Leave(c)

Next ==
    \/ Tick
    \/ \E c \in Callers : \E k \in Keys : Enter(c, k)
    \/ \E c \in Callers : AllowTracked(c) \/ AllowNew(c)

Spec == Init /\ [][Next]_vars

----------------------------------------------------------------------------
(* Properties.                                                             *)

Call == {NoCall} \cup [at: {"lock"}, key: Keys, now: 0 .. clock]

TypeOK ==
    /\ clock \in 0 .. MaxTime
    /\ DOMAIN hits \subseteq Keys /\ \A k \in DOMAIN hits : hits[k] \subseteq DOMAIN admitted[k]
    /\ lastSweep \in 0 .. clock /\ maxWindow \in Nat
    /\ call \in [Callers -> Call]
    /\ admitted \in [Keys -> Seq(0 .. clock)]
    /\ late \in 0 .. MaxDelay

\* The table never outgrows its capacity, and every key in it was asked for with
\* a window the sweep respects (rate_limit.py "one permanent dict entry per
\* request"; "sweeping a key that could still be limiting someone would hand out
\* free attempts").
TableIsBounded ==
    /\ Cardinality(DOMAIN hits) <= Capacity
    /\ \A k \in DOMAIN hits : Window[k] <= maxWindow

Within(k, from, to) == {i \in DOMAIN admitted[k] : admitted[k][i] \in from .. to}

\* No key is let through more than Limit times within its window, whatever is
\* swept, refused or restarted by other keys; calls that waited for the lock
\* may shorten the window by twice the longest wait there was, and by no more.
LimitHolds ==
    \A k \in Keys : \A from \in 0 .. clock :
        Cardinality(Within(k, from, from + Window[k] - 1 - 2 * late)) <= Limit[k]
=============================================================================
