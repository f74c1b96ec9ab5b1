--------------------------- MODULE LoginThrottle ----------------------------
(***************************************************************************)
(* The throttle of password checks (api/ratelimit.rs), as POST /login      *)
(* (api/server/login.rs) and the routes that ask for the password again    *)
(* (admin::reauth) use it: an attempt is admitted and reserved under the   *)
(* lock, the password is checked off the worker while other attempts come  *)
(* and go, and the attempt fails, succeeds, or is given up: cancelled on a *)
(* database error, dropped with its request.                               *)
(*                                                                         *)
(* A key is a source address, a known device, re-entry by a signed-in      *)
(* caller (a device among others, to the throttle) or the account, for     *)
(* strangers.  BASE_DELAY is the unit of time.                             *)
(*                                                                         *)
(* The names of the specification are the throttle's own, so that a module *)
(* can extend this one beside others.                                      *)
(***************************************************************************)
EXTENDS Integers, FiniteSets, FiniteSetsExt

CONSTANTS
    Ips, Devices, Account,  \* the keys
    Attempts,       \* attempts that may be in flight at once
    FreeAttempts,   \* FREE_ATTEMPTS
    AccountFree,    \* ACCOUNT_FREE_ATTEMPTS
    MaxDelay,       \* MAX_DELAY
    Ttl,            \* ENTRY_TTL
    PruneAbove,     \* PRUNE_THRESHOLD
    PruneEvery,     \* PRUNE_INTERVAL
    MaxTime,        \* bound: the clock
    MaxGuesses      \* bound: what is counted for one key

ASSUME ThrottleAssumption ==
    /\ Ips \cap Devices = {} /\ Account \notin Ips \cup Devices
    /\ {FreeAttempts, AccountFree, PruneAbove, PruneEvery, MaxTime, MaxGuesses} \subseteq Nat
    /\ {MaxDelay, Ttl} \subseteq Nat \ {0}

Keys == Ips \cup Devices \cup {Account}

VARIABLES
    now,
    known,      \* the keys with an Entry
    failures,   \* Entry::failures, 0 without one
    inFlight,   \* Entry::in_flight, 0 without one
    seen,       \* Entry::last_seen; what it last was, without one
    pruned,     \* last_prune
    held,       \* the keys of each attempt in flight, {} when it is not
    counted,    \* history: those of them its guess is still counted for
    guesses,    \* history: guesses counted for a key: no success and no long rest since
    start,      \* history: when the first of them was admitted
    excused     \* history: reservations given back twice

countVars == <<known, failures, inFlight, seen>>
historyVars == <<counted, guesses, start, excused>>
throttle == <<now, countVars, pruned, held, historyVars>>

ThrottleTypeOK ==
    /\ now \in Nat
    /\ known \in SUBSET Keys
    /\ failures \in [Keys -> Nat]
    /\ inFlight \in [Keys -> Nat]
    /\ seen \in [Keys -> Nat]
    /\ pruned \in Int
    /\ held \in [Attempts -> SUBSET Keys]
    /\ counted \in [Attempts -> SUBSET Keys]
    /\ guesses \in [Keys -> Int]
    /\ start \in [Keys -> Nat]
    /\ excused \in [Keys -> Nat]

ThrottleInit ==
    /\ now = 0
    /\ known = {}
    /\ failures = [k \in Keys |-> 0] /\ inFlight = [k \in Keys |-> 0]
    /\ seen = [k \in Keys |-> 0]
    /\ pruned = -PruneEvery
    /\ held = [a \in Attempts |-> {}]
    /\ counted = [a \in Attempts |-> {}]
    /\ guesses = [k \in Keys |-> 0]
    /\ start = [k \in Keys |-> 0]
    /\ excused = [k \in Keys |-> 0]

-----------------------------------------------------------------------------
\* Key::free_attempts
Free(k) == IF k = Account THEN AccountFree ELSE FreeAttempts

\* 1u32 << n
Doubled[n \in Nat] == IF n = 0 THEN 1 ELSE 2 * Doubled[n - 1]

\* What is waited after the nth count past the free ones.
Delay(n) == Min({Doubled[Min({n - 1, 20})], MaxDelay})

\* Faulty variant of Penalty: only what has failed counts.
PenaltyOfFailures(k) == IF failures[k] <= Free(k) THEN 0 ELSE Delay(failures[k] - Free(k))

\* Entry::penalty: attempts in flight count as failures.
Penalty(k) ==
    LET effective == failures[k] + inFlight[k]
    IN IF effective <= Free(k) THEN 0 ELSE Delay(effective - Free(k))

\* keys(ip, who), with an address or without.
KeySets ==
    {I \cup {second} : I \in {{}} \cup {{i} : i \in Ips}, second \in Devices \cup {Account}}

\* Faulty variant of Stale: whether an attempt is in flight is not looked at.
StaleAnyway(k) == now - seen[k] >= Ttl

\* Entries a prune does not retain.
Stale(k) == inFlight[k] = 0 /\ now - seen[k] >= Ttl

\* begin walks the map only when it is big, and only now and then.
PruneDue == Cardinality(known) > PruneAbove /\ now - pruned >= PruneEvery
Kept == IF PruneDue THEN {k \in known : ~Stale(k)} ELSE known

\* Entries that are pruned: their guesses start anew, as a rested key's do.
Forgotten == known \ Kept

Waits(K) == \E k \in K \cap Kept : now - seen[k] < Penalty(k)

\* A key nobody has a reservation for, idle for ENTRY_TTL: its guesses start anew.
Rested(k) == inFlight[k] = 0 /\ now - seen[k] >= Ttl

\* begin, admitted: reserved under each of its keys.  Instant::now() is read
\* just before the lock is taken, here and in RecordFailure; the model reads it
\* under the lock, so a wait for the lock is taken to be no time.
Begin(a, K) ==
    /\ held[a] = {}
    /\ ~Waits(K)
    /\ \A k \in K : guesses[k] < MaxGuesses
    /\ known' = Kept \cup K
    /\ failures' = [k \in Keys |-> IF k \notin Kept \/ (k \in K /\ Stale(k)) THEN 0 ELSE failures[k]]
    /\ inFlight' = [k \in Keys |-> (IF k \in Kept THEN inFlight[k] ELSE 0) + (IF k \in K THEN 1 ELSE 0)]
    /\ seen' = [k \in Keys |-> IF k \in K THEN now ELSE seen[k]]
    /\ pruned' = IF PruneDue THEN now ELSE pruned
    /\ held' = [held EXCEPT ![a] = K]
    /\ LET anew == Forgotten \cup {k \in K : guesses[k] = 0 \/ Rested(k)}
       IN /\ counted' = [b \in Attempts |-> IF b = a THEN K ELSE counted[b] \ anew]
          /\ guesses' = [k \in Keys |-> (IF k \in anew THEN 0 ELSE guesses[k])
                                        + (IF k \in K THEN 1 ELSE 0)]
          /\ start' = [k \in Keys |-> IF k \in K \cap anew THEN now ELSE start[k]]
          /\ excused' = [k \in Keys |-> IF k \in anew THEN 0 ELSE excused[k]]
    /\ UNCHANGED now

\* begin, refused: a prune is done all the same.
Throttled(K) ==
    /\ Waits(K) /\ PruneDue
    /\ known' = Kept
    /\ failures' = [k \in Keys |-> IF k \in Kept THEN failures[k] ELSE 0]
    /\ inFlight' = [k \in Keys |-> IF k \in Kept THEN inFlight[k] ELSE 0]
    /\ pruned' = now
    /\ counted' = [b \in Attempts |-> counted[b] \ Forgotten]
    /\ guesses' = [k \in Keys |-> IF k \in Forgotten THEN 0 ELSE guesses[k]]
    /\ excused' = [k \in Keys |-> IF k \in Forgotten THEN 0 ELSE excused[k]]
    /\ UNCHANGED <<now, seen, held, start>>

Less(n) == IF n = 0 THEN 0 ELSE n - 1

\* The attempt is over.
Resolve(a) ==
    /\ held[a] # {}
    /\ held' = [held EXCEPT ![a] = {}]
    /\ UNCHANGED <<now, pruned>>

\* record_failure, which makes the entry anew when a success has removed it.
RecordFailure(a) ==
    /\ Resolve(a)
    /\ known' = known \cup held[a]
    /\ inFlight' = [k \in Keys |-> IF k \in held[a] THEN Less(inFlight[k]) ELSE inFlight[k]]
    /\ failures' = [k \in Keys |-> IF k \in held[a] THEN failures[k] + 1 ELSE failures[k]]
    /\ seen' = [k \in Keys |-> IF k \in held[a] THEN now ELSE seen[k]]
    /\ counted' = [counted EXCEPT ![a] = {}]
    /\ UNCHANGED <<guesses, start, excused>>

\* record_success: the entries go, whoever else is in flight under them.
RecordSuccess(a) ==
    /\ Resolve(a)
    /\ known' = known \ held[a]
    /\ inFlight' = [k \in Keys |-> IF k \in held[a] THEN 0 ELSE inFlight[k]]
    /\ failures' = [k \in Keys |-> IF k \in held[a] THEN 0 ELSE failures[k]]
    /\ counted' = [b \in Attempts |-> counted[b] \ held[a]]
    /\ guesses' = [k \in Keys |-> IF k \in held[a] THEN 0 ELSE guesses[k]]
    /\ excused' = [k \in Keys |-> IF k \in held[a] THEN 0 ELSE excused[k]]
    /\ UNCHANGED <<seen, start>>

\* cancel, or LoginAttempt dropped: release_reservation.  An attempt whose entry
\* a success has removed gives back what another one reserved since.
Release(a) ==
    /\ Resolve(a)
    /\ inFlight' = [k \in Keys |-> IF k \in held[a] THEN Less(inFlight[k]) ELSE inFlight[k]]
    /\ known' = known \ {k \in held[a] : failures[k] = 0 /\ inFlight[k] <= 1}
    /\ counted' = [counted EXCEPT ![a] = {}]
    /\ guesses' = [k \in Keys |-> IF k \in counted[a] THEN guesses[k] - 1 ELSE guesses[k]]
    /\ excused' = [k \in Keys |-> IF k \in held[a] \ counted[a] /\ inFlight[k] > 0
                                 THEN excused[k] + 1 ELSE excused[k]]
    /\ UNCHANGED <<failures, seen, start>>

Tick ==
    /\ now < MaxTime
    /\ now' = now + 1
    /\ UNCHANGED <<countVars, pruned, held, historyVars>>

ThrottleNext ==
    \/ \E K \in KeySets : Throttled(K) \/ \E a \in Attempts : Begin(a, K)
    \/ \E a \in Attempts : RecordFailure(a) \/ RecordSuccess(a) \/ Release(a)
    \/ Tick

ThrottleSpec == ThrottleInit /\ [][ThrottleNext]_throttle

-----------------------------------------------------------------------------
\* The time n guesses past the free ones take, when each waits as it must.
Needed[n \in Nat] == IF n = 0 THEN 0 ELSE Needed[n - 1] + Delay(n)

\* "a guessing loop should get slower without bound", up to MAX_DELAY: however
\* many attempts are made at once, cancelled, pruned or left in flight past
\* ENTRY_TTL, the guesses counted for a key beyond the free ones and one more
\* have taken the sum of the doubling delays.
GuessesAreSlow ==
    \A k \in Keys :
        LET past == guesses[k] - Free(k) - 1 - excused[k]
        IN past > 0 => now - start[k] >= Needed[past]

\* "They count provisionally as failures so concurrent guesses cannot all pass
\* the same stale check": the reservations of attempts in flight are there.
EveryAttemptIsReserved ==
    \A k \in Keys : Cardinality({a \in Attempts : k \in held[a]}) <= inFlight[k]
=============================================================================
