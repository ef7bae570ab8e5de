---------------------------- MODULE CircuitBreaker ----------------------------
(***************************************************************************)
(* CircuitBreakerService for one provider: the Redis keys it shares        *)
(* between all withdrawals, and the awaited calls of canProceed and        *)
(* recordAttempt, which no lock and no Redis transaction holds together.   *)
(*                                                                         *)
(* A tick is one millisecond of Date.now(); the durations are scaled down  *)
(* and keep their order (open < life of openedAt < window < life of the    *)
(* state).  Times are ages, so that a behaviour may go on for ever.        *)
(* Attempts are members of a sorted set named by their time: two of one    *)
(* millisecond are one member.  Members out of the window are not counted, *)
(* so their removal is not modelled, nor is what is written to a key that  *)
(* nobody reads: the half-open attempts and the lives of the two sets,     *)
(* set under the plain key where RedisService reads the prefixed one.      *)
(***************************************************************************)
EXTENDS Integers, FiniteSets

CONSTANTS
    Calls,             \* withdrawals under way
    Window,            \* windowSeconds (900)
    MinAttempts,       \* minAttempts (10)
    OpenDuration,      \* openDurationSeconds (300)
    HalfOpenMax,       \* halfOpenMaxAttempts (3)
    OpenedTtl,         \* life of openedAt (360)
    StateTtl,          \* life of the state (1800)
    MaxDelay           \* bound on the age of a call's reading of the clock

ASSUME CircuitBreakerAssumption ==
    /\ Window \in Nat /\ OpenDuration \in Nat /\ MaxDelay \in Nat
    /\ MinAttempts \in Nat \ {0} /\ HalfOpenMax \in Nat \ {0}
    /\ OpenedTtl \in Nat /\ StateTtl \in Nat
    /\ OpenDuration < OpenedTtl /\ OpenedTtl < StateTtl

VARIABLES
    state,         \* value of the state key; "CLOSED" when there is none
    stateAge,      \* age of the state key
    openedAt,      \* age of the time openedAt holds, or None
    openedAge,     \* age of the openedAt key
    failures,      \* ages of the recorded failures ...
    successes,     \* ... and of the successes
    at,            \* the call each withdrawal awaits next
    clock,         \* age of its reading of Date.now()
    counted        \* failures and successes it has counted

keys == <<state, stateAge, openedAt, openedAge>>
attempts == <<failures, successes>>
reading == <<clock, counted>>
breakerVars == <<keys, attempts, at, reading>>

None == -1

Ages == 0..(Window + MaxDelay)

(* Where a call still uses its reading of the clock.                       *)
Clocked == {"countSuccesses", "getState", "setOpen", "setOpenedAt"}

Points == Clocked \cup {"idle", "getOpenedAt", "setHalfOpen", "getTestAttempts",
    "provider", "countFailures", "setClosed", "clearOpenedAt"}

(* One of the three states, ages within the lives of the keys.             *)
BreakerTypeOK ==
    /\ state \in {"CLOSED", "OPEN", "HALF_OPEN"}
    /\ stateAge \in 0..(StateTtl - 1)
    /\ openedAt \in {None} \cup 0..(OpenedTtl + MaxDelay - 1)
    /\ openedAge \in 0..(OpenedTtl - 1)
    /\ failures \subseteq Ages
    /\ successes \subseteq Ages
    /\ at \in [Calls -> Points]
    /\ clock \in [Calls -> 0..MaxDelay]
    /\ counted \in [Calls -> [bad : Nat, good : Nat]]

NoCount == [bad |-> 0, good |-> 0]

BreakerInit ==
    /\ state = "CLOSED" /\ stateAge = 0
    /\ openedAt = None /\ openedAge = 0
    /\ failures = {} /\ successes = {}
    /\ at = [c \in Calls |-> "idle"]
    /\ clock = [c \in Calls |-> 0]
    /\ counted = [c \in Calls |-> NoCount]

Await(c, p) == at' = [at EXCEPT ![c] = p]

(* setState, with a life of two windows                                    *)
SetState(s) == state' = s /\ stateAge' = 0

-----------------------------------------------------------------------------
(* canProceed                                                              *)
GetState(c) ==
    /\ at[c] = "idle"
    /\ Await(c, CASE state = "CLOSED" -> "provider"
                 [] state = "OPEN" -> "getOpenedAt"
                 [] state = "HALF_OPEN" -> "getTestAttempts")
    /\ UNCHANGED <<keys, attempts, reading>>

(* Variant: a blocked call renews the life of the state.                   *)
GetOpenedAtVariant(c) ==
    /\ at[c] = "getOpenedAt"
    /\ IF openedAt # None /\ openedAt > OpenDuration
       THEN Await(c, "setHalfOpen") /\ UNCHANGED <<state, stateAge>>
       ELSE Await(c, "idle") /\ SetState(state)
    /\ UNCHANGED <<openedAt, openedAge, attempts, reading>>

(* A lost openedAt blocks the call like a recent one.                      *)
GetOpenedAt(c) ==
    /\ at[c] = "getOpenedAt"
    /\ Await(c, IF openedAt # None /\ openedAt > OpenDuration
               THEN "setHalfOpen" ELSE "idle")
    /\ UNCHANGED <<keys, attempts, reading>>

SetHalfOpen(c) ==
    /\ at[c] = "setHalfOpen"
    /\ SetState("HALF_OPEN")
    /\ Await(c, "provider")
    /\ UNCHANGED <<openedAt, openedAge, attempts, reading>>

(* getHalfOpenAttempts: the prefixed key, which incr never writes.         *)
HalfOpenAttempts == 0

GetTestAttempts(c) ==
    /\ at[c] = "getTestAttempts"
    /\ Await(c, IF HalfOpenAttempts < HalfOpenMax THEN "provider" ELSE "idle")
    /\ UNCHANGED <<keys, attempts, reading>>

-----------------------------------------------------------------------------
(* recordAttempt, with the provider's answer; some answers record nothing. *)
Record(c) ==
    /\ at[c] = "provider"
    /\ \/ failures' = failures \cup {0} /\ UNCHANGED successes /\ Await(c, "countFailures")
       \/ successes' = successes \cup {0} /\ UNCHANGED failures /\ Await(c, "countFailures")
       \/ Await(c, "idle") /\ UNCHANGED attempts
    /\ UNCHANGED <<keys, reading>>

(* Members between windowStart and now, as the call has read the clock.    *)
InWindow(set, age) == Cardinality({t \in set : age <= t /\ t <= age + Window})

(* checkAndUpdateState reads the clock and counts the two sets ...         *)
CountFailures(c) ==
    /\ at[c] = "countFailures"
    /\ clock' = [clock EXCEPT ![c] = 0]
    /\ counted' = [counted EXCEPT ![c].bad = InWindow(failures, 0)]
    /\ Await(c, "countSuccesses")
    /\ UNCHANGED <<keys, attempts>>

CountSuccesses(c) ==
    /\ at[c] = "countSuccesses"
    /\ LET good == InWindow(successes, clock[c]) IN
       IF counted[c].bad + good < MinAttempts
       THEN /\ Await(c, "idle")
            /\ clock' = [clock EXCEPT ![c] = 0]
            /\ counted' = [counted EXCEPT ![c] = NoCount]
       ELSE /\ Await(c, "getState")
            /\ counted' = [counted EXCEPT ![c].good = good]
            /\ UNCHANGED clock
    /\ UNCHANGED <<keys, attempts>>

(* Variant: the rate of successes is compared with the threshold.          *)
TooManyFailuresVariant(c) == counted[c].good >= counted[c].bad

(* failureThreshold is one half.                                           *)
TooManyFailures(c) == counted[c].bad >= counted[c].good

(* ... then it reads the state and decides.                                *)
Decide(c) ==
    /\ at[c] = "getState"
    /\ counted' = [counted EXCEPT ![c] = NoCount]
    /\ IF TooManyFailures(c) /\ state \in {"CLOSED", "HALF_OPEN"}
       THEN Await(c, "setOpen") /\ UNCHANGED clock
       ELSE /\ Await(c, IF ~TooManyFailures(c) /\ state = "HALF_OPEN"
                       THEN "setClosed" ELSE "idle")
            /\ clock' = [clock EXCEPT ![c] = 0]
    /\ UNCHANGED <<keys, attempts>>

SetOpen(c) ==
    /\ at[c] = "setOpen"
    /\ SetState("OPEN")
    /\ Await(c, "setOpenedAt")
    /\ UNCHANGED <<openedAt, openedAge, attempts, reading>>

SetOpenedAt(c) ==
    /\ at[c] = "setOpenedAt"
    /\ openedAt' = clock[c] /\ openedAge' = 0
    /\ clock' = [clock EXCEPT ![c] = 0]
    /\ Await(c, "idle")
    /\ UNCHANGED <<state, stateAge, attempts, counted>>

SetClosed(c) ==
    /\ at[c] = "setClosed"
    /\ SetState("CLOSED")
    /\ Await(c, "clearOpenedAt")
    /\ UNCHANGED <<openedAt, openedAge, attempts, reading>>

ClearOpenedAt(c) ==
    /\ at[c] = "clearOpenedAt"
    /\ openedAt' = None /\ openedAge' = 0
    /\ Await(c, "idle")
    /\ UNCHANGED <<state, stateAge, attempts, reading>>

-----------------------------------------------------------------------------
Older(set) == {t \in Ages : t - 1 \in set}

(* A millisecond passes, and Redis drops what has outlived its life.       *)
Tick ==
    /\ \A c \in Calls : at[c] \in Clocked => clock[c] < MaxDelay
    /\ IF state = "CLOSED" \/ stateAge + 1 = StateTtl
       THEN SetState("CLOSED")
       ELSE stateAge' = stateAge + 1 /\ UNCHANGED state
    /\ IF openedAt = None \/ openedAge + 1 = OpenedTtl
       THEN openedAt' = None /\ openedAge' = 0
       ELSE openedAt' = openedAt + 1 /\ openedAge' = openedAge + 1
    /\ failures' = Older(failures)
    /\ successes' = Older(successes)
    /\ clock' = [c \in Calls |-> IF at[c] \in Clocked THEN clock[c] + 1 ELSE 0]
    /\ UNCHANGED <<at, counted>>

(* What a call does by itself once it has begun.                           *)
Step(c) ==
    \/ GetOpenedAt(c) \/ SetHalfOpen(c) \/ GetTestAttempts(c) \/ Record(c)
    \/ CountFailures(c) \/ CountSuccesses(c) \/ Decide(c)
    \/ SetOpen(c) \/ SetOpenedAt(c) \/ SetClosed(c) \/ ClearOpenedAt(c)

BreakerNext == Tick \/ \E c \in Calls : GetState(c) \/ Step(c)

BreakerSpec == BreakerInit /\ [][BreakerNext]_breakerVars

(* Time passes, and an awaited call of Redis or of the provider returns.   *)
FairBreakerSpec ==
    /\ BreakerSpec
    /\ WF_breakerVars(Tick)
    /\ \A c \in Calls : WF_breakerVars(Step(c))

-----------------------------------------------------------------------------
(* The circuit opens only when half of the minimum of attempts has failed  *)
(* in the window before the time at which the withdrawal that opens it     *)
(* read the clock, although checkAndUpdateState counts failures and        *)
(* successes at different times, decides later still, and other            *)
(* withdrawals record in between.                                          *)
OpensOnFailures ==
    [][state # "OPEN" /\ state' = "OPEN"
          => \E c \in Calls :
                /\ at[c] = "setOpen"
                /\ 2 * InWindow(failures, clock[c]) >= MinAttempts]_breakerVars

(* An open circuit does not stay open for ever: canProceed leaves OPEN     *)
(* only while openedAt lives; later the life of the state must end it.     *)
Recovers == state = "OPEN" ~> state # "OPEN"
=============================================================================
