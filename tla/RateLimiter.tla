----------------------------- MODULE RateLimiter -----------------------------
(***************************************************************************)
(* RateLimiter::check, called by concurrent request tasks.  A call reads    *)
(* the clock first and locks the map entry of its key after, so it may      *)
(* decide with an instant that is already past; a duration from a later     *)
(* instant to an earlier one is zero.                                       *)
(*                                                                          *)
(* Keys are independent entries of the map: the module follows one of them. *)
(* Instants are kept as ages, in ticks before now, so the clock is not      *)
(* bounded.                                                                 *)
(***************************************************************************)
EXTENDS Integers

CONSTANTS
    Calls,       \* calls that may be under way at once
    Limits,      \* rate_limit.requests_per_second of a configuration
    Lags,        \* ticks a call may spend between the clock and the lock
    Second,      \* ticks of a second
    Absent       \* no entry for the key yet, or no call under way

ASSUME LimiterAssumption ==
    /\ Limits \subseteq Nat
    /\ Second \in Nat \ {0}
    /\ Lags \subseteq 0 .. Second - 1
    /\ Absent \notin Nat

VARIABLES
    max_per_second,  \* the limit in force; 0 disables the limiter
    max_lag,         \* the lag in force
    now,             \* now[c]: age of the instant that the call c has read
    window_start,    \* age of the entry's window_start, or Absent
    count,           \* the entry's count
    allowed,         \* allowed[i]: age of the i-th last allowed call (history)
    verdict          \* the last decision of this tick (history)

settings == <<max_per_second, max_lag>>
entry == <<window_start, count>>
vars == <<settings, now, entry, allowed, verdict>>

(* Ages from here on make no difference, nor do calls before the last ones  *)
(* of the log.                                                              *)
Old == Second + max_lag
Capped(age) == IF age < Old THEN age ELSE Old
Log == 1 .. 3 * max_per_second

Init ==
    /\ max_per_second \in Limits
    /\ max_lag \in Lags
    /\ now = [c \in Calls |-> Absent]
    /\ window_start = Absent
    /\ count = 0
    /\ allowed = [i \in Log |-> Old]
    /\ verdict = "none"

-----------------------------------------------------------------------------
(* Without a limit a call does not even look at the clock.                  *)
CheckDisabled ==
    /\ max_per_second = 0
    /\ verdict' = "allowed"
    /\ UNCHANGED <<settings, now, entry, allowed>>

ReadClock(c) ==
    /\ max_per_second > 0
    /\ now[c] = Absent
    /\ now' = [now EXCEPT ![c] = 0]
    /\ UNCHANGED <<settings, entry, allowed, verdict>>

(* The entry as or_insert((now, 0)) leaves it for a call that read a ago.   *)
FoundStart(a) == IF window_start = Absent THEN a ELSE window_start

Elapsed(a) == IF FoundStart(a) > a THEN FoundStart(a) - a ELSE 0

(* A window that is exactly one second old is still in force.               *)
MutStrict(a) == Elapsed(a) > Second

WindowOver(a) == Elapsed(a) >= Second

Allow(start, n) ==
    /\ window_start' = start
    /\ count' = n
    /\ allowed' = [i \in Log |-> IF i = 1 THEN 0 ELSE allowed[i - 1]]
    /\ verdict' = "allowed"

(* The count of the window that is over is not reset.                       *)
MutCountKept(a) ==
    /\ WindowOver(a)
    /\ Allow(a, count + 1)

NewWindow(a) ==
    /\ WindowOver(a)
    /\ Allow(a, 1)

MutOneTooMany(a) ==
    /\ ~ WindowOver(a)
    /\ count <= max_per_second
    /\ Allow(FoundStart(a), count + 1)

CountInWindow(a) ==
    /\ ~ WindowOver(a)
    /\ count < max_per_second
    /\ Allow(FoundStart(a), count + 1)

Reject(a) ==
    /\ ~ WindowOver(a)
    /\ count >= max_per_second
    /\ verdict' = "rejected"
    /\ UNCHANGED <<entry, allowed>>

(* The rest of check: one critical section under the lock of the entry.     *)
check(c) ==
    /\ now[c] # Absent
    /\ now' = [now EXCEPT ![c] = Absent]
    /\ NewWindow(now[c]) \/ CountInWindow(now[c]) \/ Reject(now[c])
    /\ UNCHANGED settings

ClockTicks ==
    /\ \A c \in Calls : now[c] # max_lag
    /\ now' = [c \in Calls |-> IF now[c] = Absent THEN Absent ELSE now[c] + 1]
    /\ allowed' = [i \in Log |-> Capped(allowed[i] + 1)]
    /\ window_start' = IF window_start = Absent THEN Absent ELSE Capped(window_start + 1)
    /\ verdict' = "none"
    /\ UNCHANGED <<settings, count>>

Next ==
    \/ CheckDisabled
    \/ \E c \in Calls : ReadClock(c) \/ check(c)
    \/ ClockTicks

Spec == Init /\ [][Next]_vars

-----------------------------------------------------------------------------
(* Properties.                                                              *)

TypeOK ==
    /\ max_per_second \in Limits
    /\ max_lag \in Lags
    /\ now \in [Calls -> 0 .. max_lag \cup {Absent}]
    /\ window_start \in 0 .. Old \cup {Absent}
    /\ count \in 0 .. max_per_second
    /\ allowed \in [Log -> 0 .. Old]
    /\ verdict \in {"none", "allowed", "rejected"}

(* Windows do not slide: a second may straddle two of them and see almost   *)
(* twice the limit, the first window without the call that opened it.  When *)
(* calls decide with an instant already past, a window starts early and a   *)
(* second may meet three.  Never more: counted back from now, the last call *)
(* of so many is at least a second old.                                     *)
BurstBound ==
    max_per_second > 0 =>
        allowed[(IF max_lag = 0 THEN 2 ELSE 3) * max_per_second] >= Second

(* A call is only rejected when calls allowed in the second before it (and  *)
(* the lag of its own clock) used the limit up: a key that was quiet for    *)
(* that long is never refused.                                              *)
RejectedOnlyWhenUsedUp ==
    verdict = "rejected" => allowed[max_per_second] < Second + max_lag
=============================================================================
