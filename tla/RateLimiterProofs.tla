--------------------------- MODULE RateLimiterProofs ---------------------------
(* Theorems about the rate limiter, for any limits, lags and calls.         *)
EXTENDS RateLimiter, TLAPS

(* The type invariant, by what changes together.                            *)
SettingTypes == max_per_second \in Limits /\ max_lag \in Lags

EntryTypes ==
    /\ window_start \in 0 .. Old \cup {Absent}
    /\ count \in 0 .. max_per_second

LogTypes ==
    /\ allowed \in [Log -> 0 .. Old]
    /\ verdict \in {"none", "allowed", "rejected"}

NowTypes ==
    /\ now \in [Calls -> 0 .. max_lag \cup {Absent}]
    /\ \A c \in Calls : now[c] # Absent => max_per_second > 0

TypeInv == SettingTypes /\ EntryTypes /\ LogTypes /\ NowTypes

(* The call that opened the window in force is the last but count - 1, and  *)
(* it is no older than the window; nor is there a window without a call.    *)
OpenerInWindow ==
    IF window_start = Absent THEN count = 0 /\ allowed = [i \in Log |-> Old]
                             ELSE count >= 1 /\ allowed[count] <= window_start

(* It came no later than a lag after its window started.  The window before *)
(* started a second before that, and so on: what is not of the windows      *)
(* since is at least as old as the one that opened them.                    *)
WindowsApart ==
    window_start # Absent => \A i \in Log :
        /\ i >= count => allowed[i] >= window_start - max_lag
        /\ i >= count + max_per_second => allowed[i] >= Capped(window_start + Second - max_lag)
        /\ i >= count + 2 * max_per_second =>
              allowed[i] >= Capped(window_start + 2 * Second - max_lag)

Inv == TypeInv /\ OpenerInWindow /\ WindowsApart /\ RejectedOnlyWhenUsedUp

-----------------------------------------------------------------------------
(* A lag is shorter than a second, so all ages are numbers.                 *)
LEMMA Numbers ==
    ASSUME SettingTypes
    PROVE  /\ max_per_second \in Nat /\ max_lag \in Nat /\ Second \in Nat /\ Second >= 1
           /\ max_lag < Second /\ Old \in Nat /\ Old = Second + max_lag
  BY LimiterAssumption DEF SettingTypes, Old

(* What an allowed call does to the log.                                    *)
LEMMA LogMoves ==
    ASSUME TypeInv, NEW start, NEW n, Allow(start, n), UNCHANGED settings
    PROVE  /\ LogTypes'
           /\ Log' = Log /\ Old' = Old /\ allowed' \in [Log -> 0 .. Old]
           /\ \A i \in Log : IF i = 1 THEN allowed'[i] = 0
                                      ELSE i - 1 \in Log /\ allowed'[i] = allowed[i - 1]
<1>1. Log' = Log /\ Old' = Old
  BY DEF Log, Old, settings
<1>2. max_per_second \in Nat /\ Old \in Nat
  BY Numbers DEF TypeInv
<1>3. \A i \in Log : i = 1 \/ i - 1 \in Log
  BY <1>2 DEF Log
<1>4. \A i \in Log : allowed'[i] = IF i = 1 THEN 0 ELSE allowed[i - 1]
  BY DEF Allow
<1>5. allowed' \in [Log -> 0 .. Old]
  BY <1>2, <1>3 DEF Allow, TypeInv, LogTypes
<1> QED
  BY <1>1, <1>3, <1>4, <1>5 DEF Allow, LogTypes

(* A call opens a window a second or more after the one in force.           *)
LEMMA WindowOpens ==
    ASSUME Inv, max_per_second > 0, NEW a \in 0 .. max_lag, NewWindow(a), UNCHANGED settings
    PROVE  (EntryTypes /\ LogTypes /\ OpenerInWindow /\ WindowsApart /\ RejectedOnlyWhenUsedUp)'
<1>1. /\ max_per_second \in Nat /\ max_lag \in Nat /\ Second \in Nat /\ Second >= 1
      /\ max_lag < Second /\ Old \in Nat /\ Old = Second + max_lag
  BY Numbers DEF Inv, TypeInv
<1>2. window_start \in 0 .. Old /\ window_start # Absent /\ window_start >= a + Second
  BY <1>1, LimiterAssumption DEF NewWindow, WindowOver, Elapsed, FoundStart, Inv, TypeInv, EntryTypes
<1>3. /\ window_start' = a /\ count' = 1 /\ verdict' = "allowed"
      /\ max_per_second' = max_per_second /\ max_lag' = max_lag
  BY DEF NewWindow, Allow, settings
<1>4. /\ LogTypes' /\ Log' = Log /\ Old' = Old /\ allowed' \in [Log -> 0 .. Old]
      /\ \A i \in Log : IF i = 1 THEN allowed'[i] = 0
                                 ELSE i - 1 \in Log /\ allowed'[i] = allowed[i - 1]
  BY LogMoves DEF NewWindow, Inv
<1>5. window_start' # Absent
  BY <1>3, LimiterAssumption
<1>6. OpenerInWindow'
  BY <1>1, <1>3, <1>4, <1>5 DEF OpenerInWindow, Log
<1>7. WindowsApart'
  <2>1. SUFFICES ASSUME NEW i \in Log
                 PROVE  /\ i >= 1 => allowed'[i] >= a - max_lag
                        /\ i >= 1 + max_per_second => allowed'[i] >= Capped(a + Second - max_lag)
                        /\ i >= 1 + 2 * max_per_second =>
                              allowed'[i] >= Capped(a + 2 * Second - max_lag)
    BY <1>3, <1>4 DEF WindowsApart, Capped
  <2>2. count \in 0 .. max_per_second /\ i \in Int /\ allowed'[i] \in 0 .. Old
    BY <1>1, <1>4 DEF Inv, TypeInv, EntryTypes, Log
  <2>3. allowed'[i] >= a - max_lag
    BY <1>1, <2>2
  <2>4. ASSUME i >= 1 + max_per_second PROVE allowed'[i] >= Capped(a + Second - max_lag)
    <3>1. i - 1 \in Log /\ i - 1 >= count /\ allowed'[i] = allowed[i - 1]
      BY <1>1, <1>4, <2>2, <2>4
    <3>2. allowed[i - 1] >= window_start - max_lag
      BY <1>2, <3>1 DEF Inv, WindowsApart
    <3> QED
      BY <1>1, <1>2, <2>2, <3>1, <3>2 DEF Capped
  <2>5. ASSUME i >= 1 + 2 * max_per_second PROVE allowed'[i] >= Capped(a + 2 * Second - max_lag)
    <3>1. i - 1 \in Log /\ i - 1 >= count + max_per_second /\ allowed'[i] = allowed[i - 1]
      BY <1>1, <1>4, <2>2, <2>5
    <3>2. allowed[i - 1] >= Capped(window_start + Second - max_lag)
      BY <1>2, <3>1 DEF Inv, WindowsApart
    <3> QED
      BY <1>1, <1>2, <2>2, <3>1, <3>2 DEF Capped
  <2> QED
    BY <2>3, <2>4, <2>5
<1>8. EntryTypes'
  BY <1>1, <1>3, <1>4 DEF EntryTypes
<1> QED
  BY <1>3, <1>4, <1>6, <1>7, <1>8 DEF RejectedOnlyWhenUsedUp

(* A call counts in the window in force, or in the one it finds it has      *)
(* started.                                                                 *)
LEMMA WindowCounts ==
    ASSUME Inv, max_per_second > 0, NEW a \in 0 .. max_lag, CountInWindow(a), UNCHANGED settings
    PROVE  (EntryTypes /\ LogTypes /\ OpenerInWindow /\ WindowsApart /\ RejectedOnlyWhenUsedUp)'
<1>1. /\ max_per_second \in Nat /\ max_lag \in Nat /\ Second \in Nat /\ Second >= 1
      /\ max_lag < Second /\ Old \in Nat /\ Old = Second + max_lag
  BY Numbers DEF Inv, TypeInv
<1>2. /\ window_start' = FoundStart(a) /\ count' = count + 1 /\ verdict' = "allowed"
      /\ max_per_second' = max_per_second /\ max_lag' = max_lag
      /\ count \in 0 .. max_per_second /\ count < max_per_second
  BY DEF CountInWindow, Allow, settings, Inv, TypeInv, EntryTypes
<1>3. /\ LogTypes' /\ Log' = Log /\ Old' = Old /\ allowed' \in [Log -> 0 .. Old]
      /\ \A i \in Log : IF i = 1 THEN allowed'[i] = 0
                                 ELSE i - 1 \in Log /\ allowed'[i] = allowed[i - 1]
  BY LogMoves DEF CountInWindow, Inv
<1>4. FoundStart(a) \in 0 .. Old /\ FoundStart(a) # Absent
  BY <1>1, LimiterAssumption DEF FoundStart, Inv, TypeInv, EntryTypes
<1>5. OpenerInWindow'
  <2>1. count' \in Log /\ count' >= 1
    BY <1>1, <1>2 DEF Log
  <2>2. CASE count = 0
    BY <1>2, <1>3, <1>4, <2>1, <2>2 DEF OpenerInWindow
  <2>3. CASE count # 0
    <3>1. window_start # Absent /\ allowed[count] <= window_start
      BY <2>3 DEF Inv, OpenerInWindow
    <3>2. allowed'[count'] = allowed[count]
      BY <1>2, <1>3, <2>1, <2>3
    <3> QED
      BY <1>2, <1>4, <2>1, <3>1, <3>2 DEF OpenerInWindow, FoundStart
  <2> QED
    BY <2>2, <2>3
<1>6. WindowsApart'
  <2>1. SUFFICES ASSUME NEW i \in Log
                 PROVE  /\ i >= count + 1 => allowed'[i] >= FoundStart(a) - max_lag
                        /\ i >= count + 1 + max_per_second =>
                              allowed'[i] >= Capped(FoundStart(a) + Second - max_lag)
                        /\ i >= count + 1 + 2 * max_per_second =>
                              allowed'[i] >= Capped(FoundStart(a) + 2 * Second - max_lag)
    BY <1>2, <1>3 DEF WindowsApart, Capped
  <2>2. i \in Int /\ i >= 1 /\ allowed'[i] \in 0 .. Old
    BY <1>1, <1>3 DEF Log
  <2>3. CASE window_start = Absent
    <3>1. count = 0 /\ FoundStart(a) = a /\ \A j \in Log : allowed[j] = Old
      BY <2>3 DEF Inv, OpenerInWindow, FoundStart
    <3>2. allowed'[i] >= FoundStart(a) - max_lag
      BY <1>1, <2>2, <3>1
    <3>3. i >= 1 + max_per_second => allowed'[i] = Old
      BY <1>1, <1>3, <2>2, <3>1
    <3>4. i >= 1 + 2 * max_per_second => i >= 1 + max_per_second
      BY <1>1, <2>2
    <3> QED
      BY <1>1, <1>4, <3>1, <3>2, <3>3, <3>4 DEF Capped
  <2>4. CASE window_start # Absent
    <3>1. FoundStart(a) = window_start /\ count >= 1
      BY <2>4 DEF FoundStart, Inv, OpenerInWindow
    <3>2. i >= count + 1 => i - 1 \in Log /\ allowed'[i] = allowed[i - 1] /\ i - 1 >= count
      BY <1>2, <1>3, <2>2, <3>1
    <3>3. /\ i >= count + 1 + max_per_second => i >= count + 1 /\ i - 1 >= count + max_per_second
          /\ i >= count + 1 + 2 * max_per_second => i >= count + 1 /\ i - 1 >= count + 2 * max_per_second
      BY <1>1, <1>2, <2>2
    <3> QED
      BY <2>4, <3>1, <3>2, <3>3 DEF Inv, WindowsApart
  <2> QED
    BY <2>3, <2>4
<1>7. EntryTypes'
  BY <1>1, <1>2, <1>3, <1>4 DEF EntryTypes
<1> QED
  BY <1>2, <1>3, <1>5, <1>6, <1>7 DEF RejectedOnlyWhenUsedUp

(* A call is rejected while the window is less than a second old for it.    *)
LEMMA WindowIsFull ==
    ASSUME Inv, max_per_second > 0, NEW a \in 0 .. max_lag, Reject(a), UNCHANGED settings
    PROVE  (EntryTypes /\ LogTypes /\ OpenerInWindow /\ WindowsApart /\ RejectedOnlyWhenUsedUp)'
<1>1. /\ max_per_second \in Nat /\ max_lag \in Nat /\ Second \in Nat /\ Second >= 1
      /\ max_lag < Second /\ Old \in Nat /\ Old = Second + max_lag
  BY Numbers DEF Inv, TypeInv
<1>2. count = max_per_second /\ window_start # Absent
  BY <1>1 DEF Reject, Inv, TypeInv, EntryTypes, OpenerInWindow
<1>3. window_start \in 0 .. Old /\ window_start < a + Second
  BY <1>1, <1>2 DEF Reject, WindowOver, Elapsed, FoundStart, Inv, TypeInv, EntryTypes
<1>4. max_per_second \in Log
  BY <1>1 DEF Log
<1>5. allowed[max_per_second] \in 0 .. Old /\ allowed[max_per_second] <= window_start
  BY <1>2, <1>4 DEF Inv, TypeInv, LogTypes, OpenerInWindow
<1>6. allowed[max_per_second] < Second + max_lag
  BY <1>1, <1>3, <1>5
<1>7. UNCHANGED <<settings, entry, allowed>> /\ verdict' = "rejected"
  BY DEF Reject
<1> QED
  BY <1>6, <1>7 DEF Inv, TypeInv, EntryTypes, LogTypes, OpenerInWindow, WindowsApart,
     RejectedOnlyWhenUsedUp, settings, entry, Old, Log, Capped

(* A tick makes all windows and calls older alike.                          *)
LEMMA AllGrowOlder ==
    ASSUME Inv, ClockTicks
    PROVE  Inv'
<1>1. /\ max_per_second \in Nat /\ max_lag \in Nat /\ Second \in Nat /\ Second >= 1
      /\ max_lag < Second /\ Old \in Nat /\ Old = Second + max_lag
  BY Numbers DEF Inv, TypeInv
<1>2. /\ max_per_second' = max_per_second /\ max_lag' = max_lag /\ count' = count
      /\ verdict' = "none" /\ Old' = Old /\ Log' = Log
  BY DEF ClockTicks, settings, Old, Log
<1>3. \A i \in Log : allowed'[i] = Capped(allowed[i] + 1) /\ allowed[i] \in 0 .. Old
  BY DEF ClockTicks, Inv, TypeInv, LogTypes
<1>4. \A x \in 0 .. Old : Capped(x + 1) \in 0 .. Old
  BY <1>1 DEF Capped
<1>5. LogTypes'
  BY <1>2, <1>3, <1>4 DEF ClockTicks, LogTypes
<1>6. NowTypes'
  <2>1. \A c \in Calls :
           /\ now[c] \in 0 .. max_lag \cup {Absent} /\ now[c] # max_lag
           /\ now[c] # Absent => max_per_second > 0
    BY DEF ClockTicks, Inv, TypeInv, NowTypes
  <2>2. \A c \in Calls : now[c] # Absent => now[c] + 1 \in 0 .. max_lag
    BY <1>1, <2>1
  <2> QED
    BY <1>2, <2>1, <2>2 DEF ClockTicks, NowTypes
<1>7. SettingTypes' /\ RejectedOnlyWhenUsedUp'
  BY <1>2 DEF SettingTypes, RejectedOnlyWhenUsedUp, Inv, TypeInv
<1>8. CASE window_start = Absent
  <2>1. window_start' = Absent /\ count = 0 /\ \A i \in Log : allowed[i] = Old
    BY <1>8 DEF ClockTicks, Inv, OpenerInWindow
  <2>2. Capped(Old + 1) = Old
    BY <1>1 DEF Capped
  <2>3. allowed' = [i \in Log |-> Old]
    BY <2>1, <2>2 DEF ClockTicks
  <2>4. EntryTypes' /\ OpenerInWindow' /\ WindowsApart'
    BY <1>1, <1>2, <2>1, <2>3 DEF EntryTypes, OpenerInWindow, WindowsApart
  <2> QED
    BY <1>5, <1>6, <1>7, <2>4 DEF Inv, TypeInv
<1>9. CASE window_start # Absent
  <2>1. window_start \in 0 .. Old /\ window_start' = Capped(window_start + 1) /\ window_start' \in 0 .. Old
    BY <1>4, <1>9 DEF ClockTicks, Inv, TypeInv, EntryTypes
  <2>2. window_start' # Absent
    BY <1>1, <2>1, LimiterAssumption
  <2>3. EntryTypes'
    BY <1>2, <2>1 DEF EntryTypes, Inv, TypeInv
  <2>4. OpenerInWindow'
    <3>1. count >= 1 /\ count \in Log /\ allowed[count] <= window_start
      BY <1>1, <1>9 DEF Inv, TypeInv, EntryTypes, OpenerInWindow, Log
    <3>2. allowed'[count] <= window_start'
      BY <1>1, <1>3, <2>1, <3>1 DEF Capped
    <3> QED
      BY <1>2, <2>2, <3>1, <3>2 DEF OpenerInWindow
  <2>5. WindowsApart'
    <3>1. SUFFICES ASSUME NEW i \in Log
                   PROVE  /\ i >= count => allowed'[i] >= window_start' - max_lag
                          /\ i >= count + max_per_second =>
                                allowed'[i] >= Capped(window_start' + Second - max_lag)
                          /\ i >= count + 2 * max_per_second =>
                                allowed'[i] >= Capped(window_start' + 2 * Second - max_lag)
      BY <1>2 DEF WindowsApart, Capped
    <3>2. allowed'[i] = Capped(allowed[i] + 1) /\ allowed[i] \in 0 .. Old
      BY <1>3
    <3>3. ASSUME i >= count PROVE allowed'[i] >= window_start' - max_lag
      <4>1. allowed[i] >= window_start - max_lag
        BY <1>9, <3>3 DEF Inv, WindowsApart
      <4> QED
        BY <1>1, <2>1, <3>2, <4>1 DEF Capped
    <3>4. ASSUME i >= count + max_per_second PROVE allowed'[i] >= Capped(window_start' + Second - max_lag)
      <4>1. allowed[i] >= Capped(window_start + Second - max_lag)
        BY <1>9, <3>4 DEF Inv, WindowsApart
      <4> QED
        BY <1>1, <2>1, <3>2, <4>1 DEF Capped
    <3>5. ASSUME i >= count + 2 * max_per_second
          PROVE  allowed'[i] >= Capped(window_start' + 2 * Second - max_lag)
      <4>1. allowed[i] >= Capped(window_start + 2 * Second - max_lag)
        BY <1>9, <3>5 DEF Inv, WindowsApart
      <4> QED
        BY <1>1, <2>1, <3>2, <4>1 DEF Capped
    <3> QED
      BY <3>3, <3>4, <3>5
  <2> QED
    BY <1>5, <1>6, <1>7, <2>3, <2>4, <2>5 DEF Inv, TypeInv
<1> QED
  BY <1>8, <1>9

-----------------------------------------------------------------------------
(* Nothing but the calls under way or the verdict changes.                  *)
LEMMA InvStays ==
    ASSUME Inv, UNCHANGED <<settings, entry, allowed>>, NowTypes',
           verdict' = verdict \/ verdict' = "allowed"
    PROVE  Inv'
  BY DEF Inv, TypeInv, SettingTypes, EntryTypes, LogTypes, OpenerInWindow, WindowsApart,
     RejectedOnlyWhenUsedUp, settings, entry, Old, Log, Capped

(* Every step keeps the invariant.                                          *)
LEMMA InvStep == Inv /\ [Next]_vars => Inv'
<1> SUFFICES ASSUME Inv, [Next]_vars PROVE Inv'
  OBVIOUS
<1>1. ASSUME CheckDisabled PROVE Inv'
  <2>1. NowTypes'
    BY <1>1 DEF CheckDisabled, settings, Inv, TypeInv, NowTypes
  <2> QED
    BY <1>1, <2>1, InvStays DEF CheckDisabled
<1>2. ASSUME NEW c \in Calls, ReadClock(c) PROVE Inv'
  <2>1. max_lag \in Nat
    BY Numbers DEF Inv, TypeInv
  <2>2. NowTypes'
    BY <1>2, <2>1 DEF ReadClock, settings, Inv, TypeInv, NowTypes
  <2> QED
    BY <1>2, <2>2, InvStays DEF ReadClock
<1>3. ASSUME NEW c \in Calls, check(c) PROVE Inv'
  <2>1. now[c] \in 0 .. max_lag
    BY <1>3 DEF check, Inv, TypeInv, NowTypes
  <2>2. NowTypes'
    BY <1>3 DEF check, settings, Inv, TypeInv, NowTypes
  <2>3. max_per_second > 0
    BY <1>3 DEF check, Inv, TypeInv, NowTypes
  <2>4. (EntryTypes /\ LogTypes /\ OpenerInWindow /\ WindowsApart /\ RejectedOnlyWhenUsedUp)'
    BY <1>3, <2>1, <2>3, WindowOpens, WindowCounts, WindowIsFull DEF check
  <2>5. SettingTypes'
    BY <1>3 DEF check, settings, Inv, TypeInv, SettingTypes
  <2> QED
    BY <2>2, <2>4, <2>5 DEF Inv, TypeInv
<1>4. ASSUME ClockTicks PROVE Inv'
  BY <1>4, AllGrowOlder
<1>5. CASE UNCHANGED vars
  <2>1. NowTypes'
    BY <1>5 DEF vars, settings, Inv, TypeInv, NowTypes
  <2> QED
    BY <1>5, <2>1, InvStays DEF vars
<1> QED
  BY <1>1, <1>2, <1>3, <1>4, <1>5 DEF Next

(* The initial states satisfy the invariant.                                *)
LEMMA InitInv == Init => Inv
<1> SUFFICES ASSUME Init PROVE Inv
  OBVIOUS
<1>1. SettingTypes
  BY DEF Init, SettingTypes
<1> QED
  BY <1>1, Numbers DEF Init, Inv, TypeInv, EntryTypes, LogTypes, NowTypes, OpenerInWindow,
     WindowsApart, RejectedOnlyWhenUsedUp

(* The inductive invariant is one.                                          *)
THEOREM Invariance == Spec => []Inv
  BY InitInv, InvStep, PTL DEF Spec

(* The variables keep their types for any limits, lags and calls: the count *)
(* of a window never exceeds the limit.                                     *)
THEOREM TypeCorrect == Spec => []TypeOK
<1>1. Inv => TypeOK
  BY DEF Inv, TypeInv, TypeOK, SettingTypes, EntryTypes, LogTypes, NowTypes
<1> QED
  BY <1>1, Invariance, PTL

(* A second sees less than twice the limit when the clock is read under the *)
(* lock, and less than three times the limit in any case (metrics.rs        *)
(* check).                                                                  *)
THEOREM BurstsAreBounded == Spec => []BurstBound
<1>1. Inv => BurstBound
  <2> SUFFICES ASSUME Inv, max_per_second > 0
               PROVE  allowed[(IF max_lag = 0 THEN 2 ELSE 3) * max_per_second] >= Second
    BY DEF BurstBound
  <2>2. /\ max_per_second \in Nat /\ max_lag \in Nat /\ Second \in Nat /\ Second >= 1
        /\ max_lag < Second /\ Old \in Nat /\ Old = Second + max_lag
    BY Numbers DEF Inv, TypeInv
  <2>3. count \in 0 .. max_per_second
    BY DEF Inv, TypeInv, EntryTypes
  <2>4. 2 * max_per_second \in Log /\ 3 * max_per_second \in Log
    BY <2>2 DEF Log
  <2>5. CASE window_start = Absent
    BY <2>2, <2>4, <2>5 DEF Inv, OpenerInWindow
  <2>6. CASE window_start # Absent
    <3>1. window_start \in 0 .. Old
      BY <2>6 DEF Inv, TypeInv, EntryTypes
    <3>2. allowed[2 * max_per_second] \in 0 .. Old /\ allowed[3 * max_per_second] \in 0 .. Old
      BY <2>4 DEF Inv, TypeInv, LogTypes
    <3>3. allowed[2 * max_per_second] >= Capped(window_start + Second - max_lag)
      BY <2>2, <2>3, <2>4, <2>6 DEF Inv, WindowsApart
    <3>4. allowed[3 * max_per_second] >= Capped(window_start + 2 * Second - max_lag)
      BY <2>2, <2>3, <2>4, <2>6 DEF Inv, WindowsApart
    <3>5. max_lag = 0 => allowed[2 * max_per_second] >= Second
      BY <2>2, <3>1, <3>2, <3>3 DEF Capped
    <3>6. allowed[3 * max_per_second] >= Second
      BY <2>2, <3>1, <3>2, <3>4 DEF Capped
    <3> QED
      BY <3>5, <3>6
  <2> QED
    BY <2>5, <2>6
<1> QED
  BY <1>1, Invariance, PTL

(* A key that was quiet for a second and the lag is never refused.          *)
THEOREM QuietKeysAreServed == Spec => []RejectedOnlyWhenUsedUp
<1>1. Inv => RejectedOnlyWhenUsedUp
  BY DEF Inv
<1> QED
  BY <1>1, Invariance, PTL
=============================================================================
