-------------------------------- MODULE Clock --------------------------------
(***************************************************************************)
(* Clock ticks and sys_sleep() (trap.c, sysproc.c): the timer interrupt    *)
(* counts ticks under tickslock and wakes the sleepers; a process in       *)
(* sys_sleep() tests for a kill, sleeps and tests the time again.          *)
(***************************************************************************)
EXTENDS Integers, Kernel

CONSTANTS Sleeper,
          UIntTicks,   \* 2^32: ticks is a uint
          MaxSleep,    \* bound on the argument of sleep
          Lag          \* ticks that pass before a woken process runs
ASSUME LagAssumption == Lag \in Nat /\ MaxSleep + Lag < UIntTicks

VARIABLES ticks, tickslock,
          spc,         \* idle, enter, test, sleep, asleep, wake
          sn, ticks0,  \* locals of sys_sleep()
          skilled,
          elapsed,     \* ticks since the call, for the property
          result       \* what the last sys_sleep() returned

clockVars == <<ticks, tickslock, spc, sn, ticks0, skilled, elapsed, result>>

ClockInit ==
  /\ ticks \in {0, UIntTicks - 2} /\ tickslock = Nobody
  /\ spc = [p \in Sleeper |-> "idle"] /\ sn = [p \in Sleeper |-> 0]
  /\ ticks0 = [p \in Sleeper |-> 0] /\ skilled = {}
  /\ elapsed = [p \in Sleeper |-> 0] /\ result = [p \in Sleeper |-> "none"]

\* Mutant: the tick under way counts as a whole one.
Since_Early(t0) == (ticks + 1 + UIntTicks - t0) % UIntTicks
Since(t0) == (ticks + UIntTicks - t0) % UIntTicks

Woken == {p \in Sleeper : spc[p] = "asleep"}

\* The timer interrupt on CPU 0.  A woken process runs within Lag ticks.
timer_intr ==
  /\ tickslock = Nobody
  /\ \A p \in Sleeper : spc[p] = "wake" => elapsed[p] < sn[p] + Lag
  /\ ticks' = (ticks + 1) % UIntTicks
  /\ spc' = [p \in Sleeper |-> IF p \in Woken THEN "wake" ELSE spc[p]]
  /\ elapsed' = [p \in Sleeper |-> IF spc[p] \in {"asleep", "wake"} THEN elapsed[p] + 1 ELSE 0]
  /\ UNCHANGED <<tickslock, sn, ticks0, skilled, result>>

sys_sleep(p) ==
  /\ spc[p] = "idle" /\ p \notin skilled
  /\ \E n \in 0 .. MaxSleep : sn' = [sn EXCEPT ![p] = n]
  /\ spc' = [spc EXCEPT ![p] = "enter"]
  /\ result' = [result EXCEPT ![p] = "none"]
  /\ UNCHANGED <<ticks, tickslock, ticks0, skilled, elapsed>>

\* acquire(&tickslock), on entry or at the end of sleep().
sleep_acquire(p) ==
  /\ spc[p] \in {"enter", "wake"} /\ tickslock = Nobody
  /\ tickslock' = p /\ spc' = [spc EXCEPT ![p] = "test"]
  /\ ticks0' = IF spc[p] = "enter" THEN [ticks0 EXCEPT ![p] = ticks] ELSE ticks0
  /\ UNCHANGED <<ticks, sn, skilled, elapsed, result>>

\* Mutant: a killed process returns with tickslock held.
sleep_test_Kept(p) ==
  LET done == Since(ticks0[p]) >= sn[p] IN
  /\ spc[p] = "test"
  /\ IF done \/ p \in skilled
     THEN /\ spc' = [spc EXCEPT ![p] = "idle"]
          /\ tickslock' = IF done THEN Nobody ELSE tickslock
          /\ result' = [result EXCEPT ![p] = IF done THEN "0" ELSE "-1"]
          /\ sn' = [sn EXCEPT ![p] = 0] /\ ticks0' = [ticks0 EXCEPT ![p] = 0]
          /\ elapsed' = [elapsed EXCEPT ![p] = 0]
     ELSE spc' = [spc EXCEPT ![p] = "sleep"] /\ UNCHANGED <<tickslock, result, sn, ticks0, elapsed>>
  /\ UNCHANGED <<ticks, skilled>>

\* The loop's tests: return 0, return -1, or go on to sleep().
sleep_test(p) ==
  LET done == Since(ticks0[p]) >= sn[p] IN
  /\ spc[p] = "test"
  /\ IF done \/ p \in skilled
     THEN /\ spc' = [spc EXCEPT ![p] = "idle"] /\ tickslock' = Nobody
          /\ result' = [result EXCEPT ![p] = IF done THEN "0" ELSE "-1"]
          /\ sn' = [sn EXCEPT ![p] = 0] /\ ticks0' = [ticks0 EXCEPT ![p] = 0]
          /\ elapsed' = [elapsed EXCEPT ![p] = 0]
     ELSE spc' = [spc EXCEPT ![p] = "sleep"] /\ UNCHANGED <<tickslock, result, sn, ticks0, elapsed>>
  /\ UNCHANGED <<ticks, skilled>>

\* sleep(&ticks, &tickslock): asleep before tickslock is let go.
sleep_ticks(p) ==
  /\ spc[p] = "sleep"
  /\ spc' = [spc EXCEPT ![p] = "asleep"] /\ tickslock' = Nobody
  /\ UNCHANGED <<ticks, sn, ticks0, skilled, elapsed, result>>

\* kill() by another process.
clock_kill(p) ==
  /\ p \notin skilled /\ spc[p] # "idle"
  /\ skilled' = skilled \union {p}
  /\ spc' = IF spc[p] = "asleep" THEN [spc EXCEPT ![p] = "wake"] ELSE spc
  /\ UNCHANGED <<ticks, tickslock, sn, ticks0, elapsed, result>>

\* The killed process exits, and its slot is used again.
clock_exit(p) ==
  /\ p \in skilled /\ spc[p] = "idle"
  /\ skilled' = skilled \ {p} /\ result' = [result EXCEPT ![p] = "none"]
  /\ UNCHANGED <<ticks, tickslock, spc, sn, ticks0, elapsed>>

SleepStep(p) == sleep_acquire(p) \/ sleep_test(p) \/ sleep_ticks(p)
ClockNext == timer_intr \/ \E p \in Sleeper :
               SleepStep(p) \/ sys_sleep(p) \/ clock_kill(p) \/ clock_exit(p)

------------------------------------------------------------------------------
\* sys_sleep(n) returns 0 only after n ticks, also when ticks wraps around.
SleepsLongEnough ==
  [][\A p \in Sleeper : (result'[p] = "0" /\ result[p] # "0") => elapsed[p] >= sn[p]]_clockVars

\* Nobody is asleep when its time has come: no tick falls between the test of
\* the time and the sleep, with tickslock held over both.
NoOversleep == \A p \in Sleeper : spc[p] = "asleep" => elapsed[p] < sn[p]

\* Every call of sys_sleep() returns.
SleepReturns == \A p \in Sleeper : spc[p] = "enter" ~> spc[p] = "idle"

\* sys_sleep() returns neither early nor late.
SleepsOnTime == SleepsLongEnough /\ []NoOversleep
==============================================================================
