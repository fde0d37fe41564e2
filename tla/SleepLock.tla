----------------------------- MODULE SleepLock -----------------------------
(***************************************************************************)
(* A sleep lock (sleeplock.c) on top of sleep() and wakeup() (proc.c),     *)
(* with the two spinlocks they use, lk->lk and ptable.lock, as variables.  *)
(* It is also the protocol every other user of sleep(chan, lk) follows:    *)
(* test a condition under lk, sleep, test again.                           *)
(*                                                                         *)
(* Each acquire() of a spinlock is a step that waits until it is free.     *)
(* The scheduler takes ptable.lock to run a process and the process        *)
(* releases it in sleep().  kill() may wake a sleeper at any time.         *)
(***************************************************************************)
EXTENDS Kernel

ASSUME NobodyAssumption == Nobody \notin Proc

VARIABLES
  locked,   \* lk->locked
  owner,    \* lk->pid, Nobody for 0
  lk,       \* holder of the spinlock lk->lk
  ptable,   \* holder of ptable.lock
  state,    \* p->state, for the states sleep() and wakeup() tell apart
  slpc,       \* where each process is
  slpanic     \* holdingsleep() was false for a process that has the lock

slvars == <<locked, owner, lk, ptable, state, slpc, slpanic>>

PC == {"idle", "acquire", "test", "sleep", "release_lk", "sched", "asleep",
       "reacquire", "crit", "release", "wakeup", "release_lk2"}

SlInit == /\ locked = FALSE
          /\ owner = Nobody
          /\ lk = Nobody
          /\ ptable = Nobody
          /\ state = [p \in Proc |-> "RUNNING"]
          /\ slpc = [p \in Proc |-> "idle"]
          /\ slpanic = FALSE

Step(p, from, to) == ~slpanic /\ slpc[p] = from /\ slpc' = [slpc EXCEPT ![p] = to]

-----------------------------------------------------------------------------
\* acquiresleep(): acquire(&lk->lk).
acquiresleep(p) == /\ Step(p, "acquire", "test")
                   /\ lk = Nobody /\ lk' = p
                   /\ UNCHANGED <<locked, owner, ptable, state, slpanic>>

\* The while loop finds the lock taken and calls sleep() ...
must_sleep(p) == /\ Step(p, "test", "sleep")
                 /\ locked
                 /\ UNCHANGED <<locked, owner, lk, ptable, state, slpanic>>

\* ... or finds it free, takes it and releases lk->lk.
take(p) == /\ Step(p, "test", "crit")
           /\ ~locked /\ locked' = TRUE
           /\ owner' = p
           /\ lk' = Nobody
           /\ UNCHANGED <<ptable, state, slpanic>>

\* Mutant: sleep() takes ptable.lock only after it has released lk.
sleep_ptable_Late(p) == /\ Step(p, "sleep", "release_lk")
                        /\ UNCHANGED <<locked, owner, lk, ptable, state, slpanic>>

\* sleep(lk, &lk->lk): acquire(&ptable.lock) before release(lk).
sleep_ptable(p) == /\ Step(p, "sleep", "release_lk")
                   /\ ptable = Nobody /\ ptable' = p
                   /\ UNCHANGED <<locked, owner, lk, state, slpanic>>

sleep_release(p) == /\ Step(p, "release_lk", "sched")
                    /\ lk' = Nobody
                    /\ UNCHANGED <<locked, owner, ptable, state, slpanic>>

\* p->state = SLEEPING and sched(): the scheduler releases ptable.lock.
sleep_sched(p) == /\ Step(p, "sched", "asleep")
                  /\ state' = [state EXCEPT ![p] = "SLEEPING"]
                  /\ ptable' = Nobody
                  /\ UNCHANGED <<locked, owner, lk, slpanic>>

\* The scheduler runs the process again; sleep() clears p->chan and releases
\* ptable.lock.
sleep_resume(p) == /\ Step(p, "asleep", "reacquire")
                   /\ state[p] = "RUNNABLE"
                   /\ ptable = Nobody
                   /\ state' = [state EXCEPT ![p] = "RUNNING"]
                   /\ UNCHANGED <<locked, owner, lk, ptable, slpanic>>

\* Mutant: acquiresleep() tests lk->locked with an if, not a while.
sleep_reacquire_If(p) == /\ Step(p, "reacquire", "crit")
                         /\ lk = Nobody
                         /\ locked' = TRUE
                         /\ owner' = p
                         /\ UNCHANGED <<lk, ptable, state, slpanic>>

\* sleep() reacquires lk and acquiresleep() tests again.
sleep_reacquire(p) == /\ Step(p, "reacquire", "test")
                      /\ lk = Nobody /\ lk' = p
                      /\ UNCHANGED <<locked, owner, ptable, state, slpanic>>

\* releasesleep() up to its wakeup(lk).
releasesleep(p) == /\ Step(p, "release", "wakeup")
                   /\ lk = Nobody /\ lk' = p
                   /\ locked' = FALSE
                   /\ owner' = Nobody
                   /\ UNCHANGED <<ptable, state, slpanic>>

\* wakeup(lk): ptable.lock is held during the scan only.
wakeup(p) == /\ Step(p, "wakeup", "release_lk2")
             /\ ptable = Nobody
             /\ state' = [q \in Proc |-> IF state[q] = "SLEEPING" THEN "RUNNABLE"
                                                                  ELSE state[q]]
             /\ UNCHANGED <<locked, owner, lk, ptable, slpanic>>

release_lk2(p) == /\ Step(p, "release_lk2", "idle")
                  /\ lk' = Nobody
                  /\ UNCHANGED <<locked, owner, ptable, state, slpanic>>

\* The caller wants the lock, or is done with what it protects.
want(p) == /\ Step(p, "idle", "acquire")
           /\ UNCHANGED <<locked, owner, lk, ptable, state, slpanic>>

\* brelse() and iunlock() first ask holdingsleep(), which takes lk->lk.
finish(p) == /\ Step(p, "crit", "release")
             /\ lk = Nobody
             /\ slpanic' = ~locked
             /\ UNCHANGED <<locked, owner, lk, ptable, state>>

\* kill() makes a sleeping process runnable (proc.c:492).
kill(p) == /\ ~slpanic
           /\ ptable = Nobody
           /\ state[p] = "SLEEPING"
           /\ state' = [state EXCEPT ![p] = "RUNNABLE"]
           /\ UNCHANGED <<locked, owner, lk, ptable, slpc, slpanic>>

-----------------------------------------------------------------------------
Run(p) == \/ acquiresleep(p) \/ must_sleep(p) \/ take(p)
          \/ sleep_ptable(p) \/ sleep_release(p) \/ sleep_sched(p)
          \/ sleep_resume(p) \/ sleep_reacquire(p)
          \/ finish(p) \/ releasesleep(p) \/ wakeup(p) \/ release_lk2(p)

SlNext == \E p \in Proc : Run(p) \/ want(p) \/ kill(p)

SlSpec == SlInit /\ [][SlNext]_slvars

-----------------------------------------------------------------------------
\* Type invariant.
SlTypeOK ==
  /\ locked \in BOOLEAN
  /\ owner \in Proc \cup {Nobody}
  /\ lk \in Proc \cup {Nobody}
  /\ ptable \in Proc \cup {Nobody}
  /\ state \in [Proc -> {"RUNNING", "SLEEPING", "RUNNABLE"}]
  /\ slpc \in [Proc -> PC]
  /\ slpanic \in BOOLEAN

\* The sleep lock is a mutex with lk->pid as its owner.
M == INSTANCE Mutex
IsMutex == M!Spec

\* A process between acquiresleep() and releasesleep() is the owner, so two
\* processes are never there together.
HolderOwns == \A p \in Proc : slpc[p] \in {"crit", "release"} => locked /\ owner = p

\* No wakeup is lost: whoever sleeps does so while the lock is taken, or while
\* a wakeup() that will find it is on its way.  sleep() takes ptable.lock
\* before it releases lk->lk, and sets SLEEPING before it gives up ptable.lock.
NoLostWakeup == \A p \in Proc : state[p] = "SLEEPING" =>
                  locked \/ \E q \in Proc : slpc[q] = "wakeup"

\* No process sleeps for ever.
SleepersWoken == \A p \in Proc : slpc[p] = "asleep" ~> slpc[p] = "test"

\* acquiresleep() and releasesleep() hand the lock from owner to owner and
\* leave no sleeper behind.
SleepLockSound == SlTypeOK /\ HolderOwns /\ NoLostWakeup
=============================================================================
