---------------------------------- MODULE Ph ---------------------------------
(***************************************************************************)
(* The parallel hash table (ph.c): each thread puts its share of the keys  *)
(* under the lock of their bucket, waits for the others at a barrier made  *)
(* of a counter, and then looks all the keys up without any lock.  A       *)
(* bucket is the sequence of the keys of its list, head first.             *)
(***************************************************************************)
EXTENDS Integers, Sequences, FiniteSets

CONSTANTS NThread, NBUCKET,
          keys             \* a sequence; its length is a multiple of NThread

Thread == 0 .. NThread - 1
ASSUME KeysAssumption == Len(keys) % NThread = 0
NKEYS == Len(keys)
PerThread == NKEYS \div NThread        \* b of thread()
Bucket(k) == k % NBUCKET

VARIABLES table, locks,    \* locks: the thread that holds each lock, or -1
          done, thr        \* thr: [pc, i, next, k]
phVars == <<table, locks, done, thr>>

PhInit == /\ table = [b \in 0 .. NBUCKET - 1 |-> <<>>] /\ locks = [b \in 0 .. NBUCKET - 1 |-> -1]
          /\ done = 0
          /\ thr = [t \in Thread |-> [pc |-> "put", i |-> 0, next |-> <<>>, k |-> 0]]

Key(t) == keys[PerThread * t + thr[t].i + 1]

\* put(): lock, e->next = *head, *head = e, unlock.
put_lock(t) ==
  /\ thr[t].pc = "put" /\ thr[t].i < PerThread /\ locks[Bucket(Key(t))] = -1
  /\ locks' = [locks EXCEPT ![Bucket(Key(t))] = t]
  /\ thr' = [thr EXCEPT ![t].pc = "next"] /\ UNCHANGED <<table, done>>

put_next(t) ==
  /\ thr[t].pc = "next" /\ thr' = [thr EXCEPT ![t].pc = "head", ![t].next = table[Bucket(Key(t))]]
  /\ UNCHANGED <<table, locks, done>>

put_head(t) ==
  /\ thr[t].pc = "head" /\ thr' = [thr EXCEPT ![t].pc = "unlock", ![t].next = <<>>]
  /\ table' = [table EXCEPT ![Bucket(Key(t))] = <<Key(t)>> \o thr[t].next]
  /\ UNCHANGED <<locks, done>>

\* Mutant: the lock is kept.
put_unlock_Kept(t) ==
  /\ thr[t].pc = "unlock" /\ thr' = [thr EXCEPT ![t].pc = "put", ![t].i = @ + 1]
  /\ UNCHANGED <<table, locks, done>>

put_unlock(t) ==
  /\ thr[t].pc = "unlock" /\ thr' = [thr EXCEPT ![t].pc = "put", ![t].i = @ + 1]
  /\ locks' = [locks EXCEPT ![Bucket(Key(t))] = -1] /\ UNCHANGED <<table, done>>

\* The barrier: the atomic add, then the loop until all have come.
barrier_add(t) ==
  /\ thr[t].pc = "put" /\ thr[t].i = PerThread /\ done' = done + 1
  /\ thr' = [thr EXCEPT ![t].pc = "barrier", ![t].i = 0] /\ UNCHANGED <<table, locks>>

barrier_pass(t) ==
  /\ thr[t].pc = "barrier" /\ done >= NThread /\ thr' = [thr EXCEPT ![t].pc = "get"]
  /\ UNCHANGED <<table, locks, done>>

\* get() of the i-th key; k counts the keys that are missing.
get(t) ==
  /\ thr[t].pc = "get" /\ thr[t].i < NKEYS
  /\ LET key == keys[thr[t].i + 1]
         bucket == table[Bucket(key)]
         found == \E n \in 1 .. Len(bucket) : bucket[n] = key IN
     thr' = [thr EXCEPT ![t].i = @ + 1, ![t].k = IF found THEN @ ELSE @ + 1]
  /\ UNCHANGED <<table, locks, done>>

ThreadStep(t) == \/ put_lock(t) \/ put_next(t) \/ put_head(t) \/ put_unlock(t)
                 \/ barrier_add(t) \/ barrier_pass(t) \/ get(t)
PhNext == \E t \in Thread : ThreadStep(t)

------------------------------------------------------------------------------
\* No key is missing for any thread, and every put is in its list once: two
\* puts in one bucket never take the same head, and no get runs beside a put.
NoKeyMissing ==
  /\ \A t \in Thread : thr[t].k = 0
  /\ (\A t \in Thread : thr[t].pc = "get") =>
       \A key \in {keys[i] : i \in 1 .. NKEYS} :
         Cardinality({n \in 1 .. Len(table[Bucket(key)]) : table[Bucket(key)][n] = key})
           = Cardinality({i \in 1 .. NKEYS : keys[i] = key})

\* Once a thread has started, all of them finish their lookups: no thread waits
\* for ever for a bucket's lock, and the barrier opens for all.
ThreadsFinish == (\E t \in Thread : thr[t].pc # "put")
                   ~> \A t \in Thread : thr[t].pc = "get" /\ thr[t].i = NKEYS

\* All threads finish, and the lookups find every key that was put.
TableComplete == []NoKeyMissing /\ ThreadsFinish
==============================================================================
