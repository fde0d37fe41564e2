--------------------------- MODULE SpinLockFrames ---------------------------
(***************************************************************************)
(* Spinlocks on any number of CPUs, with any number of threads: which      *)
(* locks the code of SpinLock holds at each of its instructions, and the   *)
(* inductive invariant that reads the holders of the locks off the stacks. *)
(***************************************************************************)
EXTENDS SpinLock, FiniteSetTheorems, TLAPS

-----------------------------------------------------------------------------
(* The code of a frame.                                                    *)
LockOps(L) == [op : {"acquire", "release"}, lk : L]
Instr == LockOps(Lock) \cup [op : {"sched", "pick", "sti", "cli"}, lk : {"none"}]

\* The locks that s, from instruction i + 1 on, releases before it takes them:
\* those that are held there.
HoldAfter(s, i) == {l \in Lock : \E j \in i + 1 .. Len(s) :
                      /\ s[j].lk = l /\ s[j].op = "release"
                      /\ \A k \in i + 1 .. j - 1 : s[k].lk # l}

\* acquire() has its release(), sched() and swtch() run with ptable.lock and no
\* other lock held, and interrupts go on where no lock is held, or until the
\* next instruction with ftable.lock.
Fits(s, i) ==
  /\ s[i].op = "acquire" => s[i].lk \in HoldAfter(s, i)
  /\ s[i].op = "release" => s[i].lk \notin HoldAfter(s, i)
  /\ s[i].op \in {"sched", "pick"} => HoldAfter(s, i) = {"ptable"}
  /\ s[i].op = "sti" => HoldAfter(s, i) = {} \/ (i < Len(s) /\ s[i + 1].op = "cli")
  /\ s[i].op = "cli" => HoldAfter(s, i) = {"ftable"}
Legal(s) == \A i \in 1 .. Len(s) : Fits(s, i)

\* s runs with the locks S held.
Owes(s, S) == s \in Seq(Instr) /\ Legal(s) /\ HoldAfter(s, 0) = S

-----------------------------------------------------------------------------
(* Legal code.                                                             *)

\* The rest of the code, after its first instruction.
LEMMA Shift ==
  ASSUME NEW s \in Seq(Instr), s # << >>
  PROVE  /\ Tail(s) \in Seq(Instr) /\ Len(Tail(s)) = Len(s) - 1 /\ Len(s) \in Nat \ {0}
         /\ Head(s) = s[1] /\ s[1] \in Instr
         /\ \A i \in 1 .. Len(s) - 1 : Tail(s)[i] = s[i + 1]
         /\ \A i \in 1 .. Len(s) : s[i] \in Instr
  OBVIOUS

\* The locks held there are the same (the stack of a call only advances).
LEMMA ShiftHold ==
  ASSUME NEW s \in Seq(Instr), s # << >>, NEW i \in Nat
  PROVE  HoldAfter(Tail(s), i) = HoldAfter(s, i + 1)
<1>0. /\ Len(Tail(s)) = Len(s) - 1 /\ Len(s) \in Nat \ {0}
      /\ \A j \in 1 .. Len(s) - 1 : Tail(s)[j] = s[j + 1]
  BY Shift, Zenon
<1>1. ASSUME NEW l \in Lock, l \in HoldAfter(Tail(s), i) PROVE l \in HoldAfter(s, i + 1)
  <2>1. PICK j \in i + 1 .. Len(Tail(s)) :
          /\ Tail(s)[j].lk = l /\ Tail(s)[j].op = "release"
          /\ \A k \in i + 1 .. j - 1 : Tail(s)[k].lk # l
    BY <1>1, Zenon DEF HoldAfter
  <2>2. j + 1 \in i + 1 + 1 .. Len(s) /\ s[j + 1].lk = l /\ s[j + 1].op = "release"
    <3>1. j \in 1 .. Len(s) - 1 /\ j + 1 \in i + 1 + 1 .. Len(s)
      BY <1>0
    <3> QED
      BY <1>0, <2>1, <3>1, Zenon
  <2>3. ASSUME NEW k \in i + 1 + 1 .. j + 1 - 1 PROVE s[k].lk # l
    <3>1. k - 1 \in i + 1 .. j - 1 /\ k - 1 \in 1 .. Len(s) - 1 /\ k - 1 + 1 = k
      BY <1>0, <2>1
    <3> QED
      BY Zenon, <1>0, <2>1, <3>1
  <2>4. \E m \in i + 1 + 1 .. Len(s) : /\ s[m].lk = l /\ s[m].op = "release"
                                      /\ \A k \in i + 1 + 1 .. m - 1 : s[k].lk # l
    BY <2>2, <2>3
  <2> QED
    BY <2>4, Zenon DEF HoldAfter
<1>2. ASSUME NEW l \in Lock, l \in HoldAfter(s, i + 1) PROVE l \in HoldAfter(Tail(s), i)
  <2>1. PICK j \in i + 1 + 1 .. Len(s) :
          /\ s[j].lk = l /\ s[j].op = "release"
          /\ \A k \in i + 1 + 1 .. j - 1 : s[k].lk # l
    BY <1>2, Zenon DEF HoldAfter
  <2>2. j - 1 \in i + 1 .. Len(Tail(s)) /\ Tail(s)[j - 1].lk = l /\ Tail(s)[j - 1].op = "release"
    <3>1. j - 1 \in 1 .. Len(s) - 1 /\ j - 1 + 1 = j
      BY <1>0, <2>1
    <3> QED
      BY <1>0, <2>1, <3>1
  <2>3. ASSUME NEW k \in i + 1 .. j - 1 - 1 PROVE Tail(s)[k].lk # l
    <3>1. k \in 1 .. Len(s) - 1 /\ k + 1 \in i + 1 + 1 .. j - 1
      BY <1>0, <2>1
    <3> QED
      BY Zenon, <1>0, <2>1, <3>1
  <2> QED
    BY <2>2, <2>3, Zenon DEF HoldAfter
<1>3. HoldAfter(Tail(s), i) \subseteq Lock /\ HoldAfter(s, i + 1) \subseteq Lock
  BY Zenon DEF HoldAfter
<1> QED
  BY <1>1, <1>2, <1>3, Zenon

\* In particular before the first instruction of the rest.
LEMMA FirstHold ==
  ASSUME NEW s \in Seq(Instr), s # << >>
  PROVE  HoldAfter(Tail(s), 0) = HoldAfter(s, 1) /\ HoldAfter(s, 1) \subseteq Lock
<1>1. HoldAfter(Tail(s), 0) = HoldAfter(s, 0 + 1)
  BY Zenon, ShiftHold
<1>2. HoldAfter(s, 1) \subseteq Lock
  BY Zenon DEF HoldAfter
<1> QED
  BY <1>1, <1>2

\* So an instruction fits its code before and after.
LEMMA ShiftFits ==
  ASSUME NEW s \in Seq(Instr), s # << >>, NEW i \in 1 .. Len(s) - 1
  PROVE  Fits(Tail(s), i) <=> Fits(s, i + 1)
<1>1. HoldAfter(Tail(s), i) = HoldAfter(s, i + 1)
  BY ShiftHold
<1>2. Tail(s)[i] = s[i + 1] /\ (i < Len(Tail(s)) <=> i + 1 < Len(s))
  BY Shift
<1>3. i < Len(Tail(s)) => Tail(s)[i + 1] = s[i + 1 + 1]
  BY Shift
<1> QED
  BY <1>1, <1>2, <1>3, Zenon DEF Fits

\* Legal code stays legal, and its first instruction fits.
LEMMA LegalTail ==
  ASSUME NEW s \in Seq(Instr), s # << >>, Legal(s)
  PROVE  Legal(Tail(s)) /\ Fits(s, 1)
<1>1. Fits(s, 1)
  BY Shift DEF Legal
<1>2. ASSUME NEW i \in 1 .. Len(Tail(s)) PROVE Fits(Tail(s), i)
  <2>1. i \in 1 .. Len(s) - 1 /\ i + 1 \in 1 .. Len(s)
    BY Shift
  <2> QED
    BY Zenon, <2>1, ShiftFits DEF Legal
<1> QED
  BY <1>1, <1>2, Zenon DEF Legal

\* Code is legal when it is so from the second instruction on and its first
\* fits.
LEMMA LegalCons ==
  ASSUME NEW s \in Seq(Instr), s # << >>, Legal(Tail(s)), Fits(s, 1)
  PROVE  Legal(s)
<1> SUFFICES ASSUME NEW i \in 1 .. Len(s), i # 1 PROVE Fits(s, i)
  BY Zenon DEF Legal
<1>1. i - 1 \in 1 .. Len(s) - 1 /\ i - 1 \in 1 .. Len(Tail(s)) /\ i - 1 + 1 = i
  BY Shift
<1> QED
  BY Zenon, <1>1, ShiftFits DEF Legal

\* What is held before the first instruction.
LEMMA HoldHead ==
  ASSUME NEW s \in Seq(Instr), s # << >>, NEW l \in Lock
  PROVE  l \in HoldAfter(s, 0) <=>
           IF s[1].lk = l THEN s[1].op = "release" ELSE l \in HoldAfter(s, 1)
<1>0. Len(s) \in Nat \ {0}
  BY Zenon, Shift
<1>1. CASE s[1].lk = l
  <2>1. ASSUME l \in HoldAfter(s, 0) PROVE s[1].op = "release"
    <3>1. PICK j \in 0 + 1 .. Len(s) : /\ s[j].lk = l /\ s[j].op = "release"
                                       /\ \A k \in 0 + 1 .. j - 1 : s[k].lk # l
      BY <2>1, Zenon DEF HoldAfter
    <3>2. j = 1
      BY <1>0, <1>1, <3>1
    <3> QED
      BY Zenon, <3>1, <3>2
  <2>2. ASSUME s[1].op = "release" PROVE l \in HoldAfter(s, 0)
    BY <1>0, <1>1, <2>2 DEF HoldAfter
  <2> QED
    BY Zenon, <1>1, <2>1, <2>2
<1>2. CASE s[1].lk # l
  <2>1. ASSUME NEW j \in 0 + 1 .. Len(s), s[j].lk = l, s[j].op = "release",
               \A k \in 0 + 1 .. j - 1 : s[k].lk # l
        PROVE  l \in HoldAfter(s, 1)
    <3>1. j \in 1 + 1 .. Len(s) /\ \A k \in 1 + 1 .. j - 1 : s[k].lk # l
      BY <1>0, <1>2, <2>1
    <3> QED
      BY <2>1, <3>1, Zenon DEF HoldAfter
  <2>2. ASSUME NEW j \in 1 + 1 .. Len(s), s[j].lk = l, s[j].op = "release",
               \A k \in 1 + 1 .. j - 1 : s[k].lk # l
        PROVE  l \in HoldAfter(s, 0)
    <3>1. j \in 0 + 1 .. Len(s) /\ \A k \in 0 + 1 .. j - 1 : s[k].lk # l
      BY <1>0, <1>2, <2>2
    <3> QED
      BY <2>2, <3>1, Zenon DEF HoldAfter
  <2>3. l \in HoldAfter(s, 0) <=> l \in HoldAfter(s, 1)
    BY <2>1, <2>2, Zenon DEF HoldAfter
  <2> QED
    BY Zenon, <1>2, <2>3
<1> QED
  BY Zenon, <1>1, <1>2

\* Where the code ends no lock is held.
LEMMA OwesEmpty == Owes(<< >>, {})
<1>1. << >> \in Seq(Instr) /\ Len(<< >>) = 0
  OBVIOUS
<1> QED
  BY <1>1 DEF Owes, Legal, HoldAfter

\* Code that starts with acquire(l) holds all that the rest holds but l.
LEMMA OwesAcquire ==
  ASSUME NEW s, NEW S, NEW l \in Lock, s \in Seq(Instr), s # << >>, Owes(Tail(s), S),
         s[1] = Acq(l), l \in S
  PROVE  Owes(s, S \ {l})
<1>1. HoldAfter(s, 1) = S /\ S \subseteq Lock
  BY FirstHold, Zenon DEF Owes
<1>2. s[1].op = "acquire" /\ s[1].lk = l
  BY DEF Acq
<1>3. Fits(s, 1)
  BY Zenon, <1>1, <1>2 DEF Fits
<1>4. Legal(s)
  BY <1>3, LegalCons, Zenon DEF Owes
<1>5. HoldAfter(s, 0) \subseteq Lock /\ \A m \in Lock : m \in HoldAfter(s, 0) <=> m # l /\ m \in S
  BY <1>1, <1>2, HoldHead DEF HoldAfter
<1> QED
  BY <1>1, <1>4, <1>5, Zenon DEF Owes

\* Code that starts with release(l) holds l as well.
LEMMA OwesRelease ==
  ASSUME NEW s, NEW S, NEW l \in Lock, s \in Seq(Instr), s # << >>, Owes(Tail(s), S),
         s[1] = Rel(l), l \notin S
  PROVE  Owes(s, S \cup {l})
<1>1. HoldAfter(s, 1) = S /\ S \subseteq Lock
  BY FirstHold, Zenon DEF Owes
<1>2. s[1].op = "release" /\ s[1].lk = l
  BY DEF Rel
<1>3. Fits(s, 1)
  BY Zenon, <1>1, <1>2 DEF Fits
<1>4. Legal(s)
  BY <1>3, LegalCons, Zenon DEF Owes
<1>5. HoldAfter(s, 0) \subseteq Lock /\ \A m \in Lock : m \in HoldAfter(s, 0) <=> m = l \/ m \in S
  BY Zenon, <1>1, <1>2, HoldHead DEF HoldAfter
<1> QED
  BY <1>1, <1>4, <1>5, Zenon DEF Owes

\* sched(), swtch(), sti() and cli() change no lock.
LEMMA OwesOther ==
  ASSUME NEW s, NEW S, NEW o, s \in Seq(Instr), s # << >>, Owes(Tail(s), S), s[1] = Ins(o),
         \/ o \in {"sched", "pick"} /\ S = {"ptable"}
         \/ o = "sti" /\ S = {}
         \/ o = "sti" /\ Len(s) > 1 /\ s[2].op = "cli"
         \/ o = "cli" /\ S = {"ftable"}
  PROVE  Owes(s, S)
<1>1. HoldAfter(s, 1) = S /\ S \subseteq Lock
  BY FirstHold, Zenon DEF Owes
<1>2. s[1].op = o /\ s[1].lk = "none" /\ "none" \notin Lock
  BY DEF Ins, Lock
<1>3. Fits(s, 1)
  BY <1>1, <1>2 DEF Fits
<1>4. Legal(s)
  BY <1>3, LegalCons, Zenon DEF Owes
<1>5. HoldAfter(s, 0) \subseteq Lock /\ \A m \in Lock : m \in HoldAfter(s, 0) <=> m \in S
  BY <1>1, <1>2, HoldHead DEF HoldAfter
<1> QED
  BY <1>1, <1>4, <1>5, Zenon DEF Owes

\* wakeup(), yield() and the release of a lock with ptable.lock held (proc.c).
LEMMA Suffixes ==
  /\ \A l \in Lock : Owes(<<Rel(l)>>, {l}) /\ Owes(<<Acq(l), Rel(l)>>, {})
  /\ Owes(Yield, {}) /\ Owes(<<Ins("sched"), Rel("ptable")>>, {"ptable"})
<1>0. \A l \in Lock : Acq(l) \in Instr /\ Rel(l) \in Instr
  BY Zenon DEF Acq, Rel, Instr, LockOps
<1>1. Ins("sched") \in Instr /\ "ptable" \in Lock
  BY Zenon DEF Ins, Instr, Lock
<1>2. ASSUME NEW l \in Lock PROVE Owes(<<Rel(l)>>, {l})
  <2>1. <<Rel(l)>> \in Seq(Instr) /\ <<Rel(l)>> # << >> /\ <<Rel(l)>>[1] = Rel(l) /\ Tail(<<Rel(l)>>) = << >>
    BY <1>0
  <2>2. Owes(<<Rel(l)>>, {} \cup {l})
    BY Zenon, <2>1, OwesEmpty, OwesRelease
  <2> QED
    BY Zenon, <2>2
<1>3. ASSUME NEW l \in Lock PROVE Owes(<<Acq(l), Rel(l)>>, {})
  <2> DEFINE s == <<Acq(l), Rel(l)>>
  <2>1. s \in Seq(Instr) /\ s # << >> /\ s[1] = Acq(l) /\ Tail(s) = <<Rel(l)>>
    BY <1>0
  <2>2. Owes(s, {l} \ {l})
    BY Zenon, <2>1, <1>2, OwesAcquire
  <2> QED
    BY Zenon, <2>2
<1>4. Owes(<<Ins("sched"), Rel("ptable")>>, {"ptable"})
  <2> DEFINE s == <<Ins("sched"), Rel("ptable")>>
  <2>1. s \in Seq(Instr) /\ s # << >> /\ s[1] = Ins("sched") /\ Tail(s) = <<Rel("ptable")>>
    BY <1>0, <1>1
  <2> QED
    BY Zenon, <2>1, <1>1, <1>2, OwesOther
<1>5. Owes(Yield, {})
  <2>1. /\ Yield \in Seq(Instr) /\ Yield # << >> /\ Yield[1] = Acq("ptable")
        /\ Tail(Yield) = <<Ins("sched"), Rel("ptable")>>
    BY <1>0, <1>1 DEF Yield
  <2>2. Owes(Yield, {"ptable"} \ {"ptable"})
    BY Zenon, <2>1, <1>1, <1>4, OwesAcquire
  <2> QED
    BY Zenon, <2>2
<1> QED
  BY Zenon, <1>2, <1>3, <1>4, <1>5

\* A call that sleeps with its lock given up (proc.c:sleep()).
LEMMA SleepCode ==
  ASSUME NEW l \in Lock \ {"ptable"}
  PROVE  Owes(SleepCall(l), {})
<1>0. Acq(l) \in Instr /\ Rel(l) \in Instr /\ Acq("ptable") \in Instr /\ Rel("ptable") \in Instr
  BY Zenon DEF Acq, Rel, Instr, LockOps, Lock
<1>1. Ins("sched") \in Instr /\ "ptable" \in Lock
  BY Zenon DEF Ins, Instr, Lock
<1> DEFINE s5 == <<Rel("ptable"), Acq(l), Rel(l)>>
           s4 == <<Ins("sched"), Rel("ptable"), Acq(l), Rel(l)>>
           s3 == <<Rel(l), Ins("sched"), Rel("ptable"), Acq(l), Rel(l)>>
           s2 == <<Acq("ptable"), Rel(l), Ins("sched"), Rel("ptable"), Acq(l), Rel(l)>>
           s1 == <<Acq(l), Acq("ptable"), Rel(l), Ins("sched"), Rel("ptable"), Acq(l), Rel(l)>>
<1>2. /\ s5 \in Seq(Instr) /\ s4 \in Seq(Instr) /\ s3 \in Seq(Instr) /\ s2 \in Seq(Instr) /\ s1 \in Seq(Instr)
      /\ s5 # << >> /\ s4 # << >> /\ s3 # << >> /\ s2 # << >> /\ s1 # << >>
  BY <1>0, <1>1
<1>3. /\ s5[1] = Rel("ptable") /\ s4[1] = Ins("sched") /\ s3[1] = Rel(l) /\ s2[1] = Acq("ptable") /\ s1[1] = Acq(l)
      /\ Tail(s5) = <<Acq(l), Rel(l)>>
  OBVIOUS
<1>t. Tail(s4) = s5 /\ Tail(s3) = s4 /\ Tail(s2) = s3 /\ Tail(s1) = s2
  OBVIOUS
<1> HIDE DEF s5, s4, s3, s2, s1
<1>5. Owes(s5, {} \cup {"ptable"})
  BY Zenon, <1>1, <1>2, <1>3, Suffixes, OwesRelease
<1>4. Owes(s4, {"ptable"})
  BY Zenon, <1>2, <1>3, <1>t, <1>5, OwesOther
<1>6. Owes(s3, {"ptable"} \cup {l})
  BY Zenon, <1>2, <1>3, <1>t, <1>4, OwesRelease
<1>7. Owes(s2, ({"ptable"} \cup {l}) \ {"ptable"})
  BY Zenon, <1>1, <1>2, <1>3, <1>t, <1>6, OwesAcquire
<1>8. Owes(s1, (({"ptable"} \cup {l}) \ {"ptable"}) \ {l})
  BY Zenon, <1>2, <1>3, <1>t, <1>7, OwesAcquire
<1>9. (({"ptable"} \cup {l}) \ {"ptable"}) \ {l} = {}
  BY Zenon
<1> QED
  BY Zenon, <1>8, <1>9 DEF SleepCall, s1

\* filealloc() (file.c:33-42).
LEMMA FileCode == Owes(FileAlloc, {})
<1>0. /\ Acq("ftable") \in Instr /\ Rel("ftable") \in Instr /\ Ins("sti") \in Instr /\ Ins("cli") \in Instr
      /\ "ftable" \in Lock
  BY Zenon DEF Acq, Rel, Ins, Instr, LockOps, Lock
<1> DEFINE s3 == <<Ins("cli"), Rel("ftable")>>
           s2 == <<Ins("sti"), Ins("cli"), Rel("ftable")>>
           s1 == <<Acq("ftable"), Ins("sti"), Ins("cli"), Rel("ftable")>>
<1>1. /\ s3 \in Seq(Instr) /\ s2 \in Seq(Instr) /\ s1 \in Seq(Instr)
      /\ s3 # << >> /\ s2 # << >> /\ s1 # << >>
  BY <1>0
<1>2. /\ s3[1] = Ins("cli") /\ s2[1] = Ins("sti") /\ s1[1] = Acq("ftable") /\ Len(s2) > 1 /\ s2[2] = Ins("cli")
      /\ Tail(s3) = <<Rel("ftable")>> /\ Tail(s2) = s3 /\ Tail(s1) = s2
  OBVIOUS
<1>a. Ins("cli").op = "cli"
  BY Zenon DEF Ins
<1> HIDE DEF s3, s2, s1
<1>3. Owes(s3, {"ftable"})
  BY Zenon, <1>0, <1>1, <1>2, Suffixes, OwesOther
<1>4. Owes(s2, {"ftable"})
  BY Zenon, <1>1, <1>2, <1>a, <1>3, OwesOther
<1>5. Owes(s1, {"ftable"} \ {"ftable"})
  BY Zenon, <1>0, <1>1, <1>2, <1>4, OwesAcquire
<1> QED
  BY Zenon, <1>5 DEF FileAlloc, s1

\* A handler that wakes a sleeper with its own lock held (ideintr(), and the
\* clock of CPU 0), and what may follow it.
LEMMA HandlerCode ==
  ASSUME NEW l \in Lock \ {"ptable"}, NEW s, Owes(s, {})
  PROVE  Owes(<<Acq(l)>> \o Wakeup \o <<Rel(l)>> \o s, {})
<1>0. Acq(l) \in Instr /\ Rel(l) \in Instr /\ Acq("ptable") \in Instr /\ Rel("ptable") \in Instr /\ "ptable" \in Lock
  BY Zenon DEF Acq, Rel, Instr, LockOps, Lock
<1>a. s \in Seq(Instr)
  BY Zenon DEF Owes
<1> DEFINE s4 == <<Rel(l)>> \o s
           s3 == <<Rel("ptable"), Rel(l)>> \o s
           s2 == <<Acq("ptable"), Rel("ptable"), Rel(l)>> \o s
           s1 == <<Acq(l), Acq("ptable"), Rel("ptable"), Rel(l)>> \o s
<1>1. /\ s4 \in Seq(Instr) /\ s3 \in Seq(Instr) /\ s2 \in Seq(Instr) /\ s1 \in Seq(Instr)
  BY <1>0, <1>a
<1>b. s4 # << >> /\ s3 # << >> /\ s2 # << >> /\ s1 # << >>
  BY <1>0, <1>a
<1>2. s4[1] = Rel(l) /\ s3[1] = Rel("ptable") /\ s2[1] = Acq("ptable") /\ s1[1] = Acq(l)
  BY <1>0, <1>a
<1>3. Tail(s4) = s
  BY <1>0, <1>a
<1>c. Tail(s3) = s4
  BY <1>0, <1>a
<1>d. Tail(s2) = s3
  BY <1>0, <1>a
<1>e. Tail(s1) = s2
  BY <1>0, <1>a
<1>f. <<Acq(l)>> \o Wakeup \o <<Rel(l)>> \o s = s1
  BY <1>0, <1>a DEF Wakeup
<1> HIDE DEF s4, s3, s2, s1
<1>4. Owes(s4, {} \cup {l})
  BY Zenon, <1>1, <1>b, <1>2, <1>3, OwesRelease
<1>5. Owes(s3, ({} \cup {l}) \cup {"ptable"})
  BY Zenon, <1>0, <1>1, <1>b, <1>2, <1>c, <1>4, OwesRelease
<1>6. Owes(s2, (({} \cup {l}) \cup {"ptable"}) \ {"ptable"})
  BY Zenon, <1>0, <1>1, <1>b, <1>2, <1>d, <1>5, OwesAcquire
<1>7. Owes(s1, ((({} \cup {l}) \cup {"ptable"}) \ {"ptable"}) \ {l})
  BY Zenon, <1>1, <1>b, <1>2, <1>e, <1>6, OwesAcquire
<1>8. ((({} \cup {l}) \cup {"ptable"}) \ {"ptable"}) \ {l} = {}
  BY Zenon
<1> QED
  BY Zenon, <1>7, <1>8, <1>f
-----------------------------------------------------------------------------
(* The inductive invariant.                                                *)
Ctx == CPU \cup Thread
Kind == {"user", "call", "irq", "forkret", "scheduler"}
At == {"start", "cli", "xchg", "cpu", "unlock", "popcli", "switched"}
FrameType == [kind : Kind, code : Seq(Instr), at : At, eflags : 0 .. 1]

\* The locks of a frame, of the frames below the innermost one of the stack s,
\* of the stack, and of a CPU.
Crit(f) == {l \in Lock : InCritical(f, l)}
Inner(s) == s[Len(s)]
Below(s) == IF Len(s) = 1 THEN {} ELSE Crit(s[1])
HeldIn(s) == Below(s) \cup Crit(Inner(s))
H(c) == HeldIn(stack[on[c]])

\* How far an instruction can have come, and the instructions of a frame.
Doings(op) == CASE op = "acquire" -> {"start", "cli", "xchg", "cpu"}
                [] op = "release" -> {"start", "unlock", "popcli"}
                [] op = "sched" -> {"start", "switched"}
                [] OTHER -> {"start"}
Handler == LockOps(Lock \ {"ftable"})
Uses(k) == CASE k = "call" -> LockOps(Lock) \cup {Ins("sched"), Ins("sti"), Ins("cli")}
             [] k = "irq" -> Handler \cup {Ins("sched")}
             [] k = "forkret" -> {Rel("ptable")}
             [] k = "scheduler" -> LockOps({"ptable"}) \cup {Ins("pick"), Ins("sti")}
             [] OTHER -> {}

\* A frame: an interrupt handler starts with interrupts off, and a system call
\* finds them on when it takes its first lock.
FrameOK(f) ==
  /\ f \in FrameType /\ f.code \in Seq(Uses(f.kind)) /\ Legal(f.code)
  /\ IF f.code = << >> THEN f.at = "start" ELSE f.at \in Doings(Head(f.code).op)
  /\ f.kind = "irq" /\ f.at = "cli" => f.eflags = 0
  /\ f.kind = "call" /\ f.at = "cli" /\ Crit(f) = {} => f.eflags = 1

\* A handler is on top of a frame that holds no lock, or is in the gap that
\* filealloc() leaves open.
Interruptible(f) == /\ f.at \in {"start", "cli"}
                    /\ Crit(f) = {} \/ (f.code # << >> /\ Head(f.code).op = "cli")
\* The kinds and the code of the innermost frame of a stack of n frames.
Proper(x, n, f) ==
  /\ FrameOK(f)
  /\ n = 1 => IF x \in CPU THEN f.kind = "scheduler" ELSE f.kind \in {"user", "call", "forkret"}
  /\ n = 2 => f.kind = "irq" /\ (x \in CPU => f.code \in Seq(Handler))
StackOK(x, s) ==
  /\ s \in Seq(FrameType) /\ Len(s) \in 1 .. 2
  /\ Proper(x, 1, s[1])
  /\ Len(s) = 2 => Proper(x, 2, s[2]) /\ Interruptible(s[1])
\* Without filealloc() no interrupt comes while a lock is held.
Shut(s) == /\ Below(s) = {}
           /\ s[1].kind = "call" => s[1].code \in Seq(LockOps(Lock) \cup {Ins("sched")})

\* A thread that no CPU runs: in sched(), or not yet in forkret().
Suspended(s, ena) ==
  /\ Inner(s).code # << >> /\ Crit(Inner(s)) = {"ptable"} /\ Below(s) = {}
  /\ \/ /\ Inner(s).at = "switched"
        /\ Inner(s).kind = "call" => ena = 1
        /\ Inner(s).kind = "irq" => ena = 0
     \/ Inner(s).at = "start" /\ Inner(s).kind = "forkret"
\* A scheduler that has switched to a thread.
Parked(s) == Len(s) = 1 /\ s[1].code # << >> /\ Head(s[1].code).op = "pick"

Switching ==
  /\ \A c, d \in CPU : on[c] = on[d] => c = d
  /\ \A c \in CPU : on[c] # c => Parked(stack[c])
  /\ \A t \in Thread : (\A c \in CPU : on[c] # t) => Suspended(stack[t], saved[t])

\* The lock between its xchg and lk->cpu = mycpu(), or between lk->cpu = 0 and
\* the movl.
Pending(f) == IF f.at \in {"cpu", "unlock"} THEN {Head(f.code).lk} ELSE {}
LocksOK(hold, pend, lw, lc) ==
  /\ \A c, d \in CPU, l \in Lock : l \in hold[c] /\ l \in hold[d] => c = d
  /\ \A l \in Lock : lw[l] = 1 <=> \E c \in CPU : l \in hold[c]
  /\ \A c \in CPU, l \in Lock : lc[l] = c => l \in hold[c]
  /\ \A c \in CPU, l \in Lock : l \in hold[c] => lc[l] = IF l \in pend[c] THEN NoCPU ELSE c
Holds == [c \in CPU |-> H(c)]
Pend == [c \in CPU |-> Pending(Top(c))]
Locks == LocksOK(Holds, Pend, locked, lcpu)

\* The registers of a CPU whose innermost frame is f, above frames that hold low
\* and with h held in all: the interrupt flag i, ncli n and intena e.
Extra(f) == IF f.at \in {"xchg", "popcli"} THEN 1 ELSE 0
FlagsOK(f, low, h, i, n, e) ==
  /\ n = Cardinality(h) + Extra(f)
  /\ f.at # "switched"
  /\ f.kind = "irq" \/ f.at \notin {"start", "cli"} => i = 0
  /\ i = 1 /\ h # {} => f.code # << >> /\ Head(f.code).op = "cli"
  /\ f.kind = "irq" /\ low = {} /\ n > 0 => e = 0
  /\ f.kind = "call" /\ n > 0 => e = 1
  /\ f.kind = "call" /\ n = 0 => i = 1
  /\ low # {} => e = 1
  /\ f.kind = "user" => i = 1
Flags(c) == FlagsOK(Top(c), Below(stack[on[c]]), H(c), IF_[c], ncli[c], intena[c])

Types ==
  /\ locked \in [Lock -> 0 .. 1] /\ lcpu \in [Lock -> CPU \cup {NoCPU}]
  /\ IF_ \in [CPU -> 0 .. 1] /\ ncli \in [CPU -> Nat] /\ intena \in [CPU -> 0 .. 1]
  /\ on \in [CPU -> Ctx] /\ stack \in [Ctx -> Seq(FrameType)] /\ saved \in [Thread -> 0 .. 1]
  /\ \A c \in CPU : on[c] \in Thread \cup {c}
  /\ \A x \in Ctx : Len(stack[x]) \in 1 .. 2
  /\ panic \in {"none", "sched_locks"} /\ machine \in Machines

Stacks == /\ \A x \in Ctx : StackOK(x, stack[x])
          /\ "filealloc" \notin machine.calls => \A x \in Ctx : Shut(stack[x])
Sound == Stacks /\ Switching /\ Locks /\ \A c \in CPU : Flags(c)

IInv == Types /\ NoPanic /\ (panic = "none" => Sound)

-----------------------------------------------------------------------------
\* The code of the system calls.
LEMMA CallPrograms ==
  ASSUME NEW call \in Call
  PROVE  /\ Owes(CallCode(call), {}) /\ CallCode(call) \in Seq(Uses("call"))
         /\ call # "filealloc" => CallCode(call) \in Seq(LockOps(Lock) \cup {Ins("sched")})
<1>0. \A l \in Lock : Acq(l) \in LockOps(Lock) /\ Rel(l) \in LockOps(Lock)
  BY Zenon DEF Acq, Rel, LockOps
<1>1. {"ptable", "tickslock", "idelock", "ftable"} = Lock
  BY Zenon DEF Lock
<1>2. Uses("call") = LockOps(Lock) \cup {Ins("sched"), Ins("sti"), Ins("cli")}
  BY Zenon DEF Uses
<1>3. \A l \in Lock : SleepCall(l) \in Seq(LockOps(Lock) \cup {Ins("sched")})
  BY <1>0, <1>1 DEF SleepCall
<1>4. Yield \in Seq(LockOps(Lock) \cup {Ins("sched")}) /\ Wakeup \in Seq(LockOps(Lock) \cup {Ins("sched")})
  BY <1>0, <1>1 DEF Yield, Wakeup
<1>5. FileAlloc \in Seq(LockOps(Lock) \cup {Ins("sched"), Ins("sti"), Ins("cli")})
  BY <1>0, <1>1 DEF FileAlloc
<1>6. Seq(LockOps(Lock) \cup {Ins("sched")}) \subseteq Seq(Uses("call"))
  <2>1. LockOps(Lock) \cup {Ins("sched")} \subseteq Uses("call")
    BY Zenon, <1>2
  <2> QED
    BY <2>1
<1>7. /\ Owes(SleepCall("idelock"), {}) /\ Owes(SleepCall("tickslock"), {}) /\ Owes(Yield, {})
      /\ Owes(Wakeup, {}) /\ Owes(FileAlloc, {})
  BY Zenon, <1>1, SleepCode, Suffixes, FileCode DEF Wakeup
<1>8. /\ CallCode("iderw") = SleepCall("idelock") /\ CallCode("sys_sleep") = SleepCall("tickslock")
      /\ CallCode("wait") = Yield /\ CallCode("wakeup") = Wakeup /\ CallCode("filealloc") = FileAlloc
  BY Zenon DEF CallCode
<1>9. call \in {"iderw", "sys_sleep", "wait", "wakeup", "filealloc"}
  BY Zenon DEF Call
<1>10. CASE call = "filealloc"
  BY Zenon, <1>2, <1>5, <1>7, <1>8, <1>10
<1>11. CASE call # "filealloc"
  <2>1. Owes(CallCode(call), {}) /\ CallCode(call) \in Seq(LockOps(Lock) \cup {Ins("sched")})
    BY Zenon, <1>1, <1>3, <1>4, <1>7, <1>8, <1>9, <1>11
  <2> QED
    BY Zenon, <2>1, <1>6, <1>11
<1> QED
  BY Zenon, <1>10, <1>11

\* The code of the interrupt handlers: only a process yields.
LEMMA IrqPrograms ==
  ASSUME NEW c, NEW code \in {TimerCode(c), IdeCode}
  PROVE  /\ Owes(code, {}) /\ code \in Seq(Uses("irq"))
         /\ on[c] \notin Thread => code \in Seq(Handler)
<1>0. \A l \in Lock \ {"ftable"} : Acq(l) \in Handler /\ Rel(l) \in Handler
  BY Zenon DEF Acq, Rel, Handler, LockOps
<1>1. {"ptable", "tickslock", "idelock"} \subseteq Lock \ {"ftable"}
  BY Zenon DEF Lock
<1>2. Uses("irq") = Handler \cup {Ins("sched")}
  BY Zenon DEF Uses
<1> DEFINE tick == <<Acq("tickslock")>> \o Wakeup \o <<Rel("tickslock")>>
<1>3. tick \in Seq(Handler) /\ IdeCode \in Seq(Handler)
  BY <1>0, <1>1 DEF IdeCode, Wakeup
<1>4. Yield \in Seq(Uses("irq")) /\ << >> \in Seq(Handler) /\ Seq(Handler) \subseteq Seq(Uses("irq"))
  BY <1>0, <1>1, <1>2 DEF Yield
<1>5. Owes(tick \o Yield, {}) /\ Owes(tick \o << >>, {}) /\ Owes(IdeCode \o << >>, {})
  BY Zenon, <1>1, OwesEmpty, Suffixes, HandlerCode DEF IdeCode
<1>6. tick \o << >> = tick /\ IdeCode \o << >> = IdeCode /\ << >> \o Yield = Yield /\ << >> \o << >> = << >>
  BY <1>3, <1>4
<1>7. tick \o Yield \in Seq(Uses("irq"))
  <2>1. tick \in Seq(Uses("irq"))
    BY Zenon, <1>3, <1>4
  <2> HIDE DEF tick
  <2> QED
    BY <1>4, <2>1
<1> HIDE DEF tick
<1>8. CASE code = IdeCode
  BY Zenon, <1>3, <1>4, <1>5, <1>6, <1>8
<1>9. CASE code = TimerCode(c) /\ on[c] \in Thread
  <2>1. code = tick \o Yield \/ code = Yield
    BY Zenon, <1>6, <1>9 DEF TimerCode, tick
  <2> QED
    BY Zenon, <1>4, <1>5, <1>7, <1>9, <2>1, Suffixes
<1>10. CASE code = TimerCode(c) /\ on[c] \notin Thread
  <2>1. code = tick \/ code = << >>
    BY Zenon, <1>6, <1>10 DEF TimerCode, tick
  <2> QED
    BY Zenon, <1>3, <1>4, <1>5, <1>6, <2>1, OwesEmpty
<1> QED
  BY Zenon, <1>8, <1>9, <1>10

\* The code of scheduler() and of forkret().
LEMMA KernelPrograms ==
  /\ Owes(SchedulerCode, {}) /\ SchedulerCode \in Seq(Uses("scheduler"))
  /\ Owes(<<Rel("ptable")>>, {"ptable"}) /\ <<Rel("ptable")>> \in Seq(Uses("forkret"))
  /\ Owes(<< >>, {}) /\ << >> \in Seq(Uses("user"))
<1>0. /\ Acq("ptable") \in LockOps({"ptable"}) /\ Rel("ptable") \in LockOps({"ptable"})
      /\ Acq("ptable") \in Instr /\ Rel("ptable") \in Instr /\ "ptable" \in Lock
      /\ Ins("pick") \in Instr /\ Ins("sti") \in Instr
  BY Zenon DEF Acq, Rel, Ins, LockOps, Instr, Lock
<1>1. Uses("scheduler") = LockOps({"ptable"}) \cup {Ins("pick"), Ins("sti")} /\ Uses("forkret") = {Rel("ptable")}
  BY Zenon DEF Uses
<1> DEFINE s3 == <<Ins("pick"), Rel("ptable")>>
           s2 == <<Acq("ptable"), Ins("pick"), Rel("ptable")>>
           s1 == <<Ins("sti"), Acq("ptable"), Ins("pick"), Rel("ptable")>>
<1>2. /\ s3 \in Seq(Instr) /\ s2 \in Seq(Instr) /\ s1 \in Seq(Instr)
      /\ s3 # << >> /\ s2 # << >> /\ s1 # << >>
  BY <1>0
<1>3. /\ s3[1] = Ins("pick") /\ s2[1] = Acq("ptable") /\ s1[1] = Ins("sti")
      /\ Tail(s3) = <<Rel("ptable")>> /\ Tail(s2) = s3 /\ Tail(s1) = s2
  OBVIOUS
<1>4. s1 \in Seq(Uses("scheduler")) /\ <<Rel("ptable")>> \in Seq(Uses("forkret")) /\ << >> \in Seq(Uses("user"))
  BY <1>0, <1>1
<1> HIDE DEF s3, s2, s1
<1>5. Owes(<<Rel("ptable")>>, {"ptable"})
  BY Zenon, <1>0, Suffixes
<1>6. Owes(s3, {"ptable"})
  BY Zenon, <1>2, <1>3, <1>5, OwesOther
<1>7. Owes(s2, {"ptable"} \ {"ptable"})
  BY Zenon, <1>0, <1>2, <1>3, <1>6, OwesAcquire
<1>8. Owes(s2, {})
  BY Zenon, <1>7
<1>9. Owes(s1, {})
  BY Zenon, <1>2, <1>3, <1>8, OwesOther
<1> QED
  BY Zenon, <1>4, <1>5, <1>9, OwesEmpty DEF SchedulerCode, s1

-----------------------------------------------------------------------------
(* Frames.                                                                 *)

\* The locks of a frame in terms of its current instruction: between the xchg
\* and the movl of a lock it is held (spinlock.c:24-75).
LEMMA CritHead ==
  ASSUME NEW f, f \in FrameType, f.code # << >>, NEW l \in Lock
  PROVE  l \in Crit(f) <=>
           IF f.code[1].lk = l THEN \/ f.code[1].op = "release" /\ f.at # "popcli"
                                    \/ f.code[1].op = "acquire" /\ f.at = "cpu"
                               ELSE l \in HoldAfter(f.code, 1)
<1>0. f.code \in Seq(Instr) /\ Len(f.code) \in Nat \ {0}
  BY Zenon, Shift DEF FrameType
<1>1. CASE f.code[1].lk = l
  <2>1. ASSUME NEW i \in 1 .. Len(f.code), \A j \in 1 .. i - 1 : f.code[j].lk # l PROVE i = 1
    BY <1>0, <1>1, <2>1
  <2>2. l \in Crit(f) <=> \/ f.code[1].op = "release" /\ f.at # "popcli"
                          \/ f.code[1].op = "acquire" /\ f.at = "cpu"
    <3>1. 1 \in 1 .. Len(f.code) /\ \A j \in 1 .. 1 - 1 : f.code[j].lk # l
      BY <1>0
    <3> QED
      BY <1>1, <2>1, <3>1, Zenon DEF Crit, InCritical
  <2> QED
    BY Zenon, <1>1, <2>2
<1>2. CASE f.code[1].lk # l
  <2>1. ASSUME InCritical(f, l) PROVE l \in HoldAfter(f.code, 1)
    <3>1. PICK i \in 1 .. Len(f.code) :
            /\ f.code[i].lk = l
            /\ \A j \in 1 .. i - 1 : f.code[j].lk # l
            /\ \/ f.code[i].op = "release" /\ ~(i = 1 /\ f.at = "popcli")
               \/ f.code[i].op = "acquire" /\ i = 1 /\ f.at = "cpu"
      BY <2>1, Zenon DEF InCritical
    <3>2. i \in 1 + 1 .. Len(f.code) /\ f.code[i].op = "release" /\ \A j \in 1 + 1 .. i - 1 : f.code[j].lk # l
      BY <1>0, <1>2, <3>1
    <3> QED
      BY <3>1, <3>2, Zenon DEF HoldAfter
  <2>2. ASSUME l \in HoldAfter(f.code, 1) PROVE InCritical(f, l)
    <3>1. PICK i \in 1 + 1 .. Len(f.code) : /\ f.code[i].lk = l /\ f.code[i].op = "release"
                                            /\ \A j \in 1 + 1 .. i - 1 : f.code[j].lk # l
      BY <2>2, Zenon DEF HoldAfter
    <3>2. i \in 1 .. Len(f.code) /\ i # 1 /\ \A j \in 1 .. i - 1 : f.code[j].lk # l
      BY <1>0, <1>2, <3>1
    <3> QED
      BY <3>1, <3>2, Zenon DEF InCritical
  <2> QED
    BY <1>2, <2>1, <2>2, Zenon DEF Crit
<1> QED
  BY Zenon, <1>1, <1>2

\* A frame between two instructions holds the locks its code releases.
LEMMA CritStart ==
  ASSUME NEW f, f \in FrameType, f.at = "start"
  PROVE  Crit(f) = HoldAfter(f.code, 0)
<1>1. ASSUME NEW l \in Lock PROVE InCritical(f, l) <=> l \in HoldAfter(f.code, 0)
  <2>1. ASSUME NEW i \in 1 .. Len(f.code)
        PROVE  (\/ f.code[i].op = "release" /\ ~(i = 1 /\ f.at = "popcli")
                \/ f.code[i].op = "acquire" /\ i = 1 /\ f.at = "cpu") <=> f.code[i].op = "release"
    BY Zenon
  <2>2. 0 + 1 = 1
    OBVIOUS
  <2> QED
    BY <2>1, <2>2, Zenon DEF InCritical, HoldAfter
<1>2. HoldAfter(f.code, 0) \subseteq Lock
  BY Zenon DEF HoldAfter
<1> QED
  BY <1>1, <1>2, Zenon DEF Crit

\* A frame whose code is done holds nothing.
LEMMA CritDone ==
  ASSUME NEW f, f.code = << >>
  PROVE  Crit(f) = {}
<1>1. Len(f.code) = 0
  OBVIOUS
<1> QED
  BY <1>1 DEF Crit, InCritical

\* A new frame: legal code, held locks and kind.
LEMMA NewFrame ==
  ASSUME NEW k \in Kind, NEW code, NEW S, Owes(code, S), code \in Seq(Uses(k))
  PROVE  /\ FrameOK(Frame(k, code)) /\ Crit(Frame(k, code)) = S
         /\ Frame(k, code).kind = k /\ Frame(k, code).code = code /\ Frame(k, code).at = "start"
<1> DEFINE f == Frame(k, code)
<1>0. code \in Seq(Instr)
  BY Zenon DEF Owes
<1>1. f \in FrameType /\ f.kind = k /\ f.code = code /\ f.at = "start" /\ f.eflags = 0
  <2>1. f = [kind |-> k, code |-> code, at |-> "start", eflags |-> 0]
    BY Zenon DEF Frame
  <2>2. 0 \in 0 .. 1 /\ "start" \in At
    BY DEF At
  <2> QED
    BY <1>0, <2>1, <2>2 DEF FrameType
<1> HIDE DEF f
<1>2. Crit(f) = S
  BY Zenon, <1>1, CritStart DEF Owes
<1>3. code # << >> => f.at \in Doings(Head(code).op)
  BY Zenon, <1>1 DEF Doings
<1>4. Legal(f.code)
  BY Zenon, <1>1 DEF Owes
<1>5. FrameOK(f)
  BY Zenon, <1>1, <1>3, <1>4 DEF FrameOK
<1> QED
  BY Zenon, <1>1, <1>2, <1>5 DEF f

\* The frame after its current instruction.
LEMMA NextFrame ==
  ASSUME NEW f, FrameOK(f), f.code # << >>
  PROVE  /\ FrameOK(After(f)) /\ After(f).kind = f.kind /\ After(f).code = Tail(f.code)
         /\ After(f).at = "start" /\ Crit(After(f)) = HoldAfter(f.code, 1)
<1>1. f \in FrameType /\ f.code \in Seq(Instr) /\ f.kind \in Kind /\ Legal(f.code) /\ f.code \in Seq(Uses(f.kind))
  BY Zenon DEF FrameOK, FrameType
<1>2. Owes(Tail(f.code), HoldAfter(f.code, 1))
  BY <1>1, Shift, LegalTail, FirstHold, Zenon DEF Owes
<1>4. Tail(f.code) \in Seq(Uses(f.kind))
  <2> DEFINE s == f.code
             U == Uses(f.kind)
  <2>1. s # << >> /\ s \in Seq(U)
    BY <1>1, Zenon
  <2> HIDE DEF s, U
  <2>2. Tail(s) \in Seq(U)
    BY <2>1
  <2> QED
    BY <2>2, Zenon DEF s, U
<1> QED
  <2> DEFINE k == f.kind
             s == Tail(f.code)
             S == HoldAfter(f.code, 1)
             g == Frame(k, s)
  <2>0. k \in Kind /\ Owes(s, S) /\ s \in Seq(Uses(k))
    BY Zenon, <1>1, <1>2, <1>4
  <2>1. FrameOK(g) /\ Crit(g) = S /\ g.kind = k /\ g.code = s /\ g.at = "start"
    <3> HIDE DEF k, s, S, g
    <3>1. FrameOK(Frame(k, s)) /\ Crit(Frame(k, s)) = S /\ Frame(k, s).kind = k /\ Frame(k, s).code = s
          /\ Frame(k, s).at = "start"
      BY <2>0, NewFrame, Zenon
    <3> QED
      BY <3>1, Zenon DEF g
  <2> QED
    BY <2>1, Zenon DEF After

\* The current instruction of a frame.
LEMMA HeadIs ==
  ASSUME NEW f, FrameOK(f), f.code # << >>
  PROVE  /\ f \in FrameType /\ f.code \in Seq(Instr) /\ Len(f.code) \in Nat \ {0}
         /\ f.code[1] = Head(f.code) /\ Head(f.code) \in Instr /\ Head(f.code) \in Uses(f.kind)
         /\ Fits(f.code, 1) /\ f.at \in Doings(Head(f.code).op)
         /\ HoldAfter(f.code, 1) \subseteq Lock
<1>1. f \in FrameType /\ f.code \in Seq(Instr) /\ Legal(f.code) /\ f.code \in Seq(Uses(f.kind))
  BY Zenon DEF FrameOK, FrameType
<1>2. Head(f.code) \in Uses(f.kind)
  <2> DEFINE s == f.code
             U == Uses(f.kind)
  <2>1. s # << >> /\ s \in Seq(U)
    BY <1>1, Zenon
  <2> HIDE DEF s, U
  <2>2. Head(s) \in U
    BY <2>1
  <2> QED
    BY <2>2, Zenon DEF s, U
<1>3. f.at \in Doings(Head(f.code).op)
  BY Zenon DEF FrameOK
<1> QED
  BY <1>1, <1>2, <1>3, Shift, LegalTail, FirstHold, Zenon

\* What acquire() and release() do to the locks of their frame.
LEMMA CritLock ==
  ASSUME NEW f, FrameOK(f), f.code # << >>, Head(f.code).op \in {"acquire", "release"}
  PROVE  LET l == Head(f.code).lk  C == HoldAfter(f.code, 1) IN
         /\ l \in Lock
         /\ Head(f.code).op = "acquire" => l \in C /\ Crit(f) = IF f.at = "cpu" THEN C ELSE C \ {l}
         /\ Head(f.code).op = "release" => l \notin C /\ Crit(f) = IF f.at = "popcli" THEN C ELSE C \cup {l}
<1> DEFINE l == Head(f.code).lk
           C == HoldAfter(f.code, 1)
<1>1. /\ f \in FrameType /\ f.code[1] = Head(f.code) /\ Fits(f.code, 1) /\ C \subseteq Lock
      /\ Head(f.code) \in Instr
  BY HeadIs, Zenon
<1>2. l \in Lock
  BY Zenon, <1>1 DEF Instr, LockOps
<1>3. Head(f.code).op = "acquire" => l \in C
  BY <1>1, Zenon DEF Fits
<1>4. Head(f.code).op = "release" => l \notin C
  BY <1>1, Zenon DEF Fits
<1>5. \A m \in Lock : m \in Crit(f) <=>
          IF l = m THEN \/ Head(f.code).op = "release" /\ f.at # "popcli"
                        \/ Head(f.code).op = "acquire" /\ f.at = "cpu"
                   ELSE m \in C
  BY <1>1, CritHead, Zenon
<1>6. Crit(f) \subseteq Lock
  BY Zenon DEF Crit
<1>7. Head(f.code).op = "acquire" => Crit(f) = IF f.at = "cpu" THEN C ELSE C \ {l}
  <2> HIDE DEF l, C
  <2> QED
    BY Zenon, <1>1, <1>2, <1>3, <1>5, <1>6
<1>8. Head(f.code).op = "release" => Crit(f) = IF f.at = "popcli" THEN C ELSE C \cup {l}
  <2> HIDE DEF l, C
  <2> QED
    BY Zenon, <1>1, <1>2, <1>4, <1>5, <1>6
<1> QED
  BY <1>2, <1>3, <1>4, <1>7, <1>8, Zenon

\* The other instructions do nothing to them, and each runs with the locks its
\* place in the code needs.
LEMMA CritOther ==
  ASSUME NEW f, FrameOK(f), f.code # << >>, Head(f.code).op \notin {"acquire", "release"}
  PROVE  /\ Crit(f) = HoldAfter(f.code, 1) /\ Head(f.code).op \in {"sched", "pick", "sti", "cli"}
         /\ Head(f.code).op \in {"sched", "pick"} => Crit(f) = {"ptable"}
         /\ Head(f.code).op = "sti" => Crit(f) = {} \/ (Tail(f.code) # << >> /\ Head(Tail(f.code)).op = "cli")
         /\ Head(f.code).op = "cli" => Crit(f) = {"ftable"}
<1> DEFINE C == HoldAfter(f.code, 1)
<1>1. /\ f \in FrameType /\ f.code[1] = Head(f.code) /\ Fits(f.code, 1) /\ C \subseteq Lock
      /\ Head(f.code) \in Instr /\ f.code \in Seq(Instr)
  BY HeadIs, Zenon
<1>2. Head(f.code).lk = "none" /\ Head(f.code).op \in {"sched", "pick", "sti", "cli"} /\ "none" \notin Lock
  BY Zenon, <1>1 DEF Instr, LockOps, Lock
<1>3. \A m \in Lock : m \in Crit(f) <=> m \in C
  BY <1>1, <1>2, CritHead, Zenon
<1>4. Crit(f) = C
  BY <1>1, <1>3, Zenon DEF Crit
<1>5. Head(f.code).op = "sti" => C = {} \/ (Tail(f.code) # << >> /\ Head(Tail(f.code)).op = "cli")
  <2> SUFFICES ASSUME 1 < Len(f.code), f.code[1 + 1].op = "cli"
               PROVE  Tail(f.code) # << >> /\ Head(Tail(f.code)).op = "cli"
    BY <1>1, Zenon DEF Fits
  <2> DEFINE t == Tail(f.code)
  <2>1. Len(t) # 0 /\ t[1].op = "cli" /\ t \in Seq(Instr)
    BY <1>1, Shift
  <2> HIDE DEF t
  <2>2. t # << >> /\ Head(t) = t[1]
    BY <2>1
  <2> QED
    BY <2>1, <2>2, Zenon DEF t
<1>6. Head(f.code).op = "cli" => C = {"ftable"}
  BY <1>1, Zenon DEF Fits
<1>7. Head(f.code).op \in {"sched", "pick"} => C = {"ptable"}
  BY <1>1, Zenon DEF Fits
<1> QED
  BY Zenon, <1>2, <1>4, <1>5, <1>6, <1>7

\* Which frames have which instructions: only a system call opens the gap, and
\* only scheduler() picks a process.
LEMMA WhoRuns ==
  ASSUME NEW f, FrameOK(f), f.code # << >>
  PROVE  /\ Head(f.code).op = "cli" => f.kind = "call"
         /\ Head(f.code).op = "pick" => f.kind = "scheduler"
         /\ Head(f.code).op = "sched" => f.kind \in {"call", "irq"}
         /\ Head(f.code).op = "sti" => f.kind \in {"call", "scheduler"}
         /\ f.kind = "irq" /\ Head(f.code).op \in {"acquire", "release"} => Head(f.code).lk # "ftable"
         /\ f.kind = "forkret" => Head(f.code).op = "release"
         /\ f.kind # "user"
<1>1. Head(f.code) \in Uses(f.kind) /\ f.kind \in Kind
  BY HeadIs DEF FrameType
<1>2. CASE f.kind = "user"
  BY Zenon, <1>1, <1>2 DEF Uses
<1>3. CASE f.kind = "call"
  BY <1>1, <1>3 DEF Uses, LockOps, Ins
<1>4. CASE f.kind = "irq"
  BY <1>1, <1>4 DEF Uses, Handler, LockOps, Ins
<1>5. CASE f.kind = "forkret"
  BY <1>1, <1>5 DEF Uses, Rel
<1>6. CASE f.kind = "scheduler"
  BY <1>1, <1>6 DEF Uses, LockOps, Ins
<1> QED
  BY Zenon, <1>1, <1>2, <1>3, <1>4, <1>5, <1>6 DEF Kind

\* A handler never holds ftable.lock, the lock that can be held below it.
LEMMA HandlerLocks ==
  ASSUME NEW f, FrameOK(f), f.kind = "irq"
  PROVE  "ftable" \notin Crit(f)
<1>1. f.code \in Seq(Handler \cup {Ins("sched")})
  BY Zenon DEF FrameOK, Uses
<1>2. ASSUME NEW i \in 1 .. Len(f.code) PROVE f.code[i].lk # "ftable"
  <2>1. f.code[i] \in Handler \cup {Ins("sched")}
    BY <1>1
  <2> QED
    BY <2>1 DEF Handler, LockOps, Ins
<1> QED
  BY <1>2, Zenon DEF Crit, InCritical

\* What lies below a handler: nothing, or filealloc() in its gap.
LEMMA BelowIs ==
  ASSUME NEW x, NEW s, StackOK(x, s)
  PROVE  /\ FrameOK(Inner(s)) /\ Below(s) \subseteq {"ftable"} /\ Below(s) \cap Crit(Inner(s)) = {}
         /\ Inner(s).kind # "irq" => Len(s) = 1 /\ Below(s) = {} /\ HeldIn(s) = Crit(Inner(s)) /\ s[1] = Inner(s)
         /\ Inner(s).kind = "irq" => Len(s) = 2 /\ s[2] = Inner(s)
         /\ Below(s) # {} => s[1].kind = "call" /\ s[1].code # << >> /\ Head(s[1].code).op = "cli" /\ s[1].at = "start"
         /\ HeldIn(s) \subseteq Lock
<1>1. CASE Len(s) = 1
  <2>1. Inner(s) = s[1] /\ Below(s) = {} /\ FrameOK(s[1]) /\ s[1].kind # "irq"
    BY Zenon, <1>1 DEF Inner, Below, StackOK, Proper
  <2> QED
    BY Zenon, <1>1, <2>1 DEF HeldIn, Crit
<1>2. CASE Len(s) = 2
  <2>1. /\ Inner(s) = s[2] /\ Below(s) = Crit(s[1]) /\ FrameOK(s[1]) /\ FrameOK(s[2]) /\ s[2].kind = "irq"
        /\ Interruptible(s[1])
    BY Zenon, <1>2 DEF Inner, Below, StackOK, Proper
  <2>2. CASE Crit(s[1]) = {}
    BY Zenon, <1>2, <2>1, <2>2 DEF HeldIn, Crit
  <2>3. CASE Crit(s[1]) # {}
    <3>1. s[1].code # << >> /\ Head(s[1].code).op = "cli"
      BY Zenon, <2>1, <2>3 DEF Interruptible
    <3>2. Crit(s[1]) = {"ftable"} /\ s[1].kind = "call" /\ s[1].at \in Doings("cli")
      BY Zenon, <2>1, <3>1, CritOther, WhoRuns, HeadIs
    <3>3. s[1].at = "start"
      BY Zenon, <3>2 DEF Doings
    <3>4. "ftable" \notin Crit(s[2])
      BY Zenon, <2>1, HandlerLocks
    <3>5. HeldIn(s) \subseteq Lock
      BY <2>1, Zenon DEF HeldIn, Crit
    <3> QED
      BY ZenonT(30), <1>2, <2>1, <3>1, <3>2, <3>3, <3>4, <3>5
  <2> QED
    BY Zenon, <2>2, <2>3
<1> QED
  BY <1>1, <1>2 DEF StackOK
=============================================================================
