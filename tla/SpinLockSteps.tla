--------------------------- MODULE SpinLockSteps ----------------------------
(***************************************************************************)
(* Spinlocks on any number of CPUs, with any number of threads: how a step *)
(* of one CPU changes the stacks and the locks, and that the steps of      *)
(* acquire() and release() keep the invariant.                             *)
(***************************************************************************)
EXTENDS SpinLockFrames

-----------------------------------------------------------------------------
(* Stacks.                                                                 *)
Quiet == LockOps(Lock) \cup {Ins("sched")}

\* A step inside an instruction (Goto) leaves a frame in order.
LEMMA GotoIs ==
  ASSUME NEW f, FrameOK(f), f.code # << >>, NEW a, a \in Doings(Head(f.code).op), a # "cli"
  PROVE  LET g == [f EXCEPT !.at = a] IN
         FrameOK(g) /\ g.kind = f.kind /\ g.code = f.code /\ g.at = a
<1> DEFINE g == [f EXCEPT !.at = a]
<1>1. f \in FrameType
  BY Zenon DEF FrameOK
<1>2. a \in At
  BY Zenon DEF Doings, At
<1>3. g \in FrameType /\ g.kind = f.kind /\ g.code = f.code /\ g.at = a
  BY Zenon, <1>1, <1>2 DEF FrameType
<1> HIDE DEF g
<1>4. FrameOK(g)
  BY <1>3, Zenon DEF FrameOK
<1> QED
  BY <1>3, <1>4, Zenon DEF g

\* A new innermost frame on a stack.
LEMMA Replace ==
  ASSUME NEW x, NEW s, StackOK(x, s), NEW g, Proper(x, Len(s), g), NEW t, t = [s EXCEPT ![Len(s)] = g]
  PROVE  /\ StackOK(x, t) /\ Inner(t) = g /\ Below(t) = Below(s) /\ HeldIn(t) = Below(s) \cup Crit(g)
         /\ Len(t) = Len(s)
         /\ Shut(s) /\ (Len(s) = 1 /\ g.kind = "call" => g.code \in Seq(Quiet)) => Shut(t)
<1>1. s \in Seq(FrameType) /\ Len(s) \in 1 .. 2 /\ g \in FrameType
  BY Zenon DEF StackOK, Proper, FrameOK
<1>2. t \in Seq(FrameType) /\ Len(t) = Len(s) /\ t[Len(s)] = g /\ (Len(s) = 2 => t[1] = s[1])
  BY <1>1
<1>3. Inner(t) = g
  BY Zenon, <1>2 DEF Inner
<1>4. CASE Len(s) = 1
  <2>1. t[1] = g /\ Len(t) = 1
    BY Zenon, <1>2, <1>4
  <2>2. Below(s) = {} /\ Below(t) = {}
    BY <1>2, <1>4, Zenon DEF Below
  <2>3. Len(t) \in 1 .. 2 /\ Len(t) # 2
    BY <2>1
  <2>4. Proper(x, 1, g)
    BY <1>4, Zenon
  <2>5. StackOK(x, t)
    BY <1>2, <2>1, <2>3, <2>4, Zenon DEF StackOK
  <2>6. Shut(s) /\ (Len(s) = 1 /\ g.kind = "call" => g.code \in Seq(Quiet)) => Shut(t)
    BY <1>4, <2>1, <2>2, Zenon DEF Shut, Quiet
  <2> QED
    BY <1>2, <1>3, <2>2, <2>5, <2>6, Zenon DEF HeldIn
<1>5. CASE Len(s) = 2
  <2>1. t[1] = s[1] /\ t[2] = g /\ Len(t) = 2
    BY Zenon, <1>2, <1>5
  <2>2. Below(s) = Crit(s[1]) /\ Below(t) = Crit(s[1])
    BY <1>5, <2>1 DEF Below
  <2>3. Proper(x, 2, g) /\ Proper(x, 1, s[1]) /\ Interruptible(s[1])
    BY <1>5, Zenon DEF StackOK
  <2>4. StackOK(x, t)
    BY <1>1, <1>2, <2>1, <2>3, Zenon DEF StackOK
  <2>5. Shut(s) => Shut(t)
    BY <2>1, <2>2, Zenon DEF Shut
  <2> QED
    BY <1>2, <1>3, <2>2, <2>4, <2>5, Zenon DEF HeldIn
<1>6. Len(s) = 1 \/ Len(s) = 2
  BY <1>1
<1> QED
  BY <1>4, <1>5, <1>6, Zenon

\* The frame that runs the rest of the same code is a proper one.
LEMMA NextProper ==
  ASSUME NEW x, NEW s, StackOK(x, s), Inner(s).code # << >>, NEW g, FrameOK(g), g.kind = Inner(s).kind,
         g.code \in {Inner(s).code, Tail(Inner(s).code)}
  PROVE  /\ Proper(x, Len(s), g)
         /\ Shut(s) => (Len(s) = 1 /\ g.kind = "call" => g.code \in Seq(Quiet))
<1>1. \A S : Inner(s).code \in Seq(S) => g.code \in Seq(S)
  <2> SUFFICES ASSUME NEW S, Inner(s).code \in Seq(S) PROVE g.code \in Seq(S)
    BY Zenon
  <2> DEFINE u == Inner(s).code
  <2>1. u \in Seq(S) /\ u # << >> /\ g.code \in {u, Tail(u)}
    BY Zenon
  <2> HIDE DEF u
  <2>2. Tail(u) \in Seq(S)
    BY <2>1
  <2> QED
    BY <2>1, <2>2, Zenon
<1>2. CASE Len(s) = 1
  <2>1. Inner(s) = s[1] /\ Proper(x, 1, s[1])
    BY <1>2, Zenon DEF Inner, StackOK
  <2>2. Proper(x, 1, g)
    BY Zenon, <2>1 DEF Proper
  <2> QED
    BY <1>1, <1>2, <2>1, <2>2, Zenon DEF Shut, Quiet
<1>3. CASE Len(s) = 2
  <2>1. Inner(s) = s[2] /\ Proper(x, 2, s[2])
    BY <1>3, Zenon DEF Inner, StackOK
  <2>2. Proper(x, 2, g)
    BY Zenon, <1>1, <2>1 DEF Proper
  <2> QED
    BY <1>3, <2>2
<1> QED
  BY <1>2, <1>3 DEF StackOK

\* What is on a CPU, and that it is on no other.
LEMMA OnCPU ==
  ASSUME Types, Sound, NEW c \in CPU
  PROVE  /\ on[c] \in Ctx /\ StackOK(on[c], stack[on[c]]) /\ Inner(stack[on[c]]) = Top(c)
         /\ on[c] \in Thread \/ on[c] = c
         /\ \A d \in CPU \ {c} : on[d] # on[c] /\ on[c] # d
         /\ FrameOK(Top(c)) /\ H(c) = Below(stack[on[c]]) \cup Crit(Top(c)) /\ H(c) \subseteq Lock
<1>1. on[c] \in Ctx /\ (on[c] \in Thread \/ on[c] = c)
  BY Zenon DEF Types
<1>2. StackOK(on[c], stack[on[c]]) /\ Inner(stack[on[c]]) = Top(c)
  BY <1>1, Zenon DEF Sound, Stacks, Inner, Top
<1>3. \A d \in CPU \ {c} : on[d] # on[c]
  BY Zenon DEF Sound, Switching
<1>4. \A d \in CPU \ {c} : on[c] # d
  BY <1>1, CPUAssumption, Zenon
<1>5. FrameOK(Top(c)) /\ H(c) = Below(stack[on[c]]) \cup Crit(Top(c)) /\ H(c) \subseteq Lock
  <2>1. FrameOK(Top(c)) /\ HeldIn(stack[on[c]]) \subseteq Lock
    BY <1>2, BelowIs, ZenonT(30)
  <2> QED
    BY <1>2, <2>1, Zenon DEF H, HeldIn
<1> QED
  BY <1>1, <1>2, <1>3, <1>4, <1>5, Zenon

\* A new stack t for the context x.
LEMMA PutStack ==
  ASSUME Types, Sound, NEW x \in Ctx, NEW t, StackOK(x, t), stack' = [stack EXCEPT ![x] = t],
         "filealloc" \notin machine.calls => Shut(t), machine' = machine
  PROVE  /\ stack' \in [Ctx -> Seq(FrameType)] /\ \A y \in Ctx : Len(stack'[y]) \in 1 .. 2
         /\ Stacks' /\ stack'[x] = t /\ \A y \in Ctx \ {x} : stack'[y] = stack[y]
<1>2. stack \in [Ctx -> Seq(FrameType)]
  BY Zenon DEF Types
<1>3. stack'[x] = t /\ \A y \in Ctx \ {x} : stack'[y] = stack[y]
  BY Zenon, <1>2
<1>4. stack' = [y \in Ctx |-> stack'[y]]
  BY Zenon, <1>2
<1>6. \A y \in Ctx : StackOK(y, stack'[y])
  BY <1>3, Zenon DEF Sound, Stacks
<1>7. "filealloc" \notin machine.calls => \A y \in Ctx : Shut(stack'[y])
  BY <1>3, Zenon DEF Sound, Stacks
<1>8. Stacks'
  BY <1>6, <1>7, Zenon DEF Stacks
<1>9. \A y \in Ctx : stack'[y] \in Seq(FrameType) /\ Len(stack'[y]) \in 1 .. 2
  BY <1>6, Zenon DEF StackOK
<1>10. stack' \in [Ctx -> Seq(FrameType)]
  BY Zenon, <1>4, <1>9
<1> QED
  BY <1>3, <1>8, <1>9, <1>10, Zenon

\* What a step that changes only the stack of CPU c leaves as it is.
Restacked(c, t) ==
  /\ stack' \in [Ctx -> Seq(FrameType)] /\ \A x \in Ctx : Len(stack'[x]) \in 1 .. 2
  /\ Stacks' /\ Switching'
  /\ Top(c)' = Inner(t) /\ Below(stack[on[c]])' = Below(t) /\ H(c)' = HeldIn(t)
  /\ \A d \in CPU \ {c} : /\ Top(d)' = Top(d) /\ H(d)' = H(d)
                          /\ Below(stack[on[d]])' = Below(stack[on[d]])

\* The stacks after a step of CPU c on its stack.
LEMMA Restack ==
  ASSUME Types, Sound, NEW c \in CPU, NEW t, StackOK(on[c], t), stack' = [stack EXCEPT ![on[c]] = t],
         "filealloc" \notin machine.calls => Shut(t), on' = on, saved' = saved, machine' = machine
  PROVE  Restacked(c, t)
<1> DEFINE x == on[c]
<1>1. x \in Ctx /\ \A d \in CPU \ {c} : on[d] # x /\ x # d
  BY OnCPU, Zenon
<1>3. /\ stack' \in [Ctx -> Seq(FrameType)] /\ \A y \in Ctx : Len(stack'[y]) \in 1 .. 2
      /\ Stacks' /\ stack'[x] = t /\ \A y \in Ctx \ {x} : stack'[y] = stack[y]
  BY <1>1, PutStack, Zenon
<1>11. Switching'
  <2>1. ASSUME NEW d \in CPU, on[d] # d PROVE Parked(stack'[d])
    <3>1. d \in Ctx /\ d # x
      BY <1>1, <2>1, Zenon DEF Ctx
    <3> QED
      BY <1>3, <2>1, <3>1, Zenon DEF Sound, Switching
  <2>2. ASSUME NEW u \in Thread, \A d \in CPU : on[d] # u PROVE Suspended(stack'[u], saved[u])
    <3>1. u \in Ctx /\ u # x
      BY <2>2, Zenon DEF Ctx
    <3> QED
      BY <1>3, <2>2, <3>1, Zenon DEF Sound, Switching
  <2>3. \A d, e \in CPU : on[d] = on[e] => d = e
    BY Zenon DEF Sound, Switching
  <2> QED
    BY <2>1, <2>2, <2>3, Zenon DEF Switching
<1>12. Top(c)' = Inner(t) /\ Below(stack[on[c]])' = Below(t) /\ H(c)' = HeldIn(t)
  BY <1>3, Zenon DEF Top, H, Inner
<1>13. ASSUME NEW d \in CPU \ {c}
       PROVE  Top(d)' = Top(d) /\ H(d)' = H(d) /\ Below(stack[on[d]])' = Below(stack[on[d]])
  <2>1. on[d] \in Ctx \ {x}
    BY <1>1, Zenon DEF Types
  <2>2. stack'[on'[d]] = stack[on[d]]
    BY <1>3, <2>1, Zenon
  <2> QED
    BY <2>2, Zenon DEF Top, H
<1> QED
  BY <1>3, <1>11, <1>12, <1>13, Zenon DEF Restacked

\* In particular when only the innermost frame changes.
Retopped(c, g) ==
  /\ stack' \in [Ctx -> Seq(FrameType)] /\ \A x \in Ctx : Len(stack'[x]) \in 1 .. 2
  /\ Stacks' /\ Switching'
  /\ Top(c)' = g /\ Below(stack[on[c]])' = Below(stack[on[c]])
  /\ H(c)' = Below(stack[on[c]]) \cup Crit(g)
  /\ \A d \in CPU \ {c} : /\ Top(d)' = Top(d) /\ H(d)' = H(d)
                          /\ Below(stack[on[d]])' = Below(stack[on[d]])

\* The stacks after the innermost frame of CPU c is replaced (SetTop).
LEMMA Retop ==
  ASSUME Types, Sound, NEW c \in CPU, NEW g, Proper(on[c], Len(stack[on[c]]), g), SetTop(c, g),
         "filealloc" \notin machine.calls => (Len(stack[on[c]]) = 1 /\ g.kind = "call" => g.code \in Seq(Quiet)),
         on' = on, saved' = saved, machine' = machine
  PROVE  Retopped(c, g)
<1> DEFINE x == on[c]
           s == stack[x]
           t == [s EXCEPT ![Len(s)] = g]
<1>1. x \in Ctx /\ StackOK(x, s)
  BY OnCPU, Zenon
<1>2. stack' = [stack EXCEPT ![x] = t]
  BY Zenon DEF SetTop
<1>3. /\ StackOK(x, t) /\ Inner(t) = g /\ Below(t) = Below(s) /\ HeldIn(t) = Below(s) \cup Crit(g)
      /\ Shut(s) /\ (Len(s) = 1 /\ g.kind = "call" => g.code \in Seq(Quiet)) => Shut(t)
  BY <1>1, Replace
<1> HIDE DEF t
<1>4. "filealloc" \notin machine.calls => Shut(t)
  BY <1>1, <1>3, Zenon DEF Sound, Stacks
<1>5. Restacked(c, t)
  BY <1>2, <1>3, <1>4, Restack, Zenon
<1> QED
  BY <1>3, <1>5, Zenon DEF Restacked, Retopped

\* The same for a step of the current instruction, or to the next one.
LEMMA RetopNext ==
  ASSUME Types, Sound, NEW c \in CPU, Top(c).code # << >>, NEW g, FrameOK(g), g.kind = Top(c).kind,
         g.code \in {Top(c).code, Tail(Top(c).code)}, SetTop(c, g),
         on' = on, saved' = saved, machine' = machine
  PROVE  Retopped(c, g)
<1>1. on[c] \in Ctx /\ StackOK(on[c], stack[on[c]]) /\ Inner(stack[on[c]]) = Top(c)
  BY OnCPU, Zenon
<1>2. /\ Proper(on[c], Len(stack[on[c]]), g)
      /\ Shut(stack[on[c]]) => (Len(stack[on[c]]) = 1 /\ g.kind = "call" => g.code \in Seq(Quiet))
  BY <1>1, NextProper, Zenon
<1>3. "filealloc" \notin machine.calls => Shut(stack[on[c]])
  BY <1>1, Zenon DEF Sound, Stacks
<1> QED
  BY <1>2, <1>3, Retop, Zenon

\* The step to the next instruction.
LEMMA AdvanceIs ==
  ASSUME Types, Sound, NEW c \in CPU, Top(c).code # << >>, Advance(c),
         on' = on, saved' = saved, machine' = machine
  PROVE  /\ Retopped(c, After(Top(c))) /\ FrameOK(After(Top(c)))
         /\ After(Top(c)).kind = Top(c).kind /\ After(Top(c)).code = Tail(Top(c).code)
         /\ After(Top(c)).at = "start" /\ Crit(After(Top(c))) = HoldAfter(Top(c).code, 1)
<1>1. FrameOK(Top(c))
  BY OnCPU, Zenon
<1>2. /\ FrameOK(After(Top(c))) /\ After(Top(c)).kind = Top(c).kind /\ After(Top(c)).code = Tail(Top(c).code)
      /\ After(Top(c)).at = "start" /\ Crit(After(Top(c))) = HoldAfter(Top(c).code, 1)
  BY <1>1, NextFrame, Zenon
<1>3. SetTop(c, After(Top(c)))
  BY Zenon DEF Advance
<1> QED
  BY <1>2, <1>3, RetopNext, Zenon

\* A step inside the current instruction.
LEMMA GotoStep ==
  ASSUME Types, Sound, NEW c \in CPU, Top(c).code # << >>, NEW a, Goto(c, a),
         a \in Doings(Head(Top(c).code).op), a # "cli",
         on' = on, saved' = saved, machine' = machine
  PROVE  \E g : /\ Retopped(c, g) /\ FrameOK(g) /\ g.kind = Top(c).kind /\ g.code = Top(c).code /\ g.at = a
<1> DEFINE g == [Top(c) EXCEPT !.at = a]
<1>1. FrameOK(Top(c))
  BY OnCPU, Zenon
<1>2. FrameOK(g) /\ g.kind = Top(c).kind /\ g.code = Top(c).code /\ g.at = a
  BY <1>1, GotoIs, Zenon
<1>3. SetTop(c, g)
  BY Zenon DEF Goto
<1> HIDE DEF g
<1>4. Retopped(c, g)
  BY <1>2, <1>3, RetopNext, Zenon
<1> QED
  BY <1>2, <1>4, Zenon

-----------------------------------------------------------------------------
(* The steps.                                                              *)

\* ncli is a number of locks.
LEMMA Sizes ==
  ASSUME NEW h, h \subseteq Lock
  PROVE  /\ IsFiniteSet(h) /\ Cardinality(h) \in Nat /\ (Cardinality(h) = 0 <=> h = {})
         /\ \A l : l \notin h => Cardinality(h \cup {l}) = Cardinality(h) + 1
         /\ \A l : l \in h => Cardinality(h \ {l}) = Cardinality(h) - 1
         /\ \A l : Cardinality({l}) = 1
<1>1. IsFiniteSet(Lock)
  <2>1. Lock = ((({} \cup {"ptable"}) \cup {"tickslock"}) \cup {"idelock"}) \cup {"ftable"}
    BY Zenon DEF Lock
  <2>2. IsFiniteSet({})
    BY FS_EmptySet, Zenon
  <2>3. \A S, e : IsFiniteSet(S) => IsFiniteSet(S \cup {e})
    BY FS_AddElement, Zenon
  <2>4. IsFiniteSet(((({} \cup {"ptable"}) \cup {"tickslock"}) \cup {"idelock"}) \cup {"ftable"})
    BY <2>2, <2>3, Zenon
  <2> QED
    BY <2>1, <2>4, Zenon
<1>2. IsFiniteSet(h)
  BY <1>1, FS_Subset, Zenon
<1>3. Cardinality(h) \in Nat /\ (Cardinality(h) = 0 <=> h = {})
  BY <1>2, FS_CardinalityType, FS_EmptySet, Zenon
<1>4. \A l : l \notin h => Cardinality(h \cup {l}) = Cardinality(h) + 1
  BY <1>2, FS_AddElement, Zenon
<1>5. \A l : l \in h => Cardinality(h \ {l}) = Cardinality(h) - 1
  BY <1>2, FS_RemoveElement, Zenon
<1>6. \A l : Cardinality({l}) = 1
  BY FS_Singleton, Zenon
<1> QED
  BY <1>2, <1>3, <1>4, <1>5, <1>6, ZenonT(30)

\* A step of CPU c that leaves the registers of the others alone.
Registers(c) == \A d \in CPU \ {c} : IF_'[d] = IF_[d] /\ ncli'[d] = ncli[d] /\ intena'[d] = intena[d]
Others(c) == \A d \in CPU \ {c} : /\ Top(d)' = Top(d) /\ H(d)' = H(d)
                                  /\ Below(stack[on[d]])' = Below(stack[on[d]])

\* After a step of CPU c only its own registers have to be looked at.
LEMMA Finish ==
  ASSUME Sound, NEW c \in CPU, Stacks', Switching', Locks', Flags(c)', Registers(c), Others(c)
  PROVE  Sound'
<1>1. ASSUME NEW d \in CPU \ {c} PROVE Flags(d)'
  <2>1. Flags(d)
    BY Zenon DEF Sound
  <2>2. /\ Top(d)' = Top(d) /\ H(d)' = H(d) /\ Below(stack[on[d]])' = Below(stack[on[d]])
        /\ IF_'[d] = IF_[d] /\ ncli'[d] = ncli[d] /\ intena'[d] = intena[d]
    BY Zenon DEF Registers, Others
  <2> QED
    BY <2>1, <2>2, Zenon DEF Flags
<1>2. \A d \in CPU : Flags(d)'
  BY <1>1, Zenon
<1> QED
  BY <1>2, Zenon DEF Sound

\* The locks and the pending lock after a step of CPU c.
LEMMA HoldsAfter ==
  ASSUME NEW c \in CPU, Others(c)
  PROVE  /\ Holds' = [Holds EXCEPT ![c] = H(c)'] /\ Pend' = [Pend EXCEPT ![c] = Pending(Top(c))']
         /\ Holds[c] = H(c) /\ Pend[c] = Pending(Top(c))
<1>1. ASSUME NEW d \in CPU \ {c} PROVE H(d)' = H(d) /\ Pending(Top(d))' = Pending(Top(d))
  BY Zenon DEF Others
<1>2. Holds' = [d \in CPU |-> H(d)'] /\ Pend' = [d \in CPU |-> Pending(Top(d))']
  BY Zenon DEF Holds, Pend
<1>3. Holds' = [Holds EXCEPT ![c] = H(c)']
  BY Zenon, <1>1, <1>2 DEF Holds
<1>4. Pend' = [Pend EXCEPT ![c] = Pending(Top(c))']
  BY Zenon, <1>1, <1>2 DEF Pend
<1> QED
  BY Zenon, <1>3, <1>4 DEF Holds, Pend

\* The locks while no word of a lock changes.
LEMMA KeepLocks ==
  ASSUME Sound, NEW c \in CPU, H(c)' = H(c), Pending(Top(c))' = Pending(Top(c)), Others(c),
         locked' = locked, lcpu' = lcpu
  PROVE  Locks'
<1>1. /\ Holds' = [Holds EXCEPT ![c] = H(c)'] /\ Pend' = [Pend EXCEPT ![c] = Pending(Top(c))']
      /\ Holds[c] = H(c) /\ Pend[c] = Pending(Top(c))
  BY HoldsAfter, Zenon
<1>2. Holds = [d \in CPU |-> Holds[d]] /\ Pend = [d \in CPU |-> Pend[d]]
  BY Zenon DEF Holds, Pend
<1>3. Holds' = Holds
  BY Zenon, <1>1, <1>2
<1>4. Pend' = Pend
  BY Zenon, <1>1, <1>2
<1> QED
  BY <1>3, <1>4, Zenon DEF Sound, Locks

\* The words of a lock in terms of who holds it.
LEMMA LockWords ==
  ASSUME Sound, NEW c \in CPU, NEW l \in Lock
  PROVE  /\ lcpu[l] = c => l \in H(c)
         /\ l \in H(c) => locked[l] = 1 /\ lcpu[l] = IF l \in Pending(Top(c)) THEN NoCPU ELSE c
<1>1. Holds[c] = H(c) /\ Pend[c] = Pending(Top(c))
  BY Zenon DEF Holds, Pend
<1>2. /\ lcpu[l] = c => l \in Holds[c]
      /\ locked[l] = 1 <=> \E d \in CPU : l \in Holds[d]
      /\ l \in Holds[c] => lcpu[l] = IF l \in Pend[c] THEN NoCPU ELSE c
  BY Zenon DEF Sound, Locks, LocksOK
<1> QED
  BY <1>1, <1>2, Zenon

\* xchg: a free lock gets its holder, whom lk->cpu does not name yet.
LEMMA LocksTake ==
  ASSUME NEW hold, NEW pend, NEW lw, NEW lc, LocksOK(hold, pend, lw, lc), NEW c \in CPU, NEW l \in Lock,
         DOMAIN hold = CPU, DOMAIN pend = CPU, lw \in [Lock -> 0 .. 1], lc \in [Lock -> CPU \cup {NoCPU}],
         lw[l] = 0, pend[c] = {}
  PROVE  LocksOK([hold EXCEPT ![c] = hold[c] \cup {l}], [pend EXCEPT ![c] = {l}], [lw EXCEPT ![l] = 1], lc)
<1> DEFINE h == [hold EXCEPT ![c] = hold[c] \cup {l}]
           p == [pend EXCEPT ![c] = {l}]
           w == [lw EXCEPT ![l] = 1]
<1>0. /\ \A a, b \in CPU, m \in Lock : m \in hold[a] /\ m \in hold[b] => a = b
      /\ \A m \in Lock : lw[m] = 1 <=> \E a \in CPU : m \in hold[a]
      /\ \A a \in CPU, m \in Lock : lc[m] = a => m \in hold[a]
      /\ \A a \in CPU, m \in Lock : m \in hold[a] => lc[m] = IF m \in pend[a] THEN NoCPU ELSE a
  BY Zenon DEF LocksOK
<1>1. lw[l] # 1
  OBVIOUS
<1>2. \A d \in CPU : l \notin hold[d]
  BY <1>0, <1>1, Zenon
<1>3. h[c] = hold[c] \cup {l} /\ p[c] = {l} /\ w[l] = 1
  BY Zenon
<1>4. /\ \A d \in CPU \ {c} : h[d] = hold[d] /\ p[d] = pend[d]
      /\ \A m \in Lock \ {l} : w[m] = lw[m]
  BY Zenon
<1>5. lc[l] = NoCPU
  BY ZenonT(30), <1>0, <1>2
<1> HIDE DEF h, p, w
<1>6. \A a, b \in CPU, m \in Lock : m \in h[a] /\ m \in h[b] => a = b
  BY SMTT(30), <1>0, <1>2, <1>3, <1>4, <1>5
<1>7. \A m \in Lock : w[m] = 1 <=> \E a \in CPU : m \in h[a]
  BY SMTT(30), <1>0, <1>2, <1>3, <1>4, <1>5
<1>8. \A a \in CPU, m \in Lock : lc[m] = a => m \in h[a]
  BY ZenonT(30), <1>0, <1>2, <1>3, <1>4, <1>5
<1>9. \A a \in CPU, m \in Lock : m \in h[a] => lc[m] = IF m \in p[a] THEN NoCPU ELSE a
  BY SMTT(30), <1>0, <1>2, <1>3, <1>4, <1>5
<1> QED
  BY <1>6, <1>7, <1>8, <1>9, ZenonT(30) DEF LocksOK, h, p, w

\* lk->cpu = mycpu(): the holder is named.
LEMMA LocksName ==
  ASSUME NEW hold, NEW pend, NEW lw, NEW lc, LocksOK(hold, pend, lw, lc), NEW c \in CPU, NEW l \in Lock,
         DOMAIN hold = CPU, DOMAIN pend = CPU, lw \in [Lock -> 0 .. 1], lc \in [Lock -> CPU \cup {NoCPU}],
         l \in hold[c], pend[c] = {l}
  PROVE  LocksOK(hold, [pend EXCEPT ![c] = {}], lw, [lc EXCEPT ![l] = c])
<1> DEFINE p == [pend EXCEPT ![c] = {}]
           n == [lc EXCEPT ![l] = c]
<1>0. /\ \A a, b \in CPU, m \in Lock : m \in hold[a] /\ m \in hold[b] => a = b
      /\ \A m \in Lock : lw[m] = 1 <=> \E a \in CPU : m \in hold[a]
      /\ \A a \in CPU, m \in Lock : lc[m] = a => m \in hold[a]
      /\ \A a \in CPU, m \in Lock : m \in hold[a] => lc[m] = IF m \in pend[a] THEN NoCPU ELSE a
  BY Zenon DEF LocksOK
<1>3. p[c] = {} /\ n[l] = c
  BY Zenon
<1>4. (\A d \in CPU \ {c} : p[d] = pend[d]) /\ \A m \in Lock \ {l} : n[m] = lc[m]
  BY Zenon
<1> HIDE DEF p, n
<1>6. \A a, b \in CPU, m \in Lock : m \in hold[a] /\ m \in hold[b] => a = b
  BY Zenon, <1>0, <1>3, <1>4
<1>7. \A m \in Lock : lw[m] = 1 <=> \E a \in CPU : m \in hold[a]
  BY ZenonT(30), <1>0, <1>3, <1>4
<1>8. \A a \in CPU, m \in Lock : n[m] = a => m \in hold[a]
  BY <1>0, <1>3, <1>4
<1>9. \A a \in CPU, m \in Lock : m \in hold[a] => n[m] = IF m \in p[a] THEN NoCPU ELSE a
  BY <1>0, <1>3, <1>4
<1> QED
  BY <1>6, <1>7, <1>8, <1>9, ZenonT(30) DEF LocksOK, p, n

\* lk->cpu = 0: release() takes the name away first.
LEMMA LocksUnname ==
  ASSUME NEW hold, NEW pend, NEW lw, NEW lc, LocksOK(hold, pend, lw, lc), NEW c \in CPU, NEW l \in Lock,
         DOMAIN hold = CPU, DOMAIN pend = CPU, lw \in [Lock -> 0 .. 1], lc \in [Lock -> CPU \cup {NoCPU}],
         l \in hold[c], pend[c] = {}
  PROVE  LocksOK(hold, [pend EXCEPT ![c] = {l}], lw, [lc EXCEPT ![l] = NoCPU])
<1> DEFINE p == [pend EXCEPT ![c] = {l}]
           n == [lc EXCEPT ![l] = NoCPU]
<1>0. /\ \A a, b \in CPU, m \in Lock : m \in hold[a] /\ m \in hold[b] => a = b
      /\ \A m \in Lock : lw[m] = 1 <=> \E a \in CPU : m \in hold[a]
      /\ \A a \in CPU, m \in Lock : lc[m] = a => m \in hold[a]
      /\ \A a \in CPU, m \in Lock : m \in hold[a] => lc[m] = IF m \in pend[a] THEN NoCPU ELSE a
  BY Zenon DEF LocksOK
<1>3. p[c] = {l} /\ n[l] = NoCPU
  BY Zenon
<1>4. (\A d \in CPU \ {c} : p[d] = pend[d]) /\ \A m \in Lock \ {l} : n[m] = lc[m]
  BY Zenon
<1> HIDE DEF p, n
<1>6. \A a, b \in CPU, m \in Lock : m \in hold[a] /\ m \in hold[b] => a = b
  BY ZenonT(30), <1>0, <1>3, <1>4, CPUAssumption
<1>7. \A m \in Lock : lw[m] = 1 <=> \E a \in CPU : m \in hold[a]
  BY ZenonT(30), <1>0, <1>3, <1>4, CPUAssumption
<1>8. \A a \in CPU, m \in Lock : n[m] = a => m \in hold[a]
  BY SMTT(30), <1>0, <1>3, <1>4, CPUAssumption
<1>9. \A a \in CPU, m \in Lock : m \in hold[a] => n[m] = IF m \in p[a] THEN NoCPU ELSE a
  BY SMTT(30), <1>0, <1>3, <1>4, CPUAssumption
<1> QED
  BY <1>6, <1>7, <1>8, <1>9, ZenonT(30) DEF LocksOK, p, n

\* The movl of release(): the lock is free, and lk->cpu names nobody.
LEMMA LocksDrop ==
  ASSUME NEW hold, NEW pend, NEW lw, NEW lc, LocksOK(hold, pend, lw, lc), NEW c \in CPU, NEW l \in Lock,
         DOMAIN hold = CPU, DOMAIN pend = CPU, lw \in [Lock -> 0 .. 1], lc \in [Lock -> CPU \cup {NoCPU}],
         l \in hold[c], pend[c] = {l}
  PROVE  LocksOK([hold EXCEPT ![c] = hold[c] \ {l}], [pend EXCEPT ![c] = {}], [lw EXCEPT ![l] = 0], lc)
<1> DEFINE h == [hold EXCEPT ![c] = hold[c] \ {l}]
           p == [pend EXCEPT ![c] = {}]
           w == [lw EXCEPT ![l] = 0]
<1>0. /\ \A a, b \in CPU, m \in Lock : m \in hold[a] /\ m \in hold[b] => a = b
      /\ \A m \in Lock : lw[m] = 1 <=> \E a \in CPU : m \in hold[a]
      /\ \A a \in CPU, m \in Lock : lc[m] = a => m \in hold[a]
      /\ \A a \in CPU, m \in Lock : m \in hold[a] => lc[m] = IF m \in pend[a] THEN NoCPU ELSE a
  BY Zenon DEF LocksOK
<1>2. lc[l] = NoCPU /\ \A d \in CPU \ {c} : l \notin hold[d]
  BY Zenon, <1>0
<1>3. h[c] = hold[c] \ {l} /\ p[c] = {} /\ w[l] = 0
  BY Zenon
<1>4. /\ \A d \in CPU \ {c} : h[d] = hold[d] /\ p[d] = pend[d]
      /\ \A m \in Lock \ {l} : w[m] = lw[m]
  BY Zenon
<1> HIDE DEF h, p, w
<1>6. \A a, b \in CPU, m \in Lock : m \in h[a] /\ m \in h[b] => a = b
  BY ZenonT(30), <1>0, <1>2, <1>3, <1>4, CPUAssumption
<1>7. \A m \in Lock : w[m] = 1 <=> \E a \in CPU : m \in h[a]
  BY SMTT(30), <1>0, <1>2, <1>3, <1>4, CPUAssumption
<1>8. \A a \in CPU, m \in Lock : lc[m] = a => m \in h[a]
  BY SMTT(30), <1>0, <1>2, <1>3, <1>4, CPUAssumption
<1>9. \A a \in CPU, m \in Lock : m \in h[a] => lc[m] = IF m \in p[a] THEN NoCPU ELSE a
  BY SMTT(30), <1>0, <1>2, <1>3, <1>4, CPUAssumption
<1> QED
  BY <1>6, <1>7, <1>8, <1>9, ZenonT(30) DEF LocksOK, h, p, w

\* What holds of a CPU in the middle of its code.
LEMMA Running ==
  ASSUME Types, Sound, NEW c \in CPU, Top(c).code # << >>
  PROVE  LET low == Below(stack[on[c]]) IN
         /\ FrameOK(Top(c)) /\ FlagsOK(Top(c), low, H(c), IF_[c], ncli[c], intena[c])
         /\ H(c) = low \cup Crit(Top(c)) /\ H(c) \subseteq Lock
         /\ IF_[c] \in 0 .. 1 /\ ncli[c] \in Nat /\ intena[c] \in 0 .. 1
         /\ Top(c).kind # "irq" => low = {}
         /\ Head(Top(c).code).op \in {"acquire", "release"} => lk(c) \in Lock /\ lk(c) \notin low
<1> DEFINE f == Top(c)
           low == Below(stack[on[c]])
<1>1. /\ StackOK(on[c], stack[on[c]]) /\ Inner(stack[on[c]]) = f
      /\ FrameOK(f) /\ H(c) = low \cup Crit(f) /\ H(c) \subseteq Lock
  BY OnCPU, Zenon
<1>2. low \subseteq {"ftable"} /\ (f.kind # "irq" => low = {})
  BY <1>1, BelowIs, ZenonT(30)
<1>3. FlagsOK(f, low, H(c), IF_[c], ncli[c], intena[c])
  BY Zenon DEF Sound, Flags
<1>4. IF_[c] \in 0 .. 1 /\ ncli[c] \in Nat /\ intena[c] \in 0 .. 1
  BY Zenon DEF Types
<1>5. ASSUME Head(f.code).op \in {"acquire", "release"} PROVE lk(c) \in Lock /\ lk(c) \notin low
  <2>1. Head(f.code).lk \in Lock
    BY <1>1, <1>5, CritLock, ZenonT(30)
  <2>2. f.kind = "irq" => Head(f.code).lk # "ftable"
    BY <1>1, <1>5, WhoRuns, ZenonT(30)
  <2> QED
    BY <1>2, <2>1, <2>2, ZenonT(30) DEF lk
<1> QED
  BY <1>1, <1>2, <1>3, <1>4, <1>5, ZenonT(30)

\* pushcli() reads eflags: a handler reads 0, a system call that takes its first
\* lock 1.
LEMMA ReadeflagsIInv ==
  ASSUME Types, Sound, NEW c \in CPU, readeflags(c), machine' = machine
  PROVE  Types' /\ panic' = "none" /\ Sound'
<1> DEFINE f == Top(c)
           low == Below(stack[on[c]])
           g == [f EXCEPT !.at = "cli", !.eflags = IF_[c]]
           C == HoldAfter(f.code, 1)
<1>1. /\ panic = "none" /\ f.code # << >> /\ Head(f.code).op = "acquire" /\ f.at = "start"
      /\ SetTop(c, g)
      /\ locked' = locked /\ lcpu' = lcpu /\ IF_' = IF_ /\ ncli' = ncli /\ intena' = intena
      /\ on' = on /\ saved' = saved /\ panic' = panic
  BY Zenon DEF readeflags, Doing
<1>2. /\ FrameOK(f) /\ FlagsOK(f, low, H(c), IF_[c], ncli[c], intena[c])
      /\ H(c) = low \cup Crit(f) /\ H(c) \subseteq Lock
      /\ IF_[c] \in 0 .. 1 /\ ncli[c] \in Nat /\ (f.kind # "irq" => low = {})
  BY <1>1, Running, Zenon
<1>3. g \in FrameType /\ g.kind = f.kind /\ g.code = f.code /\ g.at = "cli" /\ g.eflags = IF_[c]
  <2>1. f \in FrameType /\ "cli" \in At
    BY Zenon, <1>2 DEF FrameOK, At
  <2> QED
    BY Zenon, <1>2, <2>1 DEF FrameType
<1> HIDE DEF g
<1>4. Crit(f) = C \ {Head(f.code).lk}
  BY ZenonT(30), <1>1, <1>2, CritLock
<1>5. f.kind = "irq" => IF_[c] = 0
  BY <1>2, Zenon DEF FlagsOK
<1>6. f.kind = "call" /\ Crit(f) = {} => IF_[c] = 1
  <2>1. f.kind = "call" /\ Crit(f) = {} => H(c) = {}
    BY ZenonT(30), <1>2
  <2>2. H(c) = {} => ncli[c] = 0
    BY <1>1, <1>2, Sizes DEF FlagsOK, Extra
  <2> QED
    BY <1>2, <2>1, <2>2, ZenonT(30) DEF FlagsOK
<1>7. FrameOK(g) /\ Crit(g) = Crit(f)
  <2>1. "cli" \in Doings(Head(f.code).op)
    BY Zenon, <1>1 DEF Doings
  <2>2. \A l \in Lock : l \in Crit(g) <=> l \in Crit(f)
    <3>1. f \in FrameType /\ g.code # << >>
      BY <1>1, <1>2, <1>3, Zenon DEF FrameOK
    <3> QED
      BY ZenonT(30), <1>1, <1>3, <3>1, CritHead
  <2>3. Crit(g) = Crit(f)
    BY <2>2, Zenon DEF Crit
  <2>4. FrameOK(g)
    BY <1>1, <1>2, <1>3, <1>5, <1>6, <2>1, <2>3, ZenonT(30) DEF FrameOK
  <2> QED
    BY Zenon, <2>3, <2>4
<1>8. Retopped(c, g)
  BY <1>1, <1>3, <1>7, RetopNext, ZenonT(30)
<1>9. Top(c)' = g /\ H(c)' = H(c) /\ Below(stack[on[c]])' = low /\ Others(c) /\ Stacks' /\ Switching'
  BY <1>2, <1>7, <1>8, ZenonT(30) DEF Retopped, Others
<1>10. Pending(f) = {} /\ Pending(g) = {}
  BY Zenon, <1>1, <1>3 DEF Pending
<1>11. Locks'
  BY <1>1, <1>9, <1>10, KeepLocks, ZenonT(30)
<1>12. FlagsOK(g, low, H(c), IF_[c], ncli[c], intena[c])
  BY ZenonT(30), <1>1, <1>2, <1>3 DEF FlagsOK, Extra
<1>13. Flags(c)'
  BY <1>1, <1>9, <1>12, ZenonT(30) DEF Flags
<1>14. Sound'
  BY <1>1, <1>9, <1>11, <1>13, Finish, ZenonT(30) DEF Registers
<1>15. Types'
  BY <1>1, <1>8, ZenonT(30) DEF Types, Retopped
<1> QED
  BY ZenonT(30), <1>1, <1>14, <1>15

\* pushcli(): the lock to be taken is not held by this CPU, so the test for a
\* recursive acquire() passes.
LEMMA PushcliIInv ==
  ASSUME Types, Sound, NEW c \in CPU, pushcli(c), machine' = machine
  PROVE  Types' /\ panic' = "none" /\ Sound'
<1> DEFINE f == Top(c)
           low == Below(stack[on[c]])
           e2 == IF ncli[c] = 0 THEN f.eflags ELSE intena[c]
<1>1. /\ panic = "none" /\ f.code # << >> /\ Head(f.code).op = "acquire" /\ f.at = "cli"
      /\ panic' = IF holding(c, lk(c)) THEN "acquire" ELSE "none"
      /\ Goto(c, "xchg")
      /\ locked' = locked /\ lcpu' = lcpu /\ on' = on /\ saved' = saved
  BY Zenon DEF pushcli, Doing
<1>2. /\ FrameOK(f) /\ FlagsOK(f, low, H(c), IF_[c], ncli[c], intena[c])
      /\ H(c) = low \cup Crit(f) /\ H(c) \subseteq Lock
      /\ IF_[c] \in 0 .. 1 /\ ncli[c] \in Nat /\ intena[c] \in 0 .. 1 /\ (f.kind # "irq" => low = {})
      /\ lk(c) \in Lock /\ lk(c) \notin low
  BY <1>1, Running, Zenon
<1>3. /\ IF_' = [IF_ EXCEPT ![c] = 0] /\ ncli' = [ncli EXCEPT ![c] = ncli[c] + 1]
      /\ intena' = [intena EXCEPT ![c] = e2]
      /\ IF_ \in [CPU -> 0 .. 1] /\ ncli \in [CPU -> Nat] /\ intena \in [CPU -> 0 .. 1]
  BY ZenonT(30) DEF pushcli, Types
<1>4. e2 \in 0 .. 1 /\ f.kind # "user"
  <2>1. f.eflags \in 0 .. 1
    BY Zenon, <1>2 DEF FrameOK, FrameType
  <2> QED
    BY ZenonT(30), <1>1, <1>2, <2>1, WhoRuns
<1> HIDE DEF e2
<1>5. /\ IF_' \in [CPU -> 0 .. 1] /\ ncli' \in [CPU -> Nat] /\ intena' \in [CPU -> 0 .. 1]
      /\ IF_'[c] = 0 /\ ncli'[c] = ncli[c] + 1 /\ intena'[c] = e2
  BY <1>3, <1>4
<1>6. Registers(c)
  BY Zenon, <1>3 DEF Registers
<1>7. PICK g : /\ Retopped(c, g) /\ FrameOK(g) /\ g.kind = f.kind /\ g.code = f.code /\ g.at = "xchg"
  <2>1. "xchg" \in Doings(Head(f.code).op)
    BY Zenon, <1>1 DEF Doings
  <2> QED
    BY ZenonT(30), <1>1, <2>1, GotoStep
<1>8. Crit(g) = Crit(f) /\ lk(c) \notin Crit(f)
  <2>1. Crit(f) = HoldAfter(f.code, 1) \ {Head(f.code).lk}
    BY ZenonT(30), <1>1, <1>2, CritLock
  <2>2. Crit(g) = HoldAfter(f.code, 1) \ {Head(f.code).lk}
    BY ZenonT(30), <1>1, <1>7, CritLock
  <2> QED
    BY <2>1, <2>2, ZenonT(30) DEF lk
<1>9. Top(c)' = g /\ H(c)' = H(c) /\ Below(stack[on[c]])' = low /\ Others(c) /\ Stacks' /\ Switching'
  BY <1>2, <1>7, <1>8, ZenonT(30) DEF Retopped, Others
<1>10. Pending(f) = {} /\ Pending(g) = {}
  BY Zenon, <1>1, <1>7 DEF Pending
<1>11. Locks'
  BY <1>1, <1>9, <1>10, KeepLocks, ZenonT(30)
<1>12. FlagsOK(g, low, H(c), 0, ncli[c] + 1, e2)
  <2>1. ncli[c] = Cardinality(H(c)) /\ (ncli[c] = 0 => H(c) = {}) /\ Cardinality(H(c)) \in Nat
    <3>1. Extra(f) = 0
      BY ZenonT(30), <1>1 DEF Extra
    <3>2. ncli[c] = Cardinality(H(c)) + Extra(f)
      BY ZenonT(30), <1>2 DEF FlagsOK
    <3>3. Cardinality(H(c)) \in Nat /\ (Cardinality(H(c)) = 0 <=> H(c) = {})
      BY ZenonT(30), <1>2, Sizes
    <3> QED
      BY SMTT(30), <3>1, <3>2, <3>3
  <2>2. f.kind = "irq" /\ low = {} => e2 = 0
    <3>1. f.kind = "irq" => f.eflags = 0
      BY <1>1, <1>2, ZenonT(30) DEF FrameOK
    <3> QED
      BY SMTT(30), <1>2, <2>1, <3>1 DEF FlagsOK, e2
  <2>3. f.kind = "call" => e2 = 1
    <3>1. f.kind = "call" /\ ncli[c] = 0 => f.eflags = 1
      BY ZenonT(30), <1>1, <1>2, <2>1 DEF FrameOK
    <3> QED
      BY SMTT(30), <1>2, <2>1, <3>1 DEF FlagsOK, e2
  <2>4. low # {} => e2 = 1
    BY Zenon, <1>2, <2>1 DEF FlagsOK, e2
  <2>5. Extra(g) = 1
    BY Zenon, <1>7 DEF Extra
  <2>6. ncli[c] + 1 = Cardinality(H(c)) + Extra(g) /\ ncli[c] + 1 # 0
    BY <2>1, <2>5
  <2>7. g.at # "switched" /\ 0 # 1
    BY SMTT(30), <1>7
  <2> QED
    BY ZenonT(30), <1>4, <1>7, <2>2, <2>3, <2>4, <2>6, <2>7 DEF FlagsOK
<1>13. Flags(c)'
  BY <1>5, <1>9, <1>12, ZenonT(30) DEF Flags
<1>14. Sound'
  BY <1>6, <1>9, <1>11, <1>13, Finish, ZenonT(30)
<1>15. panic' = "none"
  <2>1. lcpu[lk(c)] # c
    <3>2. lcpu[lk(c)] = c => lk(c) \in H(c)
      BY <1>2, LockWords, ZenonT(30)
    <3> QED
      BY <1>2, <1>8, <3>2, ZenonT(30)
  <2> QED
    BY <1>1, <2>1, Zenon DEF holding
<1>16. Types'
  BY ZenonT(30), <1>1, <1>5, <1>7, <1>15 DEF Types, Retopped
<1> QED
  BY ZenonT(30), <1>14, <1>15, <1>16

\* The xchg that takes the lock: no CPU held it.
LEMMA XchgIInv ==
  ASSUME Types, Sound, NEW c \in CPU, xchg(c), machine' = machine
  PROVE  Types' /\ panic' = "none" /\ Sound'
<1> DEFINE f == Top(c)
           low == Below(stack[on[c]])
           l == lk(c)
<1>1. /\ panic = "none" /\ f.code # << >> /\ Head(f.code).op = "acquire" /\ f.at = "xchg"
      /\ locked[l] = 0 /\ locked' = [locked EXCEPT ![l] = 1] /\ Goto(c, "cpu")
      /\ lcpu' = lcpu /\ IF_' = IF_ /\ ncli' = ncli /\ intena' = intena
      /\ on' = on /\ saved' = saved /\ panic' = panic
  BY Zenon DEF xchg, Doing
<1>2. /\ FrameOK(f) /\ FlagsOK(f, low, H(c), IF_[c], ncli[c], intena[c])
      /\ H(c) = low \cup Crit(f) /\ H(c) \subseteq Lock
      /\ IF_[c] \in 0 .. 1 /\ ncli[c] \in Nat /\ l \in Lock /\ l \notin low
  BY <1>1, Running, Zenon
<1>3. PICK g : /\ Retopped(c, g) /\ FrameOK(g) /\ g.kind = f.kind /\ g.code = f.code /\ g.at = "cpu"
  <2>1. "cpu" \in Doings(Head(f.code).op)
    BY Zenon, <1>1 DEF Doings
  <2> QED
    BY ZenonT(30), <1>1, <2>1, GotoStep
<1>4. Crit(g) = Crit(f) \cup {l} /\ l \notin Crit(f) /\ Head(f.code).lk = l
  <2>1. Crit(f) = HoldAfter(f.code, 1) \ {l} /\ l \in HoldAfter(f.code, 1)
    BY ZenonT(30), <1>1, <1>2, CritLock DEF lk
  <2>2. Crit(g) = HoldAfter(f.code, 1)
    BY ZenonT(30), <1>1, <1>3, CritLock
  <2>3. Head(f.code).lk = l
    BY Zenon DEF lk
  <2> HIDE DEF l
  <2> QED
    BY ZenonT(30), <2>1, <2>2, <2>3
<1> HIDE DEF l
<1>5. H(c) \cup {l} = low \cup Crit(g) /\ l \notin H(c)
  BY Zenon, <1>2, <1>4
<1>6. /\ Top(c)' = g /\ H(c)' = H(c) \cup {l} /\ Below(stack[on[c]])' = low /\ Others(c)
      /\ Stacks' /\ Switching'
  BY <1>3, <1>5, ZenonT(30) DEF Retopped, Others
<1>7. Pending(f) = {} /\ Pending(g) = {l}
  BY ZenonT(30), <1>1, <1>3, <1>4 DEF Pending
<1>8. Locks'
  <2>1. /\ Holds' = [Holds EXCEPT ![c] = H(c) \cup {l}] /\ Pend' = [Pend EXCEPT ![c] = {l}]
        /\ Holds[c] = H(c) /\ Pend[c] = {}
    BY <1>6, <1>7, HoldsAfter, ZenonT(30)
  <2>2. LocksOK(Holds, Pend, locked, lcpu) /\ locked \in [Lock -> 0 .. 1] /\ lcpu \in [Lock -> CPU \cup {NoCPU}]
    BY Zenon DEF Sound, Locks, Types
  <2>3. DOMAIN Holds = CPU /\ DOMAIN Pend = CPU
    BY Zenon DEF Holds, Pend
  <2>6. LocksOK([Holds EXCEPT ![c] = Holds[c] \cup {l}], [Pend EXCEPT ![c] = {l}], [locked EXCEPT ![l] = 1], lcpu)
    BY <1>1, <1>2, <2>1, <2>2, <2>3, LocksTake, ZenonT(30)
  <2> QED
    BY ZenonT(30), <1>1, <2>1, <2>6 DEF Locks
<1>9. FlagsOK(g, low, H(c) \cup {l}, IF_[c], ncli[c], intena[c])
  <2>1. Cardinality(H(c) \cup {l}) = Cardinality(H(c)) + 1 /\ Cardinality(H(c)) \in Nat
    BY ZenonT(30), <1>2, <1>5, Sizes
  <2>2. Extra(g) = 0 /\ Extra(f) = 1
    BY ZenonT(30), <1>1, <1>3 DEF Extra
  <2>3. ncli[c] = Cardinality(H(c) \cup {l}) + Extra(g)
    <3>1. ncli[c] = Cardinality(H(c)) + Extra(f)
      BY ZenonT(30), <1>2 DEF FlagsOK
    <3> QED
      BY SMTT(30), <2>1, <2>2, <3>1
  <2>4. IF_[c] = 0 /\ 0 # 1
    <3>1. IF_[c] = 0
      BY ZenonT(30), <1>1, <1>2 DEF FlagsOK
    <3> QED
      BY SMTT(30), <3>1
  <2> QED
    BY ZenonT(30), <1>1, <1>2, <1>3, <2>3, <2>4 DEF FlagsOK
<1>10. Flags(c)'
  BY <1>1, <1>6, <1>9, ZenonT(30) DEF Flags
<1>11. Sound'
  BY <1>1, <1>6, <1>8, <1>10, Finish, ZenonT(30) DEF Registers
<1>12. locked' \in [Lock -> 0 .. 1]
  BY <1>1, <1>2 DEF Types
<1>13. Types'
  BY <1>1, <1>3, <1>12, ZenonT(30) DEF Types, Retopped
<1> QED
  BY ZenonT(30), <1>1, <1>11, <1>13

\* lk->cpu = mycpu(), the end of acquire().
LEMMA SetCpuIInv ==
  ASSUME Types, Sound, NEW c \in CPU, set_cpu(c), machine' = machine
  PROVE  Types' /\ panic' = "none" /\ Sound'
<1> DEFINE f == Top(c)
           low == Below(stack[on[c]])
           l == lk(c)
           g == After(Top(c))
<1>1. /\ panic = "none" /\ f.code # << >> /\ Head(f.code).op = "acquire" /\ f.at = "cpu"
      /\ lcpu' = [lcpu EXCEPT ![l] = c] /\ Advance(c)
      /\ locked' = locked /\ IF_' = IF_ /\ ncli' = ncli /\ intena' = intena
      /\ on' = on /\ saved' = saved /\ panic' = panic
  BY Zenon DEF set_cpu, Doing
<1>2. /\ FrameOK(f) /\ FlagsOK(f, low, H(c), IF_[c], ncli[c], intena[c])
      /\ H(c) = low \cup Crit(f) /\ H(c) \subseteq Lock
      /\ IF_[c] \in 0 .. 1 /\ ncli[c] \in Nat /\ l \in Lock
  BY <1>1, Running, ZenonT(30)
<1>3. Retopped(c, g) /\ g.kind = f.kind /\ g.at = "start" /\ Crit(g) = HoldAfter(f.code, 1)
  BY <1>1, AdvanceIs, Zenon
<1>4. Crit(f) = HoldAfter(f.code, 1) /\ l \in Crit(f) /\ Head(f.code).lk = l
  BY ZenonT(30), <1>1, <1>2, CritLock DEF lk
<1> HIDE DEF l, g
<1>5. /\ Top(c)' = g /\ H(c)' = H(c) /\ Below(stack[on[c]])' = low /\ Others(c)
      /\ Stacks' /\ Switching' /\ l \in H(c)
  BY <1>2, <1>3, <1>4, ZenonT(30) DEF Retopped, Others
<1>6. Pending(f) = {l} /\ Pending(g) = {}
  BY ZenonT(30), <1>1, <1>3, <1>4 DEF Pending
<1>7. Locks'
  <2>1. /\ Holds' = [Holds EXCEPT ![c] = H(c)] /\ Pend' = [Pend EXCEPT ![c] = {}]
        /\ Holds[c] = H(c) /\ Pend[c] = {l}
    BY <1>5, <1>6, HoldsAfter, ZenonT(30)
  <2>2. LocksOK(Holds, Pend, locked, lcpu) /\ locked \in [Lock -> 0 .. 1] /\ lcpu \in [Lock -> CPU \cup {NoCPU}]
    BY Zenon DEF Sound, Locks, Types
  <2>3. DOMAIN Holds = CPU /\ DOMAIN Pend = CPU /\ [Holds EXCEPT ![c] = Holds[c]] = Holds
    BY Zenon DEF Holds, Pend
  <2>4. LocksOK(Holds, [Pend EXCEPT ![c] = {}], locked, [lcpu EXCEPT ![l] = c])
    BY <1>2, <1>5, <2>1, <2>2, <2>3, LocksName, ZenonT(30)
  <2> QED
    BY <1>1, <2>1, <2>3, <2>4, ZenonT(30) DEF Locks
<1>8. FlagsOK(g, low, H(c), IF_[c], ncli[c], intena[c])
  BY ZenonT(30), <1>1, <1>2, <1>3 DEF FlagsOK, Extra
<1>9. Flags(c)'
  BY <1>1, <1>5, <1>8, ZenonT(30) DEF Flags
<1>10. Sound'
  BY <1>1, <1>5, <1>7, <1>9, Finish, ZenonT(30) DEF Registers
<1>11. lcpu' \in [Lock -> CPU \cup {NoCPU}]
  BY ZenonT(30), <1>1, <1>2 DEF Types
<1>12. Types'
  BY <1>1, <1>3, <1>11, ZenonT(30) DEF Types, Retopped
<1> QED
  BY ZenonT(30), <1>1, <1>10, <1>12

\* release(): the lock is held by this CPU, so holding() is true.
LEMMA ClearCpuIInv ==
  ASSUME Types, Sound, NEW c \in CPU, clear_cpu(c), machine' = machine
  PROVE  Types' /\ panic' = "none" /\ Sound'
<1> DEFINE f == Top(c)
           low == Below(stack[on[c]])
           l == lk(c)
<1>1. /\ panic = "none" /\ f.code # << >> /\ Head(f.code).op = "release" /\ f.at = "start"
      /\ panic' = IF holding(c, l) THEN "none" ELSE "release"
      /\ lcpu' = [lcpu EXCEPT ![l] = NoCPU] /\ Goto(c, "unlock")
      /\ locked' = locked /\ IF_' = IF_ /\ ncli' = ncli /\ intena' = intena
      /\ on' = on /\ saved' = saved
  BY Zenon DEF clear_cpu, Doing
<1>2. /\ FrameOK(f) /\ FlagsOK(f, low, H(c), IF_[c], ncli[c], intena[c])
      /\ H(c) = low \cup Crit(f) /\ H(c) \subseteq Lock
      /\ IF_[c] \in 0 .. 1 /\ ncli[c] \in Nat /\ l \in Lock
  BY <1>1, Running, ZenonT(30)
<1>3. PICK g : /\ Retopped(c, g) /\ FrameOK(g) /\ g.kind = f.kind /\ g.code = f.code /\ g.at = "unlock"
  <2>1. "unlock" \in Doings(Head(f.code).op)
    BY Zenon, <1>1 DEF Doings
  <2> QED
    BY ZenonT(30), <1>1, <2>1, GotoStep
<1>4. Crit(g) = Crit(f) /\ l \in Crit(f) /\ Head(f.code).lk = l
  <2>1. Crit(f) = HoldAfter(f.code, 1) \cup {l}
    BY ZenonT(30), <1>1, <1>2, CritLock DEF lk
  <2>2. Crit(g) = HoldAfter(f.code, 1) \cup {l}
    BY ZenonT(30), <1>1, <1>3, CritLock DEF lk
  <2> QED
    BY <2>1, <2>2, Zenon DEF lk
<1> HIDE DEF l
<1>5. /\ Top(c)' = g /\ H(c)' = H(c) /\ Below(stack[on[c]])' = low /\ Others(c)
      /\ Stacks' /\ Switching' /\ l \in H(c)
  BY <1>2, <1>3, <1>4, ZenonT(30) DEF Retopped, Others
<1>6. Pending(f) = {} /\ Pending(g) = {l}
  BY ZenonT(30), <1>1, <1>3, <1>4 DEF Pending
<1>7. Locks'
  <2>1. /\ Holds' = [Holds EXCEPT ![c] = H(c)] /\ Pend' = [Pend EXCEPT ![c] = {l}]
        /\ Holds[c] = H(c) /\ Pend[c] = {}
    BY <1>5, <1>6, HoldsAfter, ZenonT(30)
  <2>2. LocksOK(Holds, Pend, locked, lcpu) /\ locked \in [Lock -> 0 .. 1] /\ lcpu \in [Lock -> CPU \cup {NoCPU}]
    BY Zenon DEF Sound, Locks, Types
  <2>3. DOMAIN Holds = CPU /\ DOMAIN Pend = CPU /\ [Holds EXCEPT ![c] = Holds[c]] = Holds
    BY Zenon DEF Holds, Pend
  <2>4. LocksOK(Holds, [Pend EXCEPT ![c] = {l}], locked, [lcpu EXCEPT ![l] = NoCPU])
    BY <1>2, <1>5, <2>1, <2>2, <2>3, LocksUnname, ZenonT(30)
  <2> QED
    BY <1>1, <2>1, <2>3, <2>4, ZenonT(30) DEF Locks
<1>8. FlagsOK(g, low, H(c), IF_[c], ncli[c], intena[c])
  <2>1. IF_[c] = 0
    BY <1>1, <1>2, <1>5 DEF FlagsOK
  <2>2. Extra(f) = 0 /\ Extra(g) = 0
    BY Zenon, <1>1, <1>3 DEF Extra
  <2> QED
    BY ZenonT(30), <1>1, <1>2, <1>3, <2>1, <2>2 DEF FlagsOK
<1>9. Flags(c)'
  BY <1>1, <1>5, <1>8, ZenonT(30) DEF Flags
<1>10. Sound'
  BY <1>1, <1>5, <1>7, <1>9, Finish, ZenonT(30) DEF Registers
<1>11. lcpu' \in [Lock -> CPU \cup {NoCPU}]
  BY ZenonT(30), <1>1, <1>2 DEF Types
<1>12. panic' = "none"
  <2>1. locked[l] = 1 /\ lcpu[l] = c
    BY <1>2, <1>5, <1>6, LockWords, ZenonT(30)
  <2> QED
    BY <1>1, <2>1, Zenon DEF holding
<1>13. Types'
  BY ZenonT(30), <1>1, <1>3, <1>11, <1>12 DEF Types, Retopped
<1> QED
  BY Zenon, <1>10, <1>12, <1>13

\* The movl that clears lk->locked.
LEMMA UnlockIInv ==
  ASSUME Types, Sound, NEW c \in CPU, unlock(c), machine' = machine
  PROVE  Types' /\ panic' = "none" /\ Sound'
<1> DEFINE f == Top(c)
           low == Below(stack[on[c]])
           l == lk(c)
<1>1. /\ panic = "none" /\ f.code # << >> /\ Head(f.code).op = "release" /\ f.at = "unlock"
      /\ locked' = [locked EXCEPT ![l] = 0] /\ Goto(c, "popcli")
      /\ lcpu' = lcpu /\ IF_' = IF_ /\ ncli' = ncli /\ intena' = intena
      /\ on' = on /\ saved' = saved /\ panic' = panic
  BY Zenon DEF unlock, Doing
<1>2. /\ FrameOK(f) /\ FlagsOK(f, low, H(c), IF_[c], ncli[c], intena[c])
      /\ H(c) = low \cup Crit(f) /\ H(c) \subseteq Lock
      /\ IF_[c] \in 0 .. 1 /\ ncli[c] \in Nat /\ l \in Lock /\ l \notin low
  BY <1>1, Running, Zenon
<1>3. PICK g : /\ Retopped(c, g) /\ FrameOK(g) /\ g.kind = f.kind /\ g.code = f.code /\ g.at = "popcli"
  <2>1. "popcli" \in Doings(Head(f.code).op)
    BY ZenonT(30), <1>1 DEF Doings
  <2> QED
    BY ZenonT(30), <1>1, <2>1, GotoStep
<1>4. Crit(g) = Crit(f) \ {l} /\ l \in Crit(f) /\ Head(f.code).lk = l
  <2>1. Crit(f) = HoldAfter(f.code, 1) \cup {l} /\ l \notin HoldAfter(f.code, 1)
    BY ZenonT(30), <1>1, <1>2, CritLock DEF lk
  <2>2. Crit(g) = HoldAfter(f.code, 1)
    BY ZenonT(30), <1>1, <1>3, CritLock
  <2>3. Head(f.code).lk = l
    BY Zenon DEF lk
  <2> HIDE DEF l
  <2> QED
    BY ZenonT(30), <2>1, <2>2, <2>3
<1> HIDE DEF l
<1>5. H(c) \ {l} = low \cup Crit(g) /\ l \in H(c)
  BY ZenonT(30), <1>2, <1>4
<1>6. /\ Top(c)' = g /\ H(c)' = H(c) \ {l} /\ Below(stack[on[c]])' = low /\ Others(c)
      /\ Stacks' /\ Switching'
  BY <1>3, <1>5, ZenonT(30) DEF Retopped, Others
<1>7. Pending(f) = {l} /\ Pending(g) = {}
  BY ZenonT(30), <1>1, <1>3, <1>4 DEF Pending
<1>8. Locks'
  <2>1. /\ Holds' = [Holds EXCEPT ![c] = H(c) \ {l}] /\ Pend' = [Pend EXCEPT ![c] = {}]
        /\ Holds[c] = H(c) /\ Pend[c] = {l}
    BY <1>6, <1>7, HoldsAfter, ZenonT(30)
  <2>2. LocksOK(Holds, Pend, locked, lcpu) /\ locked \in [Lock -> 0 .. 1] /\ lcpu \in [Lock -> CPU \cup {NoCPU}]
    BY Zenon DEF Sound, Locks, Types
  <2>3. DOMAIN Holds = CPU /\ DOMAIN Pend = CPU
    BY Zenon DEF Holds, Pend
  <2>4. LocksOK([Holds EXCEPT ![c] = Holds[c] \ {l}], [Pend EXCEPT ![c] = {}], [locked EXCEPT ![l] = 0], lcpu)
    BY <1>2, <1>5, <2>1, <2>2, <2>3, LocksDrop, ZenonT(30)
  <2> QED
    BY ZenonT(30), <1>1, <2>1, <2>4 DEF Locks
<1>9. FlagsOK(g, low, H(c) \ {l}, IF_[c], ncli[c], intena[c])
  <2>1. Cardinality(H(c) \ {l}) = Cardinality(H(c)) - 1 /\ Cardinality(H(c)) \in Nat
    BY ZenonT(30), <1>2, <1>5, Sizes
  <2>2. Extra(g) = 1 /\ Extra(f) = 0
    BY ZenonT(30), <1>1, <1>3 DEF Extra
  <2>3. ncli[c] = Cardinality(H(c) \ {l}) + Extra(g)
    <3>1. ncli[c] = Cardinality(H(c)) + Extra(f)
      BY ZenonT(30), <1>2 DEF FlagsOK
    <3> QED
      BY SMTT(30), <2>1, <2>2, <3>1
  <2> QED
    BY ZenonT(30), <1>1, <1>2, <1>3, <2>3 DEF FlagsOK
<1>10. Flags(c)'
  BY <1>1, <1>6, <1>9, ZenonT(30) DEF Flags
<1>11. Sound'
  BY <1>1, <1>6, <1>8, <1>10, Finish, ZenonT(30) DEF Registers
<1>12. locked' \in [Lock -> 0 .. 1]
  BY <1>1, <1>2 DEF Types
<1>13. Types'
  BY <1>1, <1>3, <1>12, ZenonT(30) DEF Types, Retopped
<1> QED
  BY ZenonT(30), <1>1, <1>11, <1>13

\* popcli(): interrupts come back on with the last lock of a system call.
LEMMA PopcliIInv ==
  ASSUME Types, Sound, NEW c \in CPU, popcli(c), machine' = machine
  PROVE  Types' /\ panic' = "none" /\ Sound'
<1> DEFINE f == Top(c)
           low == Below(stack[on[c]])
           g == After(Top(c))
           i2 == IF ncli[c] = 1 /\ intena[c] = 1 THEN 1 ELSE IF_[c]
<1>1. /\ panic = "none" /\ f.code # << >> /\ Head(f.code).op = "release" /\ f.at = "popcli"
      /\ panic' = IF IF_[c] = 1 \/ ncli[c] < 1 THEN "popcli" ELSE "none"
      /\ Advance(c)
      /\ locked' = locked /\ lcpu' = lcpu /\ intena' = intena /\ on' = on /\ saved' = saved
  BY Zenon DEF popcli, Doing
<1>2. /\ FrameOK(f) /\ FlagsOK(f, low, H(c), IF_[c], ncli[c], intena[c])
      /\ H(c) = low \cup Crit(f) /\ H(c) \subseteq Lock
      /\ IF_[c] \in 0 .. 1 /\ ncli[c] \in Nat /\ intena[c] \in 0 .. 1
  BY <1>1, Running, Zenon
<1>3. /\ IF_' = [IF_ EXCEPT ![c] = i2] /\ ncli' = [ncli EXCEPT ![c] = ncli[c] - 1]
      /\ IF_ \in [CPU -> 0 .. 1] /\ ncli \in [CPU -> Nat]
  BY Zenon DEF popcli, Types
<1>4. Retopped(c, g) /\ g.kind = f.kind /\ g.at = "start" /\ Crit(g) = HoldAfter(f.code, 1)
  BY <1>1, AdvanceIs, Zenon
<1>5. Crit(f) = HoldAfter(f.code, 1)
  BY ZenonT(30), <1>1, <1>2, CritLock
<1>6. /\ ncli[c] = Cardinality(H(c)) + 1 /\ IF_[c] = 0 /\ Cardinality(H(c)) \in Nat
      /\ (Cardinality(H(c)) = 0 <=> H(c) = {})
  <2>1. Extra(f) = 1
    BY Zenon, <1>1 DEF Extra
  <2> QED
    BY ZenonT(30), <1>1, <1>2, <2>1, Sizes DEF FlagsOK
<1>7. i2 \in 0 .. 1 /\ ncli[c] - 1 \in Nat /\ f.kind # "user"
  <2>1. ncli[c] - 1 \in Nat
    BY SMTT(30), <1>6
  <2>2. i2 \in 0 .. 1
    BY ZenonT(30), <1>2
  <2>3. f.kind # "user"
    BY <1>1, <1>2, WhoRuns, ZenonT(30)
  <2> QED
    BY <2>1, <2>2, <2>3, Zenon
<1>8. (i2 = 1 => H(c) = {} /\ intena[c] = 1) /\ (intena[c] = 1 /\ H(c) = {} => i2 = 1)
  BY <1>2, <1>6
<1> HIDE DEF g, i2
<1>9. /\ IF_' \in [CPU -> 0 .. 1] /\ ncli' \in [CPU -> Nat] /\ IF_'[c] = i2 /\ ncli'[c] = ncli[c] - 1
  BY Zenon, <1>3, <1>7
<1>10. Registers(c)
  BY Zenon, <1>1, <1>3 DEF Registers
<1>11. Top(c)' = g /\ H(c)' = H(c) /\ Below(stack[on[c]])' = low /\ Others(c) /\ Stacks' /\ Switching'
  BY <1>2, <1>4, <1>5, ZenonT(30) DEF Retopped, Others
<1>12. Pending(f) = {} /\ Pending(g) = {}
  BY ZenonT(30), <1>1, <1>4 DEF Pending
<1>13. Locks'
  BY <1>1, <1>11, <1>12, KeepLocks, ZenonT(30)
<1>14. FlagsOK(g, low, H(c), i2, ncli[c] - 1, intena[c])
  <2>1. Extra(g) = 0
    BY Zenon, <1>4 DEF Extra
  <2>2. ncli[c] - 1 = Cardinality(H(c)) + Extra(g) /\ ncli[c] > 0
    BY SMTT(30), <1>6, <2>1
  <2>3. f.kind = "irq" => i2 = 0
    <3>1. H(c) = {} => low = {}
      BY Zenon, <1>2
    <3> QED
      <4>1. f.kind = "irq" /\ low = {} => intena[c] = 0
        BY ZenonT(30), <1>2, <2>2 DEF FlagsOK
      <4> QED
        BY SMTT(30), <1>7, <1>8, <3>1, <4>1
  <2>4. f.kind = "call" => intena[c] = 1
    BY <1>2, <2>2, ZenonT(30) DEF FlagsOK
  <2>5. f.kind = "irq" /\ low = {} => intena[c] = 0
    BY <1>2, <2>2, Zenon DEF FlagsOK
  <2>6. low # {} => intena[c] = 1
    BY <1>2, Zenon DEF FlagsOK
  <2>7. ncli[c] - 1 = 0 => H(c) = {}
    BY <1>6
  <2> QED
    BY ZenonT(30), <1>4, <1>7, <1>8, <2>2, <2>3, <2>4, <2>5, <2>6, <2>7 DEF FlagsOK
<1>15. Flags(c)'
  BY <1>1, <1>9, <1>11, <1>14, ZenonT(30) DEF Flags
<1>16. Sound'
  BY <1>10, <1>11, <1>13, <1>15, Finish, ZenonT(30)
<1>17. panic' = "none"
  BY SMTT(30), <1>1, <1>6
<1>18. Types'
  BY ZenonT(30), <1>1, <1>4, <1>9, <1>17 DEF Types, Retopped
<1> QED
  BY Zenon, <1>16, <1>17, <1>18
=============================================================================
