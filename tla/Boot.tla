-------------------------------- MODULE Boot ---------------------------------
(***************************************************************************)
(* How the processors come up (main.c, entryother.S, lapicstartap of       *)
(* lapic.c) and when the page allocator starts to take its lock            *)
(* (kalloc.c).  The boot processor is BSP; the others wait for a STARTUP.  *)
(* A page below 4 megabytes is the only kind entrypgdir maps.              *)
(***************************************************************************)
EXTENDS Integers, Sequences, FiniteSets

CONSTANTS NCpu,            \* cpus[1 .. NCpu]; the first is the boot processor
          NLow, NHigh      \* pages below and above 4 megabytes

BSP == 1
Cpus == 1 .. NCpu
LowPage == 1 .. NLow
HighPage == NLow + 1 .. NLow + NHigh

VARIABLES cpu,        \* what each processor is doing
          next,       \* the processor or the page the boot loop is at
          code4,      \* the word at code-4
          bstack,     \* %esp of each processor; the boot processor has its own
          started, freepages, use_lock, memlock,
          head        \* r of kalloc() in each processor
bootVars == <<cpu, next, code4, bstack, started, freepages, use_lock, memlock, head>>

BootInit ==
  /\ cpu = [c \in Cpus |-> IF c = BSP THEN "kinit1" ELSE "halted"] /\ next = 1 /\ code4 = 0
  /\ bstack = [c \in Cpus |-> 0] /\ started = {} /\ freepages = <<>>
  /\ use_lock = FALSE /\ memlock = 0 /\ head = [c \in Cpus |-> 0]

Goto(c, l) == cpu' = [cpu EXCEPT ![c] = l]

\* kalloc(): the head of the list is read, then removed; with use_lock both
\* under kmem.lock.  Memory does not run out here (Vm has that case).
kalloc_head(c, l) ==
  /\ freepages # <<>> /\ (use_lock => memlock = 0)
  /\ memlock' = (IF use_lock THEN c ELSE memlock)
  /\ head' = [head EXCEPT ![c] = Head(freepages)] /\ Goto(c, l)
kalloc_pop(c, l) ==
  /\ freepages' = Tail(freepages) /\ Goto(c, l)
  /\ memlock' = (IF memlock = c THEN 0 ELSE memlock)

\* kinit1(): freerange() of the low pages, without the lock.
kinit1 ==
  /\ cpu[BSP] = "kinit1" /\ Goto(BSP, "startothers")
  /\ freepages' = [i \in LowPage |-> NLow + 1 - i]
  /\ UNCHANGED <<next, code4, bstack, started, use_lock, memlock, head>>

\* startothers(): the loop over cpus[].
startothers ==
  /\ cpu[BSP] = "startothers"
  /\ \/ next = BSP /\ next' = next + 1 /\ UNCHANGED <<cpu, head, memlock>>
     \/ next \in Cpus \ {BSP} /\ kalloc_head(BSP, "stack") /\ UNCHANGED next
     \/ next > NCpu /\ Goto(BSP, "kinit2") /\ next' = NLow + 1 /\ UNCHANGED <<head, memlock>>
  /\ UNCHANGED <<code4, bstack, started, freepages, use_lock>>

startothers_stack ==
  /\ cpu[BSP] = "stack" /\ kalloc_pop(BSP, "send") /\ code4' = head[BSP]
  /\ UNCHANGED <<next, bstack, started, use_lock, head>>

\* lapicstartap(): INIT, then two STARTUPs, of which one is taken.
lapicstartap ==
  /\ cpu[BSP] = "send"
  /\ cpu' = [cpu EXCEPT ![BSP] = "wait", ![next] = IF @ = "halted" THEN "entry" ELSE @]
  /\ UNCHANGED <<next, code4, bstack, started, freepages, use_lock, memlock, head>>

\* Mutant: the next processor is started without waiting for this one.
startothers_wait_Not ==
  /\ cpu[BSP] = "wait" /\ Goto(BSP, "startothers") /\ next' = next + 1
  /\ UNCHANGED <<code4, bstack, started, freepages, use_lock, memlock, head>>

startothers_wait ==
  /\ cpu[BSP] = "wait" /\ next \in started /\ Goto(BSP, "startothers") /\ next' = next + 1
  /\ UNCHANGED <<code4, bstack, started, freepages, use_lock, memlock, head>>

\* entryother.S: the stack is read from code-4, on entrypgdir.
entryother(c) ==
  /\ cpu[c] = "entry" /\ Goto(c, "mpenter") /\ bstack' = [bstack EXCEPT ![c] = code4]
  /\ UNCHANGED <<next, code4, started, freepages, use_lock, memlock, head>>

\* mpenter(): switchkvm(); then mpmain() tells startothers().
mpenter(c) ==
  /\ cpu[c] = "mpenter" /\ Goto(c, "mpmain")
  /\ UNCHANGED <<next, code4, bstack, started, freepages, use_lock, memlock, head>>

mpmain(c) ==
  /\ cpu[c] = "mpmain" /\ Goto(c, "scheduler") /\ started' = started \union {c}
  /\ UNCHANGED <<next, code4, bstack, freepages, use_lock, memlock, head>>

\* kinit2(): the high pages one at a time, then the lock.
kinit2 ==
  /\ cpu[BSP] = "kinit2"
  /\ IF next \in HighPage THEN /\ freepages' = <<next>> \o freepages /\ next' = next + 1
                               /\ UNCHANGED <<cpu, use_lock>>
     ELSE Goto(BSP, "userinit") /\ use_lock' = TRUE /\ UNCHANGED <<freepages, next>>
  /\ UNCHANGED <<code4, bstack, started, memlock, head>>

\* userinit(): pages for the first process (one stands for all of them),
\* which is then runnable: next is 0 from here on.
userinit ==
  /\ cpu[BSP] = "userinit" /\ kalloc_head(BSP, "runnable")
  /\ UNCHANGED <<next, code4, bstack, started, freepages, use_lock>>
userinit_runnable ==
  /\ cpu[BSP] = "runnable" /\ kalloc_pop(BSP, "mpmain") /\ next' = 0
  /\ UNCHANGED <<code4, bstack, started, use_lock, head>>

\* A process run by a scheduler allocates a page.
process_head(c) ==
  /\ cpu[c] = "scheduler" /\ next = 0 /\ kalloc_head(c, "alloc")
  /\ UNCHANGED <<next, code4, bstack, started, freepages, use_lock>>
process_pop(c) ==
  /\ cpu[c] = "alloc" /\ kalloc_pop(c, "scheduler")
  /\ UNCHANGED <<next, code4, bstack, started, use_lock, head>>

CpuStep(c) == \/ entryother(c) \/ mpenter(c) \/ mpmain(c) \/ process_head(c) \/ process_pop(c)
BspStep == \/ kinit1 \/ startothers \/ startothers_stack \/ lapicstartap \/ startothers_wait
           \/ kinit2 \/ userinit \/ userinit_runnable
BootNext == BspStep \/ \E c \in Cpus : CpuStep(c)

------------------------------------------------------------------------------
\* A processor that has left entryother.S has a stack of its own, which was
\* mapped when it was still on entrypgdir: the word at code-4 is not replaced
\* before it is read, and kinit2() comes after startothers().
OwnMappedStack ==
  \A c \in Cpus \ {BSP} : bstack[c] # 0 =>
    bstack[c] \in LowPage /\ \A d \in Cpus : d # c => bstack[d] # bstack[c]

\* Two processors are never between kalloc()'s read of the list and its
\* update: no lock is taken before kinit2(), and none is needed.
KallocAlone == Cardinality({c \in Cpus : cpu[c] \in {"stack", "runnable", "alloc"}}) <= 1

\* Once the boot processor gets to startothers(), every processor reaches its
\* scheduler.
AllCpusStart == cpu[BSP] = "startothers" ~> started = Cpus

\* All processors start, each on a stack of its own, and no two are in
\* kalloc() before it takes its lock.
BootSound == [](OwnMappedStack /\ KallocAlone) /\ AllCpusStart
==============================================================================
