--------------------------------- MODULE Vm ---------------------------------
(***************************************************************************)
(* User memory: the page allocator (kalloc.c), page tables (vm.c), and     *)
(* the calls that build, copy and drop address spaces: fork, exec, exit    *)
(* and wait, sbrk, which only moves the break, and the page fault that     *)
(* gives a page on first touch (trap.c).                                   *)
(*                                                                         *)
(* Addresses are page numbers below KERNBASE.  A page table is private to  *)
(* its process, so a step is one page, with its kalloc() and mappages();   *)
(* processes meet at the free list only.  The kernel half of an address    *)
(* space costs one frame here.  The order of the free list is left out.    *)
(***************************************************************************)
EXTENDS Integers, FiniteSets, FiniteSetsExt

CONSTANTS NFrame,    \* physical pages
          NPage,     \* user pages: KERNBASE / PGSIZE
          NPTE,      \* entries of a page table page
          NVmProc    \* NPROC

VmProc == 1 .. NVmProc
InitProc == 1        \* the process that runs first
Frame == 1 .. NFrame
Page == 0 .. NPage - 1
Tab == 0 .. (NPage - 1) \div NPTE

VARIABLES freelist,  \* kmem.freelist
          vm,        \* memory of each process
          vpanic,
          lost       \* frames the kernel holds no pointer to

vmVars == <<freelist, vm, vpanic, lost>>

\* An address space; guard: pages with PTE_U cleared.
NoSpace == [dir |-> 0, kern |-> 0, tab |-> [t \in Tab |-> 0], pte |-> [g \in Page |-> 0],
            guard |-> {}]

\* space is p->pgdir; build is the one under construction, by exec for itself
\* or by fork for the child; next is the page it has come to, want its end.
NoVm == [st |-> "unused", kstack |-> 0, space |-> NoSpace, sz |-> 0,
         build |-> NoSpace, next |-> 0, want |-> 0, child |-> 0]

Owned(s) == (({s.dir, s.kern} \union {s.tab[t] : t \in Tab}) \union {s.pte[g] : g \in Page}) \ {0}

\* kalloc() in a memory m = [free, ok, at]: fails when no frame is free.
kalloc(m) == IF m.free = {} THEN [m EXCEPT !.ok = FALSE, !.at = 0]
             ELSE [free |-> m.free \ {Min(m.free)}, ok |-> m.ok, at |-> Min(m.free)]

\* setupkvm(): a directory and the kernel part, or nothing.
setupkvm(free) ==
  LET d == kalloc([free |-> free, ok |-> TRUE, at |-> 0])
      k == kalloc(d) IN
  IF k.ok THEN [free |-> k.free, ok |-> TRUE, s |-> [NoSpace EXCEPT !.dir = d.at, !.kern = k.at]]
  ELSE [free |-> free, ok |-> FALSE, s |-> NoSpace]

\* mappages() of the frame f at page g: it may need a page table page.
mappages(s, g, f, free) ==
  LET t == g \div NPTE
      m == kalloc([free |-> free, ok |-> TRUE, at |-> 0]) IN
  IF s.tab[t] # 0 THEN [s |-> [s EXCEPT !.pte[g] = f], free |-> free, ok |-> TRUE]
  ELSE [s |-> IF m.ok THEN [s EXCEPT !.tab[t] = m.at, !.pte[g] = f] ELSE s,
        free |-> m.free, ok |-> m.ok]

\* kalloc(), then mappages(): got is the frame when only the second one failed.
AddPage(s, g, free) ==
  LET m == kalloc([free |-> free, ok |-> TRUE, at |-> 0])
      r == mappages(s, g, m.at, m.free) IN
  IF ~m.ok THEN [s |-> s, free |-> free, ok |-> FALSE, got |-> 0]
  ELSE [s |-> r.s, free |-> r.free, ok |-> r.ok, got |-> IF r.ok THEN 0 ELSE m.at]

freevm(s) == Owned(s)

VmInit ==
  LET k == setupkvm(Frame)
      m == kalloc([free |-> k.free, ok |-> TRUE, at |-> 0])
      u == AddPage(k.s, 0, m.free) IN
  /\ freelist = u.free /\ vpanic = "none" /\ lost = {}
  /\ vm = [p \in VmProc |-> IF p # InitProc THEN NoVm
             ELSE [NoVm EXCEPT !.st = "run", !.kstack = m.at, !.space = u.s, !.sz = 1]]

Running(p, st) == vpanic = "none" /\ vm[p].st = st

\* sys_sbrk(): the break moves, no page does.
sys_sbrk(p) ==
  /\ Running(p, "run")
  /\ \E n \in {-1, 1} : /\ vm[p].sz + n \in 0 .. NPage
                        /\ vm' = [vm EXCEPT ![p].sz = @ + n]
  /\ UNCHANGED <<freelist, vpanic, lost>>

\* T_PGFLT at any user page: out of memory, the process faults again; a page
\* that is there (the guard page) is mapped again, and mappages() panics.
page_fault(p) ==
  /\ Running(p, "run")
  /\ \E g \in Page :
       LET s == vm[p].space
           r == AddPage(s, g, freelist) IN
       \/ /\ s.pte[g] = 0
          /\ vm' = [vm EXCEPT ![p].space = r.s]
          /\ freelist' = r.free \union ({r.got} \ {0})
          /\ UNCHANGED vpanic
       \/ /\ g \in s.guard /\ freelist # {} /\ vpanic' = "remap"
          /\ UNCHANGED <<freelist, vm>>
  /\ UNCHANGED lost

------------------------------------------------------------------------------
\* fork(): allocproc() and setupkvm().
vm_fork(p) ==
  /\ Running(p, "run")
  /\ \E c \in VmProc :
       LET m == kalloc([free |-> freelist, ok |-> TRUE, at |-> 0])
           k == setupkvm(m.free) IN
       /\ vm[c].st = "unused" /\ m.ok /\ k.ok
       /\ vm' = [vm EXCEPT ![p].st = "fork", ![p].child = c, ![p].build = k.s,
                           ![c].st = "embryo", ![c].kstack = m.at]
       /\ freelist' = k.free
  /\ UNCHANGED <<vpanic, lost>>

\* Mutant: the flags of the page are not copied.
copyuvm_NoFlags(p) ==
  LET v == vm[p]
      c == v.child
      r == AddPage(v.build, v.next, freelist) IN
  /\ Running(p, "fork") /\ v.next < v.sz
  /\ \/ /\ v.space.pte[v.next] = 0
        /\ vpanic' = "copyuvm" /\ UNCHANGED <<freelist, vm, lost>>
     \/ /\ v.space.pte[v.next] # 0 /\ r.ok
        /\ vm' = [vm EXCEPT ![p].build = r.s,
                            ![p].next = @ + 1]
        /\ freelist' = r.free /\ UNCHANGED <<vpanic, lost>>
     \/ /\ v.space.pte[v.next] # 0 /\ ~r.ok
        /\ freelist' = (r.free \union freevm(r.s)) \union {vm[c].kstack}
        /\ lost' = lost \union ({r.got} \ {0})
        /\ vm' = [vm EXCEPT ![p] = [v EXCEPT !.st = "run", !.build = NoSpace, !.next = 0, !.child = 0],
                            ![c] = NoVm]
        /\ UNCHANGED vpanic

\* copyuvm(): one page.  A frame that mappages() could not map is not freed.
copyuvm(p) ==
  LET v == vm[p]
      c == v.child
      r == AddPage(v.build, v.next, freelist) IN
  /\ Running(p, "fork") /\ v.next < v.sz
  /\ \/ /\ v.space.pte[v.next] = 0
        /\ vpanic' = "copyuvm" /\ UNCHANGED <<freelist, vm, lost>>
     \/ /\ v.space.pte[v.next] # 0 /\ r.ok
        /\ vm' = [vm EXCEPT ![p].build = [r.s EXCEPT !.guard = v.space.guard \intersect 0 .. v.next],
                            ![p].next = @ + 1]
        /\ freelist' = r.free /\ UNCHANGED <<vpanic, lost>>
     \/ /\ v.space.pte[v.next] # 0 /\ ~r.ok
        /\ freelist' = (r.free \union freevm(r.s)) \union {vm[c].kstack}
        /\ lost' = lost \union ({r.got} \ {0})
        /\ vm' = [vm EXCEPT ![p] = [v EXCEPT !.st = "run", !.build = NoSpace, !.next = 0, !.child = 0],
                            ![c] = NoVm]
        /\ UNCHANGED vpanic

\* The child becomes RUNNABLE.
vm_fork_return(p) ==
  LET v == vm[p] IN
  /\ Running(p, "fork") /\ v.next >= v.sz
  /\ vm' = [vm EXCEPT ![p] = [v EXCEPT !.st = "run", !.build = NoSpace, !.next = 0, !.child = 0],
                      ![v.child] = [@ EXCEPT !.st = "run", !.space = v.build, !.sz = v.sz]]
  /\ UNCHANGED <<freelist, vpanic, lost>>

------------------------------------------------------------------------------
\* exec() of a program of n pages, with a guard page and a stack page.
vm_exec(p) ==
  LET k == setupkvm(freelist) IN
  /\ Running(p, "run") /\ k.ok
  /\ \E n \in 1 .. NPage - 2 :
       vm' = [vm EXCEPT ![p].st = "exec", ![p].build = k.s, ![p].want = n + 2]
  /\ freelist' = k.free
  /\ UNCHANGED <<vpanic, lost>>

\* allocuvm(): one page; when memory runs out, deallocuvm() and freevm().
allocuvm(p) ==
  LET v == vm[p]
      r == AddPage(v.build, v.next, freelist) IN
  /\ Running(p, "exec") /\ v.next < v.want
  /\ IF r.ok
     THEN /\ vm' = [vm EXCEPT ![p].build = r.s, ![p].next = @ + 1]
          /\ freelist' = r.free
     ELSE /\ vm' = [vm EXCEPT ![p] = [v EXCEPT !.st = "run", !.build = NoSpace, !.next = 0, !.want = 0]]
          /\ freelist' = (r.free \union freevm(r.s)) \union ({r.got} \ {0})
  /\ UNCHANGED <<vpanic, lost>>

\* Any later error: a bad program header, a short read, arguments too long.
exec_bad(p) ==
  LET v == vm[p] IN
  /\ Running(p, "exec")
  /\ vm' = [vm EXCEPT ![p] = [v EXCEPT !.st = "run", !.build = NoSpace, !.next = 0, !.want = 0]]
  /\ freelist' = freelist \union freevm(v.build)
  /\ UNCHANGED <<vpanic, lost>>

\* "Commit to the user image"; the old one is freed.
exec_commit(p) ==
  LET v == vm[p] IN
  /\ Running(p, "exec") /\ v.next = v.want
  /\ freelist' = freelist \union freevm(v.space)
  /\ vm' = [vm EXCEPT ![p] = [v EXCEPT !.st = "run", !.build = NoSpace, !.next = 0, !.want = 0,
              !.sz = v.want, !.space = [v.build EXCEPT !.guard = {v.want - 2}]]]
  /\ UNCHANGED <<vpanic, lost>>

\* exit(), then the parent's wait().
vm_exit(p) ==
  /\ Running(p, "run") /\ p # InitProc
  /\ vm' = [vm EXCEPT ![p].st = "zombie"]
  /\ UNCHANGED <<freelist, vpanic, lost>>

vm_wait(p) ==
  /\ Running(p, "zombie")
  /\ freelist' = (freelist \union {vm[p].kstack}) \union freevm(vm[p].space)
  /\ vm' = [vm EXCEPT ![p] = NoVm]
  /\ UNCHANGED <<vpanic, lost>>

VmNext == \E p \in VmProc :
  \/ sys_sbrk(p) \/ page_fault(p) \/ vm_fork(p) \/ copyuvm(p) \/ vm_fork_return(p)
  \/ vm_exec(p) \/ allocuvm(p) \/ exec_bad(p) \/ exec_commit(p) \/ vm_exit(p) \/ vm_wait(p)

------------------------------------------------------------------------------
\* The frames of p, with the address space it is building.
VmHeld(p) == (Owned(vm[p].space) \union Owned(vm[p].build)) \union ({vm[p].kstack} \ {0})

VmTypeOK == /\ freelist \subseteq Frame /\ lost \subseteq Frame
            /\ \A p \in VmProc : vm[p].sz \in 0 .. NPage /\ VmHeld(p) \subseteq Frame

\* A frame is in one place: no two processes share a page or a page table, no
\* frame is both free and in use, and no space maps a frame twice.
FramesOf(s, f) == Cardinality({g \in Page : s.pte[g] = f}) + Cardinality({t \in Tab : s.tab[t] = f})
                  + Cardinality({x \in {"dir", "kern"} : s[x] = f})
FrameInOnePlace ==
  \A f \in Frame :
    LET owners == {p \in VmProc : f \in VmHeld(p)} IN
    /\ Cardinality(owners) <= 1 /\ (owners # {} => f \notin freelist \union lost)
    /\ \A p \in owners : FramesOf(vm[p].space, f) + FramesOf(vm[p].build, f)
                         + (IF vm[p].kstack = f THEN 1 ELSE 0) = 1

\* Every frame is free or in use whatever call failed half way, save the one
\* copyuvm() drops when mappages() fails.
FramesAccounted == Frame = (freelist \union lost) \union UNION {VmHeld(p) : p \in VmProc}

\* As far as copyuvm() has come, the child has a page for each one below the
\* parent's sz, and the parent's guard page is the child's.
ForkCopiesAll ==
  \A p \in VmProc : vm[p].st = "fork" =>
    \A g \in 0 .. vm[p].next - 1 : /\ vm[p].build.pte[g] # 0
                                   /\ (g \in vm[p].build.guard) = (g \in vm[p].space.guard)

\* Physical memory under fork, exec, exit and page faults that may fail.
FramesSound == VmTypeOK /\ FrameInOnePlace /\ FramesAccounted /\ ForkCopiesAll
==============================================================================
