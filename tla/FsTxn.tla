------------------------------- MODULE FsTxn -------------------------------
(***************************************************************************)
(* What log.c promises to the file system above it (the comment at         *)
(* log.c:9-15): system calls update blocks in memory between begin_op()    *)
(* and end_op(), and the disk moves in one step from one state in which no *)
(* system call is half done to the next.  A power failure falls back to    *)
(* the last such state.                                                    *)
(***************************************************************************)
CONSTANTS Proc,    \* the processes that make file-system calls
          Block,   \* the home blocks of the file system
          Val      \* the contents a block can have

VARIABLES stable,  \* what a reboot would find on the disk
          mem,     \* what the running kernel reads
          active   \* the processes between begin_op() and end_op()

vars == <<stable, mem, active>>

Init == /\ stable \in [Block -> Val]
        /\ mem = stable
        /\ active = {}

Begin(p) == /\ p \notin active
            /\ active' = active \cup {p}
            /\ UNCHANGED <<stable, mem>>

Write(p) == /\ p \in active
            /\ \E b \in Block, v \in Val : mem' = [mem EXCEPT ![b] = v]
            /\ UNCHANGED <<stable, active>>

End(p) == /\ p \in active
          /\ active' = active \ {p}
          /\ UNCHANGED <<stable, mem>>

Commit == /\ active = {}
          /\ stable' = mem
          /\ UNCHANGED <<mem, active>>

Crash == /\ mem' = stable
         /\ active' = {}
         /\ UNCHANGED stable

Next == \/ \E p \in Proc : Begin(p) \/ Write(p) \/ End(p)
        \/ Commit
        \/ Crash

Spec == Init /\ [][Next]_vars
=============================================================================
