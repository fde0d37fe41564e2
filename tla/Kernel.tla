------------------------------- MODULE Kernel -------------------------------
(* The processes that run kernel code, for the components that need no more *)
(* of a process than its name.                                              *)
CONSTANTS Proc,    \* processes, all alike
          Nobody   \* no process
=============================================================================
