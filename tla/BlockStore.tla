----------------------------- MODULE BlockStore -----------------------------
(***************************************************************************)
(* What the buffer cache promises (bio.c:1-16): every disk block has one   *)
(* value, and only the process that has the block changes it.              *)
(***************************************************************************)
CONSTANTS Proc, Block, Val

VARIABLES val,     \* the value of each block
          users    \* the processes that have it: at most one

Init == /\ val \in [Block -> Val]
        /\ users = [k \in Block |-> {}]

Bread(p, k) == /\ users[k] = {} /\ users' = [users EXCEPT ![k] = {p}]
               /\ UNCHANGED val

Write(p, k) == /\ users[k] = {p} /\ \E v \in Val : val' = [val EXCEPT ![k] = v]
               /\ UNCHANGED users

Brelse(p, k) == /\ users[k] = {p} /\ users' = [users EXCEPT ![k] = {}]
                /\ UNCHANGED val

Next == \E p \in Proc, k \in Block : Bread(p, k) \/ Write(p, k) \/ Brelse(p, k)

vars == <<val, users>>

Spec == Init /\ [][Next]_vars
=============================================================================
