-------------------------------- MODULE MCFs --------------------------------
(***************************************************************************)
(* The file system and what is built like it, each component on a small    *)
(* instance of its own.  They share no state in these models, so a         *)
(* behaviour runs one of them, the part chosen at the start: the states of *)
(* this module are the sum of theirs, not the product.  The same model     *)
(* values serve as the processes, files or blocks of several parts, which  *)
(* keeps the symmetry group small.                                         *)
(***************************************************************************)
EXTENDS Bcache, Pipe, Ftable, MCInode, Content

CONSTANTS m1, m2, m3
VARIABLE part

\* One reader and two writers; two readers of which one can also write.
FsEnds == {[r |-> {a}, w |-> PipeProc \ {a}] : a \in PipeProc}
          \cup {[r |-> {a, b}, w |-> {b}] : a, b \in PipeProc}
AllEnds == [r |-> PipeProc, w |-> PipeProc]
FsEndsOrAll == FsEnds \cup {AllEnds}

FsSymmetry == Permutations({m1, m2, m3}) \cup Permutations(Proc)

FsInit ==
  /\ part \in {"bcache", "pipe", "ftable", "inode", "content"}
  /\ BcacheInit /\ PipeInit /\ FtableInit /\ InodeInit /\ ContentInit
  /\ part # "bcache" => pinned = Min(Pinned) /\ \A k \in Block : disk[k] = Min(Val)
  /\ (part = "pipe") = ([r |-> readfd, w |-> writefd] # AllEnds)

\* A step of one part leaves the others alone.
FsNext ==
  /\ UNCHANGED part
  /\ \/ part = "bcache" /\ BcacheNext /\ UNCHANGED <<pipeVars, ftableVars, ivars, cvars>>
     \/ part = "pipe" /\ PipeNext /\ UNCHANGED <<bcacheVars, ftableVars, ivars, cvars>>
     \/ part = "ftable" /\ FtableNext /\ UNCHANGED <<bcacheVars, pipeVars, ivars, cvars>>
     \/ part = "inode" /\ InodeNext /\ UNCHANGED <<bcacheVars, pipeVars, ftableVars, cvars>>
     \/ part = "content" /\ ContentNext /\ UNCHANGED <<bcacheVars, pipeVars, ftableVars, ivars>>

FsVars == <<part, bcacheVars, pipeVars, ftableVars, ivars, cvars>>
FsSpec == FsInit /\ [][FsNext]_FsVars

=============================================================================
