------------------------------- MODULE Ftable -------------------------------
(***************************************************************************)
(* The open-file table (file.c), the descriptors that point into it        *)
(* (sysfile.c, fork() and exit() in proc.c) and what an open file keeps    *)
(* alive: the page of a pipe, or a reference to an inode.                  *)
(*                                                                         *)
(* A step is a critical section of ftable.lock together with the code      *)
(* around it that touches only the process's own memory.  fileclose() does *)
(* its last part, on the copy ff, after it has released the lock.          *)
(***************************************************************************)
EXTENDS Naturals, FiniteSets

CONSTANTS File,      \* ftable.file, NFILE of them
          NOFILE,    \* descriptors of a process (param.h:5)
          PipePage,  \* memory that pipealloc() may get from kalloc()
          NoFile,    \* a null pointer
          NFileProc  \* NPROC

\* The table and the numbers of descriptors and of processes are finite; a
\* null pointer points to neither a file nor a page.
ASSUME FileAssumption ==
  /\ IsFiniteSet(File) /\ NOFILE \in Nat /\ NFileProc \in Nat \ {0}
  /\ NoFile \notin File /\ NoFile \notin PipePage

FileProc == 1 .. NFileProc   \* 1 exists at the start

VARIABLES
  fref, ftype,      \* f->ref and f->type: "none", "r" or "w" (the two kinds of
                    \* FD_PIPE, by f->writable) or "inode"
  fpage,            \* f->pipe
  readopen, writeopen,   \* pages whose pipe has that end open
  pipefree,        \* kalloc()'s
  irefs,            \* references to inodes that open files or calls have
  ofile,            \* p->ofile
  alive,            \* processes
  fpc,              \* where each process is
  f0, f1,           \* its local variables: files, ...
  ff,               \* ... fileclose()'s copy, ...
  fchild, nfd        \* ... and fork()'s child and loop index

ftableVars == <<fref, ftype, fpage, readopen, writeopen, pipefree, irefs, ofile,
                alive, fpc, f0, f1, ff, fchild, nfd>>
pipes == <<readopen, writeopen, pipefree>>
locals == <<f0, f1, fchild, nfd>>

FD == 0 .. NOFILE - 1
NoFF == [type |-> "none", page |-> NoFile]

FtableInit ==
  /\ fref = [f \in File |-> 0]
  /\ ftype = [f \in File |-> "none"] /\ fpage = [f \in File |-> NoFile]
  /\ readopen = {} /\ writeopen = {} /\ pipefree = PipePage
  /\ irefs = 0
  /\ ofile = [p \in FileProc |-> [d \in FD |-> NoFile]]
  /\ alive = {1}
  /\ fpc = [p \in FileProc |-> "user"]
  /\ f0 = [p \in FileProc |-> NoFile] /\ f1 = [p \in FileProc |-> NoFile]
  /\ ff = [p \in FileProc |-> NoFF]
  /\ fchild = [p \in FileProc |-> 0] /\ nfd = [p \in FileProc |-> 0]

\* The process runs, and no fileclose() of its is half done.
In(p, at) == p \in alive /\ fpc[p] = at /\ ff[p] = NoFF
Go(p, to) == fpc' = [fpc EXCEPT ![p] = to]

FreeFD(p) == {d \in FD : ofile[p][d] = NoFile}
\* fdalloc(): the lowest free descriptor.
fdalloc(p) == CHOOSE d \in FreeFD(p) : \A e \in FreeFD(p) : d <= e

-----------------------------------------------------------------------------
\* filealloc(): f is an unused entry, NoFile when there is none.
filealloc(f) == IF \E g \in File : fref[g] = 0
                THEN f \in File /\ fref[f] = 0
                ELSE f = NoFile
TakeFile(f) == fref' = IF f = NoFile THEN fref ELSE [fref EXCEPT ![f] = 1]

\* fileclose() under the lock: the last reference empties the entry and leaves
\* its contents in ff for fileclose_last().
\* Mutant: the test for the last reference is off by one.
fileclose_Early(p, f) ==
  /\ fref' = [fref EXCEPT ![f] = @ - 1]
  /\ IF fref[f] > 2 THEN UNCHANGED <<ff, ftype>>
     ELSE /\ ff' = [ff EXCEPT ![p] = [type |-> ftype[f], page |-> fpage[f]]]
          /\ ftype' = [ftype EXCEPT ![f] = "none"]
fileclose(p, f) ==
  /\ fref' = [fref EXCEPT ![f] = @ - 1]
  /\ IF fref[f] > 1 THEN UNCHANGED <<ff, ftype>>
     ELSE /\ ff' = [ff EXCEPT ![p] = [type |-> ftype[f], page |-> fpage[f]]]
          /\ ftype' = [ftype EXCEPT ![f] = "none"]

\* pipeclose(): the second end to close frees the page.
close_end(page, end) ==
  /\ readopen' = IF end = "r" THEN readopen \ {page} ELSE readopen
  /\ writeopen' = IF end = "w" THEN writeopen \ {page} ELSE writeopen
  /\ pipefree' = IF page \in readopen' \cup writeopen' THEN pipefree
                  ELSE pipefree \cup {page}

\* fileclose() after release(): pipeclose() or iput().
fileclose_last(p) ==
  /\ ff[p] # NoFF
  /\ \/ ff[p].type \in {"r", "w"} /\ close_end(ff[p].page, ff[p].type) /\ UNCHANGED irefs
     \/ ff[p].type = "inode" /\ irefs' = irefs - 1 /\ UNCHANGED pipes
     \/ ff[p].type = "none" /\ UNCHANGED <<pipes, irefs>>
  /\ ff' = [ff EXCEPT ![p] = NoFF]
  /\ UNCHANGED <<fref, ftype, fpage, ofile, alive, fpc, locals>>

-----------------------------------------------------------------------------
\* sys_pipe() and pipealloc(): two files, a page, then two descriptors.
pipe_f0(p) ==
  /\ In(p, "user")
  /\ \E f \in File \cup {NoFile} :
       /\ filealloc(f) /\ TakeFile(f)
       /\ f0' = [f0 EXCEPT ![p] = f]
       /\ Go(p, IF f = NoFile THEN "user" ELSE "pipe_f1")
  /\ UNCHANGED <<ftype, fpage, pipes, irefs, ofile, alive, f1, ff, fchild, nfd>>

pipe_f1(p) ==
  /\ In(p, "pipe_f1")
  /\ \E f \in File \cup {NoFile} :
       /\ filealloc(f) /\ TakeFile(f)
       /\ f1' = [f1 EXCEPT ![p] = f]
       /\ Go(p, IF f = NoFile THEN "bad" ELSE "pipe_kalloc")
  /\ UNCHANGED <<ftype, fpage, pipes, irefs, ofile, alive, f0, ff, fchild, nfd>>

pipe_kalloc(p) ==
  /\ In(p, "pipe_kalloc")
  /\ IF pipefree = {} THEN Go(p, "bad") /\ UNCHANGED <<ftype, fpage, pipes>>
     ELSE \E page \in pipefree :
            /\ pipefree' = pipefree \ {page}
            /\ readopen' = readopen \cup {page} /\ writeopen' = writeopen \cup {page}
            /\ ftype' = [ftype EXCEPT ![f0[p]] = "r", ![f1[p]] = "w"]
            /\ fpage' = [fpage EXCEPT ![f0[p]] = page, ![f1[p]] = page]
            /\ Go(p, "pipe_fd")
  /\ UNCHANGED <<fref, irefs, ofile, alive, ff, locals>>

\* With fewer than two free descriptors both files are closed again.
pipe_fd(p) ==
  /\ In(p, "pipe_fd")
  /\ IF Cardinality(FreeFD(p)) >= 2
     THEN LET d == fdalloc(p)
              e == CHOOSE x \in FreeFD(p) \ {d} : \A y \in FreeFD(p) \ {d} : x <= y
          IN /\ ofile' = [ofile EXCEPT ![p][d] = f0[p], ![p][e] = f1[p]]
             /\ f0' = [f0 EXCEPT ![p] = NoFile] /\ f1' = [f1 EXCEPT ![p] = NoFile]
             /\ Go(p, "user")
     ELSE Go(p, "bad") /\ UNCHANGED <<ofile, f0, f1>>
  /\ UNCHANGED <<fref, ftype, fpage, pipes, irefs, alive, ff, fchild, nfd>>

\* The error paths: fileclose() of each file that was allocated.
pipe_bad(p) ==
  /\ In(p, "bad")
  /\ \/ /\ f0[p] # NoFile /\ fileclose(p, f0[p])
        /\ f0' = [f0 EXCEPT ![p] = NoFile] /\ UNCHANGED <<f1, fpc>>
     \/ /\ f0[p] = NoFile /\ f1[p] # NoFile /\ fileclose(p, f1[p])
        /\ f1' = [f1 EXCEPT ![p] = NoFile] /\ UNCHANGED <<f0, fpc>>
     \/ /\ f0[p] = NoFile /\ f1[p] = NoFile
        /\ Go(p, "user") /\ UNCHANGED <<fref, ftype, ff, f0, f1>>
  /\ UNCHANGED <<fpage, pipes, irefs, ofile, alive, fchild, nfd>>

-----------------------------------------------------------------------------
\* sys_open(): namei() or create() has returned a reference to an inode.
open_filealloc(p) ==
  /\ In(p, "user")
  /\ \E f \in File \cup {NoFile} :
       /\ filealloc(f) /\ TakeFile(f)
       /\ f0' = [f0 EXCEPT ![p] = f]
       /\ IF f = NoFile THEN UNCHANGED <<irefs, fpc>>      \* iunlockput(ip)
          ELSE irefs' = irefs + 1 /\ Go(p, "open_fd")
  /\ UNCHANGED <<ftype, fpage, pipes, ofile, alive, f1, ff, fchild, nfd>>

open_fd(p) ==
  /\ In(p, "open_fd")
  /\ f0' = [f0 EXCEPT ![p] = NoFile] /\ Go(p, "user")
  /\ IF FreeFD(p) = {} THEN fileclose(p, f0[p]) /\ irefs' = irefs - 1 /\ UNCHANGED ofile
     ELSE /\ ofile' = [ofile EXCEPT ![p][fdalloc(p)] = f0[p]]
          /\ ftype' = [ftype EXCEPT ![f0[p]] = "inode"]
          /\ UNCHANGED <<fref, irefs, ff>>
  /\ UNCHANGED <<fpage, pipes, alive, f1, fchild, nfd>>

\* sys_dup(): fdalloc() and filedup().
sys_dup(p) ==
  /\ In(p, "user") /\ FreeFD(p) # {}
  /\ \E d \in FD \ FreeFD(p) :
       /\ ofile' = [ofile EXCEPT ![p][fdalloc(p)] = ofile[p][d]]
       /\ fref' = [fref EXCEPT ![ofile[p][d]] = @ + 1]
  /\ UNCHANGED <<ftype, fpage, pipes, irefs, alive, fpc, locals, ff>>

sys_close(p) ==
  /\ In(p, "user")
  /\ \E d \in FD \ FreeFD(p) :
       /\ ofile' = [ofile EXCEPT ![p][d] = NoFile]
       /\ fileclose(p, ofile[p][d])
  /\ UNCHANGED <<fpage, pipes, irefs, alive, fpc, locals>>

\* sys_read() and sys_write(): the call works on f while others run.
sys_rw(p) ==
  /\ In(p, "user")
  /\ \E d \in FD \ FreeFD(p) : f0' = [f0 EXCEPT ![p] = ofile[p][d]]
  /\ Go(p, "rw")
  /\ UNCHANGED <<fref, ftype, fpage, pipes, irefs, ofile, alive, f1, ff, fchild, nfd>>

rw_return(p) ==
  /\ In(p, "rw")
  /\ f0' = [f0 EXCEPT ![p] = NoFile] /\ Go(p, "user")
  /\ UNCHANGED <<fref, ftype, fpage, pipes, irefs, ofile, alive, f1, ff, fchild, nfd>>

-----------------------------------------------------------------------------
\* fork() copies the descriptors one by one.
fork(p) ==
  /\ In(p, "user")
  /\ \E np \in FileProc \ (alive \cup {fchild[q] : q \in FileProc}) : fchild' = [fchild EXCEPT ![p] = np]
  /\ nfd' = [nfd EXCEPT ![p] = 0] /\ Go(p, "fork")
  /\ UNCHANGED <<fref, ftype, fpage, pipes, irefs, ofile, alive, f0, f1, ff>>

fork_filedup(p) ==
  /\ In(p, "fork") /\ nfd[p] < NOFILE
  /\ LET f == ofile[p][nfd[p]] IN
     /\ fref' = IF f = NoFile THEN fref ELSE [fref EXCEPT ![f] = @ + 1]
     /\ ofile' = [ofile EXCEPT ![fchild[p]][nfd[p]] = f]
  /\ nfd' = [nfd EXCEPT ![p] = @ + 1]
  /\ UNCHANGED <<ftype, fpage, pipes, irefs, alive, fpc, f0, f1, ff, fchild>>

fork_return(p) ==
  /\ In(p, "fork") /\ nfd[p] = NOFILE
  /\ alive' = alive \cup {fchild[p]}
  /\ fchild' = [fchild EXCEPT ![p] = 0] /\ nfd' = [nfd EXCEPT ![p] = 0]
  /\ Go(p, "user")
  /\ UNCHANGED <<fref, ftype, fpage, pipes, irefs, ofile, f0, f1, ff>>

\* exit() closes every descriptor, also when kill() ends the process.  It
\* clears the descriptor after fileclose() has returned; nobody else looks.
exit_call(p) ==
  /\ In(p, "user") /\ p # 1
  /\ Go(p, "exit")
  /\ UNCHANGED <<fref, ftype, fpage, pipes, irefs, ofile, alive, locals, ff>>

exit_close(p) ==
  /\ In(p, "exit")
  /\ LET open == FD \ FreeFD(p)
         d == CHOOSE x \in open : \A y \in open : x <= y
     IN IF open = {}
        THEN /\ alive' = alive \ {p} /\ Go(p, "user")
             /\ UNCHANGED <<fref, ftype, ff, ofile>>
        ELSE /\ fileclose(p, ofile[p][d])
             /\ ofile' = [ofile EXCEPT ![p][d] = NoFile]
             /\ UNCHANGED <<alive, fpc>>
  /\ UNCHANGED <<fpage, pipes, irefs, locals>>

FtableNext == \E p \in FileProc :
  \/ fileclose_last(p)
  \/ pipe_f0(p) \/ pipe_f1(p) \/ pipe_kalloc(p) \/ pipe_fd(p) \/ pipe_bad(p)
  \/ open_filealloc(p) \/ open_fd(p)
  \/ sys_dup(p) \/ sys_close(p) \/ sys_rw(p) \/ rw_return(p)
  \/ fork(p) \/ fork_filedup(p) \/ fork_return(p) \/ exit_call(p) \/ exit_close(p)

FtableSpec == FtableInit /\ [][FtableNext]_ftableVars

-----------------------------------------------------------------------------
\* Pointers to f that count: descriptors, and files a call has just allocated.
FileRefs(f) == Cardinality({x \in FileProc \X FD : ofile[x[1]][x[2]] = f})
               + Cardinality({p \in FileProc : f0[p] = f /\ fpc[p] # "rw"})
               + Cardinality({p \in FileProc : f1[p] = f})

FtableTypeOK ==
  /\ fref \in [File -> 0 .. NFileProc * (NOFILE + 2)]
  /\ \A f \in File : ftype[f] \in {"none", "r", "w", "inode"} /\ fpage[f] \in PipePage \cup {NoFile}
  /\ readopen \cup writeopen \cup pipefree \subseteq PipePage /\ irefs \in Nat
  /\ \A p \in FileProc : /\ \A d \in FD : ofile[p][d] \in File \cup {NoFile}
                         /\ {f0[p], f1[p]} \subseteq File \cup {NoFile}
                         /\ fchild[p] \in FileProc \cup {0} /\ nfd[p] \in 0 .. NOFILE

\* f->ref is the number of pointers to f at every step, also half way through
\* fork(), exit() and the error paths of pipe() and open(): no entry leaks and
\* none is reused while somebody still points to it.
RefsCounted == \A f \in File : fref[f] = FileRefs(f)

EndUsed(page, end) == \/ \E f \in File : fref[f] > 0 /\ ftype[f] = end /\ fpage[f] = page
                      \/ \E p \in FileProc : ff[p] = [type |-> end, page |-> page]

\* A pipe's end is open exactly while a file, or a fileclose() that has not
\* finished, refers to it, and its page is freed exactly when both are closed:
\* a reader gets its end of file, and nobody uses a freed page.  A descriptor
\* never names a file that fileclose() has emptied.
EndsMatchFiles ==
  /\ \A page \in PipePage : /\ page \in readopen <=> EndUsed(page, "r")
                            /\ page \in writeopen <=> EndUsed(page, "w")
                            /\ page \in pipefree <=> page \notin readopen \cup writeopen
  /\ \A p \in FileProc, d \in FD : ofile[p][d] # NoFile => ftype[ofile[p][d]] # "none"

\* The inode references the table holds are those of its open inode files and
\* of calls that are opening or closing one.
InodeRefs ==
  irefs = Cardinality({f \in File : fref[f] > 0 /\ ftype[f] = "inode"})
          + Cardinality({p \in FileProc : ff[p].type = "inode"})
          + Cardinality({p \in FileProc : fpc[p] = "open_fd"})

\* The counts of the file table are those of the descriptors, and what a file
\* keeps alive lives as long as the file.
FilesCounted == FtableTypeOK /\ RefsCounted /\ EndsMatchFiles /\ InodeRefs
=============================================================================
