---------------------------- MODULE FtableProofs ----------------------------
(***************************************************************************)
(* The ends of pipes, the references to inodes and the whole invariant of  *)
(* the open-file table, on top of the counts of FtableTable.               *)
(***************************************************************************)
EXTENDS FtableTable

-----------------------------------------------------------------------------
\* filealloc() returns an unused entry or none (file.c:33-44).
LEMMA Allocated ==
  ASSUME NEW f \in File \cup {NoFile}, filealloc(f), TakeFile(f)
  PROVE  \/ f = NoFile /\ UNCHANGED fref
         \/ f \in File /\ f # NoFile /\ fref[f] = 0 /\ fref' = [fref EXCEPT ![f] = 1]
  BY Zenon, FileAssumption DEF filealloc, TakeFile

\* sys_pipe() and pipealloc() keep the counts (pipe.c:22-57, sysfile.c:423-446).
LEMMA TablePipe ==
  ASSUME Table, pipefree \subseteq PipePage, NEW p \in FileProc,
         pipe_f0(p) \/ pipe_f1(p) \/ pipe_kalloc(p)
  PROVE  Table'
<1>0. Shape /\ Place(p) /\ f0[p] \in File \cup {NoFile} /\ f1[p] \in File \cup {NoFile}
  BY Zenon, Facts
<1>1. CASE pipe_f0(p)
  <2>1. PICK f \in File \cup {NoFile} :
          /\ filealloc(f) /\ TakeFile(f) /\ f0' = [f0 EXCEPT ![p] = f]
          /\ Go(p, IF f = NoFile THEN "user" ELSE "pipe_f1")
    BY Zenon, <1>1 DEF pipe_f0
  <2>2. In(p, "user") /\ UNCHANGED <<ftype, fpage, ofile, alive, f1, ff, fchild, nfd>>
    BY Zenon, <1>1 DEF pipe_f0
  <2>3. CASE f = NoFile
    <3>1. f0' = f0 /\ fpc' = fpc /\ fref' = fref
      BY <1>0, <2>1, <2>2, <2>3, Allocated DEF In, Place, Shape, Go
    <3> QED
      BY Zenon, <2>2, <3>1, SameTable DEF tableVars
  <2>4. CASE f # NoFile
    <3>1. f \in File /\ fref[f] = 0 /\ fref' = [fref EXCEPT ![f] = 1] /\ Go(p, "pipe_f1")
      BY Zenon, <2>1, <2>4, Allocated
    <3> QED
      BY Zenon, <2>1, <2>2, <3>1, TakesFirst
  <2> QED
    BY Zenon, <2>3, <2>4
<1>2. CASE pipe_f1(p)
  <2>1. PICK f \in File \cup {NoFile} :
          /\ filealloc(f) /\ TakeFile(f) /\ f1' = [f1 EXCEPT ![p] = f]
          /\ Go(p, IF f = NoFile THEN "bad" ELSE "pipe_kalloc")
    BY Zenon, <1>2 DEF pipe_f1
  <2>2. In(p, "pipe_f1") /\ UNCHANGED <<ftype, fpage, ofile, alive, f0, ff, fchild, nfd>>
    BY Zenon, <1>2 DEF pipe_f1
  <2>3. CASE f = NoFile
    <3>1. fref' = fref /\ Go(p, "bad") /\ f1' = f1 /\ fpc[p] = "pipe_f1" /\ p \in alive
      BY <1>0, <2>1, <2>2, <2>3, Allocated DEF In, Place, Shape
    <3>2. Own(p) /\ fpc'[p] = "bad"
      BY Zenon, <1>0, <2>2, <3>1, OwnStep
    <3>3. Shape'
      BY Zenon, <1>0, <2>2, <3>1 DEF Shape, Go, Loc
    <3>4. Place(p)'
      BY Zenon, <1>0, <2>2, <3>1, <3>2 DEF Place
    <3>5. \A g \in File : Calls(p, g)' = Calls(p, g)
      BY Zenon, <2>2, <3>1, <3>2 DEF Calls, One
    <3> QED
      BY <2>2, <3>1, <3>2, <3>3, <3>4, <3>5, Turns
  <2>4. CASE f # NoFile
    <3>1. f \in File /\ fref[f] = 0 /\ fref' = [fref EXCEPT ![f] = 1] /\ Go(p, "pipe_kalloc")
      BY Zenon, <2>1, <2>4, Allocated
    <3> QED
      BY Zenon, <2>1, <2>2, <3>1, TakesSecond
  <2> QED
    BY Zenon, <2>3, <2>4
<1>3. CASE pipe_kalloc(p)
  <2>1. In(p, "pipe_kalloc") /\ UNCHANGED <<fref, ofile, alive, f0, f1, ff, fchild, nfd>>
    BY Zenon, <1>3 DEF pipe_kalloc, locals
  <2>2. CASE Go(p, "bad") /\ UNCHANGED <<ftype, fpage>>
    <3>1. fpc[p] = "pipe_kalloc" /\ p \in alive
      BY Zenon, <2>1 DEF In
    <3>2. Own(p) /\ fpc'[p] = "bad"
      BY Zenon, <1>0, <2>1, <2>2, OwnStep
    <3>3. Shape'
      BY Zenon, <1>0, <2>1, <2>2 DEF Shape, Go, Loc
    <3>4. Place(p)'
      BY <1>0, <2>1, <2>2, <3>1, <3>2 DEF Place
    <3>5. \A g \in File : Calls(p, g)' = Calls(p, g)
      BY Zenon, <2>1, <3>1, <3>2 DEF Calls, One
    <3> QED
      BY <2>1, <2>2, <3>1, <3>2, <3>3, <3>4, <3>5, Turns
  <2>4. CASE pipefree = {}
    BY Zenon, <1>3, <2>2, <2>4 DEF pipe_kalloc
  <2>5. CASE pipefree # {}
    <3>1. PICK page \in pipefree :
            /\ ftype' = [ftype EXCEPT ![f0[p]] = "r", ![f1[p]] = "w"]
            /\ fpage' = [fpage EXCEPT ![f0[p]] = page, ![f1[p]] = page]
            /\ Go(p, "pipe_fd")
      BY Zenon, <1>3, <2>5 DEF pipe_kalloc
    <3> QED
      BY Zenon, <2>1, <3>1, Fills
  <2> QED
    BY Zenon, <2>4, <2>5
<1> QED
  BY Zenon, <1>1, <1>2, <1>3

\* pipe() finds two free descriptors when it needs them (sysfile.c:434-435).
LEMMA SecondFree ==
  ASSUME NEW p, Cardinality(FreeFD(p)) >= 2, NEW d, d = fdalloc(p),
         NEW e, e = CHOOSE x \in FreeFD(p) \ {d} : \A y \in FreeFD(p) \ {d} : x <= y
  PROVE  d \in FD /\ e \in FD /\ d # e /\ ofile[p][d] = NoFile /\ ofile[p][e] = NoFile
<1>1. IsFiniteSet(FD) /\ FreeFD(p) \in SUBSET FD /\ FreeFD(p) \ {d} \subseteq Nat
  BY SMTT(30), FileAssumption, FS_Interval DEF FD, FreeFD
<1>2. IsFiniteSet(FreeFD(p)) /\ Cardinality(FreeFD(p)) \in Nat
  BY Zenon, <1>1, FS_Subset, FS_CardinalityType
<1>3. FreeFD(p) # {}
  BY <1>2, FS_EmptySet
<1>4. d \in FreeFD(p)
  BY Zenon, <1>3, FreeFound DEF FreeFD
<1>5. FreeFD(p) \ {d} # {}
  <2>1. Cardinality(FreeFD(p) \ {d}) = Cardinality(FreeFD(p)) - 1
    BY Zenon, <1>2, <1>4, FS_RemoveElement
  <2>2. Cardinality(FreeFD(p) \ {d}) # 0
    BY <2>1, <1>2
  <2> QED
    BY <2>2, FS_EmptySet, Zenon
<1>6. \E x \in FreeFD(p) \ {d} : \A y \in FreeFD(p) \ {d} : x <= y
  BY Zenon, <1>1, <1>5, Least
<1>7. e \in FreeFD(p) \ {d}
  BY <1>6, Zenon
<1> QED
  BY Zenon, <1>4, <1>7 DEF FreeFD

\* ... and so do its error paths (pipe.c:49-56, sysfile.c:436-440).
LEMMA TablePipeEnd ==
  ASSUME Table, NEW p \in FileProc, pipe_fd(p) \/ pipe_bad(p)
  PROVE  Table'
<1>0. Shape /\ Place(p) /\ f0[p] \in File \cup {NoFile} /\ f1[p] \in File \cup {NoFile}
  BY Zenon, Facts
<1>1. ASSUME NEW at, NEW to, In(p, at), Go(p, to), <<at, to>> \in {<<"pipe_fd", "bad">>, <<"bad", "user">>},
             to = "user" => f0[p] = NoFile /\ f1[p] = NoFile,
             UNCHANGED <<fref, ftype, fpage, ofile, alive, f0, f1, ff, fchild, nfd>>
      PROVE  Table'
  <2>1. fpc[p] = at /\ p \in alive /\ at \in {"pipe_fd", "bad"} /\ to \in {"bad", "user"}
    BY Zenon, <1>1 DEF In
  <2>2. Own(p) /\ fpc'[p] = to
    BY Zenon, <1>0, <1>1, OwnStep
  <2>3. Shape'
    BY Zenon, <1>0, <1>1, <2>1 DEF Shape, Go, Loc
  <2>4. Place(p)'
    BY <1>0, <1>1, <2>1, <2>2 DEF Place
  <2>5. \A g \in File : Calls(p, g)' = Calls(p, g)
    BY Zenon, <1>1, <2>1, <2>2 DEF Calls, One
  <2>6. fpc'[p] # "fork" /\ fpc[p] # "fork"
    BY Zenon, <2>1, <2>2
  <2> QED
    BY <1>1, <2>1, <2>2, <2>3, <2>4, <2>5, <2>6, Turns
<1>2. CASE pipe_fd(p)
  <2>0. In(p, "pipe_fd") /\ UNCHANGED <<fref, ftype, fpage, alive, ff, fchild, nfd>>
    BY Zenon, <1>2 DEF pipe_fd
  <2>1. CASE Cardinality(FreeFD(p)) >= 2
    <3>1. PICK d, e : /\ d = fdalloc(p)
                      /\ e = CHOOSE x \in FreeFD(p) \ {d} : \A y \in FreeFD(p) \ {d} : x <= y
      BY Zenon
    <3>2. d \in FD /\ e \in FD /\ d # e /\ ofile[p][d] = NoFile /\ ofile[p][e] = NoFile
      BY <2>1, <3>1, SecondFree
    <3>3. /\ ofile' = [ofile EXCEPT ![p][d] = f0[p], ![p][e] = f1[p]]
          /\ f0' = [f0 EXCEPT ![p] = NoFile] /\ f1' = [f1 EXCEPT ![p] = NoFile] /\ Go(p, "user")
      BY <1>2, <2>1, <3>1, Zenon DEF pipe_fd
    <3> QED
      BY Zenon, <2>0, <3>2, <3>3, Connects
  <2>2. CASE ~(Cardinality(FreeFD(p)) >= 2)
    <3>1. Go(p, "bad") /\ UNCHANGED <<ofile, f0, f1>>
      BY Zenon, <1>2, <2>2 DEF pipe_fd
    <3> QED
      BY Zenon, <1>1, <2>0, <3>1
  <2> QED
    BY Zenon, <2>1, <2>2
<1>3. CASE pipe_bad(p)
  <2>0. /\ In(p, "bad") /\ p \in alive /\ fpc[p] = "bad"
        /\ UNCHANGED <<fpage, ofile, alive, fchild, nfd>>
    BY Zenon, <1>3 DEF pipe_bad, In
  <2>1. CASE /\ f0[p] # NoFile /\ fileclose(p, f0[p])
             /\ f0' = [f0 EXCEPT ![p] = NoFile] /\ UNCHANGED <<f1, fpc>>
    <3>1. Go(p, "bad")
      BY Zenon, <1>0, <2>0, <2>1 DEF Go, Shape
    <3> QED
      BY Zenon, <2>0, <2>1, <3>1, ClosesFirst
  <2>2. CASE /\ f0[p] = NoFile /\ f1[p] # NoFile /\ fileclose(p, f1[p])
             /\ f1' = [f1 EXCEPT ![p] = NoFile] /\ UNCHANGED <<f0, fpc>>
    BY Zenon, <2>0, <2>2, ClosesSecond
  <2>3. CASE /\ f0[p] = NoFile /\ f1[p] = NoFile
             /\ Go(p, "user") /\ UNCHANGED <<fref, ftype, ff, f0, f1>>
    BY <1>1, <2>0, <2>3
  <2> QED
    BY <1>3, <2>1, <2>2, <2>3 DEF pipe_bad
<1> QED
  BY Zenon, <1>2, <1>3

\* sys_open() keeps the counts (sysfile.c:317-331).
LEMMA TableOpen ==
  ASSUME Table, NEW p \in FileProc, open_filealloc(p) \/ open_fd(p)
  PROVE  Table'
<1>0. Shape /\ Place(p) /\ f0[p] \in File \cup {NoFile} /\ f1[p] \in File \cup {NoFile}
  BY Zenon, Facts
<1>1. CASE open_filealloc(p)
  <2>1. PICK f \in File \cup {NoFile} :
          /\ filealloc(f) /\ TakeFile(f) /\ f0' = [f0 EXCEPT ![p] = f]
          /\ IF f = NoFile THEN UNCHANGED <<irefs, fpc>> ELSE irefs' = irefs + 1 /\ Go(p, "open_fd")
    BY Zenon, <1>1 DEF open_filealloc
  <2>2. In(p, "user") /\ UNCHANGED <<ftype, fpage, ofile, alive, f1, ff, fchild, nfd>>
    BY Zenon, <1>1 DEF open_filealloc
  <2>3. CASE f = NoFile
    <3>1. f0' = f0 /\ fpc' = fpc /\ fref' = fref
      BY <1>0, <2>1, <2>2, <2>3, Allocated DEF In, Place, Shape
    <3> QED
      BY Zenon, <2>2, <3>1, SameTable DEF tableVars
  <2>4. CASE f # NoFile
    <3>1. f \in File /\ fref[f] = 0 /\ fref' = [fref EXCEPT ![f] = 1] /\ Go(p, "open_fd")
      BY Zenon, <2>1, <2>4, Allocated
    <3> QED
      BY Zenon, <2>1, <2>2, <3>1, TakesFirst
  <2> QED
    BY Zenon, <2>3, <2>4
<1>2. CASE open_fd(p)
  <2>1. /\ In(p, "open_fd") /\ p \in alive /\ fpc[p] = "open_fd" /\ f0[p] # NoFile
        /\ f0' = [f0 EXCEPT ![p] = NoFile] /\ Go(p, "user")
        /\ UNCHANGED <<fpage, alive, f1, fchild, nfd>>
    BY Zenon, <1>0, <1>2 DEF open_fd, In, Place
  <2>2. CASE FreeFD(p) = {}
    <3>1. fileclose(p, f0[p]) /\ UNCHANGED ofile
      BY Zenon, <1>2, <2>2 DEF open_fd
    <3> QED
      BY Zenon, <2>1, <3>1, ClosesFirst
  <2>3. CASE FreeFD(p) # {}
    <3>1. PICK d : d = fdalloc(p)
      BY Zenon
    <3>2. d \in FD /\ ofile[p][d] = NoFile
      BY Zenon, <2>3, <3>1, FreeFound
    <3>3. /\ ofile' = [ofile EXCEPT ![p][d] = f0[p]] /\ ftype' = [ftype EXCEPT ![f0[p]] = "inode"]
          /\ UNCHANGED <<fref, ff>>
      BY Zenon, <1>2, <2>3, <3>1 DEF open_fd
    <3> QED
      BY Zenon, <2>1, <3>2, <3>3, Opens
  <2> QED
    BY Zenon, <2>2, <2>3
<1> QED
  BY Zenon, <1>1, <1>2

\* A descriptor that is not free names a file.
LEMMA NotFree ==
  ASSUME Shape, NEW p \in FileProc, NEW d \in FD \ FreeFD(p)
  PROVE  d \in FD /\ ofile[p][d] \in File /\ ofile[p][d] # NoFile
  BY DEF FreeFD, Shape

\* The calls on a descriptor keep the counts (sysfile.c:57-104).
LEMMA TableCall ==
  ASSUME Table, NEW p \in FileProc, sys_dup(p) \/ sys_close(p) \/ sys_rw(p) \/ rw_return(p)
  PROVE  Table'
<1>0. /\ Shape /\ Place(p) /\ f0[p] \in File \cup {NoFile} /\ f1[p] \in File \cup {NoFile}
      /\ Births
  BY Zenon, Facts
<1>1. CASE sys_dup(p)
  <2>1. PICK c \in FD \ FreeFD(p) :
          /\ ofile' = [ofile EXCEPT ![p][fdalloc(p)] = ofile[p][c]]
          /\ fref' = [fref EXCEPT ![ofile[p][c]] = @ + 1]
    BY Zenon, <1>1 DEF sys_dup
  <2>2. /\ p \in alive /\ FreeFD(p) # {}
        /\ UNCHANGED <<ftype, fpage, alive, fpc, f0, f1, ff>> /\ UNCHANGED <<fchild, nfd>>
    BY Zenon, <1>1 DEF sys_dup, In, locals
  <2>3. PICK d, f : d = fdalloc(p) /\ f = ofile[p][c]
    BY Zenon
  <2>4. d \in FD /\ ofile[p][d] = NoFile /\ c \in FD /\ f \in File /\ ofile[p][c] = f
    BY <1>0, <2>2, <2>3, FreeFound, NotFree
  <2>5. fref' = [fref EXCEPT ![f] = @ + 1] /\ ofile' = [ofile EXCEPT ![p][d] = f]
    BY Zenon, <2>1, <2>3
  <2>6. fchild' \in [FileProc -> FileProc \cup {0}] /\ nfd' \in [FileProc -> 0 .. NOFILE]
    BY Zenon, <1>0, <2>2 DEF Shape
  <2>7. Shape' /\ Owners' /\ RefsCounted'
    BY Zenon, <2>2, <2>4, <2>5, <2>6, Duplicates
  <2>8. \A r \in FileProc \ {p} : ofile'[r] = ofile[r]
    BY Zenon, <1>0, <2>5 DEF Shape
  <2>9. Births'
    BY <1>0, <2>2, <2>8, BirthsKept
  <2> QED
    BY Zenon, <2>7, <2>9 DEF Table
<1>2. CASE sys_close(p)
  <2>1. PICK d \in FD \ FreeFD(p) :
          ofile' = [ofile EXCEPT ![p][d] = NoFile] /\ fileclose(p, ofile[p][d])
    BY Zenon, <1>2 DEF sys_close
  <2>2. p \in alive /\ UNCHANGED <<fpage, alive, fpc, f0, f1, fchild, nfd>>
    BY Zenon, <1>2 DEF sys_close, In, locals
  <2> QED
    BY Zenon, <1>0, <2>1, <2>2, NotFree, ClosesDescriptor
<1>3. ASSUME NEW f \in File \cup {NoFile}, f0' = [f0 EXCEPT ![p] = f], NEW at, NEW to, In(p, at), Go(p, to),
             \/ at = "user" /\ to = "rw" /\ f # NoFile
             \/ at = "rw" /\ to = "user" /\ f = NoFile,
             UNCHANGED <<fref, ftype, fpage, ofile, alive, f1, ff, fchild, nfd>>
      PROVE  Table'
  <2>1. fpc[p] = at /\ p \in alive /\ f1[p] = NoFile /\ (at = "user" => f0[p] = NoFile)
    BY Zenon, <1>0, <1>3 DEF In, Place
  <2>2. Own(p) /\ fpc'[p] = to
    BY Zenon, <1>0, <1>3, OwnStep
  <2>3. Shape'
    BY Zenon, <1>0, <1>3 DEF Shape, Go, Loc
  <2>a. f0'[p] = f /\ f1'[p] = NoFile
    BY Zenon, <1>0, <1>3, <2>1 DEF Shape
  <2>4. Place(p)'
    BY Zenon, <1>3, <2>2, <2>a DEF Place
  <2>5. \A g \in File : Calls(p, g)' = Calls(p, g)
    BY <1>3, <2>1, <2>2, <2>a, FileAssumption DEF Calls, One
  <2>6. fpc'[p] # "fork" /\ fpc[p] # "fork"
    BY Zenon, <1>3, <2>1, <2>2
  <2> QED
    BY <1>3, <2>1, <2>2, <2>3, <2>4, <2>5, <2>6, Turns
<1>4. CASE sys_rw(p)
  <2>1. PICK d \in FD \ FreeFD(p) : f0' = [f0 EXCEPT ![p] = ofile[p][d]]
    BY Zenon, <1>4 DEF sys_rw
  <2>2. ofile[p][d] \in File /\ ofile[p][d] # NoFile
    BY Zenon, <1>0, NotFree
  <2>3. /\ In(p, "user") /\ Go(p, "rw")
        /\ UNCHANGED <<fref, ftype, fpage, ofile, alive, f1, ff, fchild, nfd>>
    BY Zenon, <1>4 DEF sys_rw
  <2> QED
    BY Zenon, <1>3, <2>1, <2>2, <2>3
<1>5. CASE rw_return(p)
  BY ZenonT(30), <1>3, <1>5 DEF rw_return
<1> QED
  BY Zenon, <1>1, <1>2, <1>4, <1>5

\* exit() keeps the counts (proc.c:240-246).
LEMMA TableExit ==
  ASSUME Table, NEW p \in FileProc, exit_call(p) \/ exit_close(p)
  PROVE  Table'
<1>0. Shape /\ Place(p) /\ f0[p] \in File \cup {NoFile} /\ f1[p] \in File \cup {NoFile}
  BY Zenon, Facts
<1>1. CASE exit_call(p)
  <2>0. /\ fpc[p] = "user" /\ p \in alive /\ Go(p, "exit")
        /\ UNCHANGED <<fref, ftype, fpage, ofile, alive, f0, f1, ff, fchild, nfd>>
    BY Zenon, <1>1 DEF exit_call, In, locals
  <2>1. Own(p) /\ fpc'[p] = "exit"
    BY Zenon, <1>0, <2>0, OwnStep
  <2>2. Shape'
    BY Zenon, <1>0, <2>0 DEF Shape, Go, Loc
  <2>3. Place(p)'
    BY Zenon, <1>0, <2>0, <2>1 DEF Place
  <2>4. \A g \in File : Calls(p, g)' = Calls(p, g)
    BY Zenon, <2>0, <2>1 DEF Calls, One
  <2> QED
    BY <2>0, <2>1, <2>2, <2>3, <2>4, Turns
<1>2. CASE exit_close(p)
  <2>0. In(p, "exit") /\ p \in alive /\ UNCHANGED <<fpage, f0, f1, fchild, nfd>>
    BY Zenon, <1>2 DEF exit_close, In, locals
  <2>1. CASE FD \ FreeFD(p) = {}
    <3>1. /\ alive' = alive \ {p} /\ Go(p, "user") /\ UNCHANGED <<fref, ftype, ff, ofile>>
      BY Zenon, <1>2, <2>1 DEF exit_close
    <3>2. \A d \in FD : ofile[p][d] = NoFile
      BY Zenon, <2>1 DEF FreeFD
    <3> QED
      BY <2>0, <3>1, <3>2, ExitEnds
  <2>2. CASE FD \ FreeFD(p) # {}
    <3>1. PICK d : d = CHOOSE x \in FD \ FreeFD(p) : \A y \in FD \ FreeFD(p) : x <= y
      BY Zenon
    <3>2. d \in FD \ FreeFD(p)
      <4>1. FD \ FreeFD(p) \subseteq Nat
        BY FileAssumption DEF FD
      <4>2. \E x \in FD \ FreeFD(p) : \A y \in FD \ FreeFD(p) : x <= y
        BY Zenon, <4>1, <2>2, Least
      <4> QED
        BY <4>2, <3>1, Zenon
    <3>3. /\ fileclose(p, ofile[p][d]) /\ ofile' = [ofile EXCEPT ![p][d] = NoFile]
          /\ UNCHANGED <<alive, fpc>>
      BY Zenon, <1>2, <2>2, <3>1 DEF exit_close
    <3> QED
      BY Zenon, <1>0, <2>0, <3>2, <3>3, NotFree, ClosesDescriptor
  <2> QED
    BY Zenon, <2>1, <2>2
<1> QED
  BY Zenon, <1>1, <1>2

\* Every step keeps the counts.
LEMMA NextTable == Table /\ pipefree \subseteq PipePage /\ [FtableNext]_ftableVars => Table'
<1> SUFFICES ASSUME Table, pipefree \subseteq PipePage, [FtableNext]_ftableVars PROVE Table'
  BY Zenon
<1>1. CASE UNCHANGED ftableVars
  BY Zenon, <1>1, SameTable DEF ftableVars, tableVars
<1>2. CASE FtableNext
  BY ZenonT(30), <1>2, CloseEnds, TablePipe, TablePipeEnd, TableOpen, TableCall, ForkStarts, ForkCopies, ForkEnds,
     TableExit, Zenon DEF FtableNext
<1> QED
  BY Zenon, <1>1, <1>2

\* An end of a pipe has one user: a file, or a fileclose() that will close it.
ByFile(f, end, page) == ftype[f] = end /\ fpage[f] = page
ByClose(p, end, page) == ff[p].type = end /\ ff[p].page = page
Uses(end, page) == \/ \E f \in File : ByFile(f, end, page)
                   \/ \E p \in FileProc : ByClose(p, end, page)

Ends == \A page \in PipePage : /\ page \in readopen <=> Uses("r", page)
                               /\ page \in writeopen <=> Uses("w", page)
                               /\ page \in pipefree <=> page \notin readopen \cup writeopen

OneUser == \A end \in {"r", "w"}, page \in PipePage :
  /\ \A f, g \in File : ByFile(f, end, page) /\ ByFile(g, end, page) => f = g
  /\ \A p, q \in FileProc : ByClose(p, end, page) /\ ByClose(q, end, page) => p = q
  /\ \A f \in File, p \in FileProc : ~(ByFile(f, end, page) /\ ByClose(p, end, page))

Pages ==
  /\ readopen \subseteq PipePage /\ writeopen \subseteq PipePage /\ pipefree \subseteq PipePage
  /\ \A f \in File : ftype[f] \in {"r", "w"} => fpage[f] \in PipePage
  /\ \A p \in FileProc : ff[p].type \in {"r", "w"} => ff[p].page \in PipePage

PipesInv == Ends /\ OneUser /\ Pages

\* Steps that change no pipe and no file's contents.
LEMMA SamePipes ==
  ASSUME PipesInv, UNCHANGED <<ftype, fpage, ff, readopen, writeopen, pipefree>>
  PROVE  PipesInv'
<1>1. /\ \A f, end, page : ByFile(f, end, page)' <=> ByFile(f, end, page)
      /\ \A p, end, page : ByClose(p, end, page)' <=> ByClose(p, end, page)
  BY Zenon DEF ByFile, ByClose
<1>2. \A end, page : Uses(end, page)' <=> Uses(end, page)
  BY Zenon, <1>1 DEF Uses
<1> QED
  BY <1>1, <1>2 DEF PipesInv, Ends, OneUser, Pages

\* The last fileclose() of a file hands its end on to the copy (file.c:70-72).
LEMMA HandsOver ==
  ASSUME PipesInv, Shape, NEW p \in FileProc, ff[p] = NoFF, NEW f \in File,
         ftype'[f] = "none", \A g \in File \ {f} : ftype'[g] = ftype[g],
         ff'[p].type = ftype[f], ff'[p].page = fpage[f], \A r \in FileProc \ {p} : ff'[r] = ff[r],
         UNCHANGED <<fpage, readopen, writeopen, pipefree>>
  PROVE  PipesInv'
<1>0. Ends /\ OneUser /\ Pages /\ ff[p].type = "none"
  BY DEF PipesInv, NoFF
<1>1. ASSUME NEW end \in {"r", "w"}, NEW page
      PROVE  /\ \A g \in File : ByFile(g, end, page)' <=> g # f /\ ByFile(g, end, page)
             /\ \A r \in FileProc : ByClose(r, end, page)' <=> IF r = p THEN ByFile(f, end, page)
                                                               ELSE ByClose(r, end, page)
             /\ ~ByClose(p, end, page)
  BY Zenon, <1>0 DEF ByFile, ByClose
<1>2. ASSUME NEW end \in {"r", "w"}, NEW page PROVE Uses(end, page)' <=> Uses(end, page)
  BY Zenon, <1>1 DEF Uses
<1>3. Ends'
  BY Zenon, <1>0, <1>2 DEF Ends
<1>4. OneUser'
  BY <1>0, <1>1 DEF OneUser
<1>5. Pages'
  BY <1>0 DEF Pages
<1> QED
  BY Zenon, <1>3, <1>4, <1>5 DEF PipesInv

\* pipeclose() closes the end of its caller and nothing else, and the second
\* to close frees the page (pipe.c:59-75).
LEMMA ClosesEnd ==
  ASSUME PipesInv, Shape, NEW p \in FileProc, NEW end \in {"r", "w"}, NEW page,
         ff[p].type = end, ff[p].page = page, close_end(page, end),
         ff' = [ff EXCEPT ![p] = NoFF], UNCHANGED <<ftype, fpage>>
  PROVE  PipesInv'
<1>0. Ends /\ OneUser /\ Pages /\ page \in PipePage /\ ByClose(p, end, page)
  BY Zenon DEF PipesInv, Pages, ByClose
<1>a. ff'[p].type = "none" /\ \A r \in FileProc \ {p} : ff'[r] = ff[r]
  BY Zenon DEF Shape, NoFF
<1>1. ASSUME NEW e \in {"r", "w"}, NEW x
      PROVE  /\ \A g \in File : ByFile(g, e, x)' <=> ByFile(g, e, x)
             /\ \A r \in FileProc : ByClose(r, e, x)' <=> r # p /\ ByClose(r, e, x)
             /\ ByClose(p, e, x) <=> e = end /\ x = page
  BY Zenon, <1>a DEF ByFile, ByClose
<1>2. ASSUME NEW e \in {"r", "w"}, NEW x \in PipePage
      PROVE  Uses(e, x)' <=> Uses(e, x) /\ ~(e = end /\ x = page)
  BY <1>0, <1>1, <1>2 DEF Uses, OneUser
<1>3. /\ readopen' = IF end = "r" THEN readopen \ {page} ELSE readopen
      /\ writeopen' = IF end = "w" THEN writeopen \ {page} ELSE writeopen
      /\ pipefree' = IF page \in readopen' \cup writeopen' THEN pipefree ELSE pipefree \cup {page}
  BY Zenon DEF close_end
<1>4. Ends'
  <2> SUFFICES ASSUME NEW x \in PipePage
               PROVE  /\ x \in readopen' <=> Uses("r", x)'
                      /\ x \in writeopen' <=> Uses("w", x)'
                      /\ x \in pipefree' <=> x \notin readopen' \cup writeopen'
    BY Zenon DEF Ends
  <2>1. /\ x \in readopen <=> Uses("r", x)
        /\ x \in writeopen <=> Uses("w", x)
        /\ x \in pipefree <=> x \notin readopen \cup writeopen
    BY Zenon, <1>0 DEF Ends
  <2>2. x \in readopen' <=> x \in readopen /\ ~(end = "r" /\ x = page)
    BY Zenon, <1>3
  <2>3. x \in writeopen' <=> x \in writeopen /\ ~(end = "w" /\ x = page)
    BY Zenon, <1>3
  <2>4. x \in pipefree' <=> x \in pipefree \/ (x = page /\ x \notin readopen' \cup writeopen')
    BY Zenon, <1>3
  <2>5. page \in readopen \cup writeopen
    BY Zenon, <1>0 DEF Ends, Uses
  <2>6. (Uses("r", x)' <=> Uses("r", x) /\ ~(end = "r" /\ x = page))
        /\ (Uses("w", x)' <=> Uses("w", x) /\ ~(end = "w" /\ x = page))
    BY Zenon, <1>2
  <2> QED
    BY Zenon, <2>1, <2>2, <2>3, <2>4, <2>5, <2>6
<1>5. OneUser'
  BY <1>0, <1>1 DEF OneUser
<1>6. Pages'
  BY Zenon, <1>0, <1>3, <1>a DEF Pages
<1> QED
  BY Zenon, <1>4, <1>5, <1>6 DEF PipesInv

\* pipealloc() makes both ends of a page that was free (pipe.c:31-45).
LEMMA MakesEnds ==
  ASSUME PipesInv, Shape, NEW f \in File, NEW h \in File, f # h, ftype[f] = "none", ftype[h] = "none",
         NEW page \in pipefree, pipefree' = pipefree \ {page},
         readopen' = readopen \cup {page}, writeopen' = writeopen \cup {page},
         ftype' = [ftype EXCEPT ![f] = "r", ![h] = "w"],
         fpage' = [fpage EXCEPT ![f] = page, ![h] = page], UNCHANGED ff
  PROVE  PipesInv'
<1>0. Ends /\ OneUser /\ Pages /\ page \in PipePage
  BY Zenon DEF PipesInv, Pages
<1>a. /\ ftype'[f] = "r" /\ ftype'[h] = "w" /\ fpage'[f] = page /\ fpage'[h] = page
      /\ \A g \in File \ {f, h} : ftype'[g] = ftype[g] /\ fpage'[g] = fpage[g]
  BY Zenon DEF Shape
<1>b. ~Uses("r", page) /\ ~Uses("w", page)
  BY Zenon, <1>0 DEF Ends
<1>1. ASSUME NEW e \in {"r", "w"}, NEW x
      PROVE  /\ \A g \in File : ByFile(g, e, x)' <=> \/ g = f /\ e = "r" /\ x = page
                                                     \/ g = h /\ e = "w" /\ x = page
                                                     \/ ByFile(g, e, x)
             /\ \A r \in FileProc : ByClose(r, e, x)' <=> ByClose(r, e, x)
  BY Zenon, <1>a DEF ByFile, ByClose
<1>2. ASSUME NEW e \in {"r", "w"}, NEW x PROVE Uses(e, x)' <=> Uses(e, x) \/ x = page
  BY Zenon, <1>1, <1>2 DEF Uses
<1>3. Ends'
  BY Zenon, <1>0, <1>2 DEF Ends, Pages
<1>4. OneUser'
  BY <1>0, <1>1, <1>b DEF OneUser, Uses
<1>5. Pages'
  BY Zenon, <1>0, <1>a DEF Pages
<1> QED
  BY Zenon, <1>3, <1>4, <1>5 DEF PipesInv

\* open() fills in a file that is no pipe (sysfile.c:326-331).
LEMMA NoPipe ==
  ASSUME PipesInv, Shape, NEW f \in File, ftype[f] = "none", ftype' = [ftype EXCEPT ![f] = "inode"],
         UNCHANGED <<fpage, ff, readopen, writeopen, pipefree>>
  PROVE  PipesInv'
<1>0. ftype'[f] = "inode" /\ \A g \in File \ {f} : ftype'[g] = ftype[g]
  BY Zenon DEF Shape
<1>1. ASSUME NEW e \in {"r", "w"}, NEW x
      PROVE  /\ \A g \in File : ByFile(g, e, x)' <=> ByFile(g, e, x)
             /\ \A p \in FileProc : ByClose(p, e, x)' <=> ByClose(p, e, x)
  BY Zenon, <1>0 DEF ByFile, ByClose
<1>2. ASSUME NEW e \in {"r", "w"}, NEW x PROVE Uses(e, x)' <=> Uses(e, x)
  BY Zenon, <1>1 DEF Uses
<1>3. Ends'
  BY Zenon, <1>2 DEF Ends, PipesInv
<1>4. OneUser'
  BY ZenonT(30), <1>1 DEF OneUser, PipesInv
<1>5. Pages'
  BY Zenon, <1>0 DEF Pages, PipesInv
<1> QED
  BY Zenon, <1>3, <1>4, <1>5 DEF PipesInv

\* fileclose() of a file that is no pipe (file.c:77-81).
LEMMA Drops ==
  ASSUME PipesInv, Shape, NEW p \in FileProc, ff[p].type \notin {"r", "w"}, ff' = [ff EXCEPT ![p] = NoFF],
         UNCHANGED <<ftype, fpage>>, UNCHANGED <<readopen, writeopen, pipefree>>
  PROVE  PipesInv'
<1>0. ff'[p].type = "none" /\ \A r \in FileProc \ {p} : ff'[r] = ff[r]
  BY Zenon DEF Shape, NoFF
<1>1. ASSUME NEW e \in {"r", "w"}, NEW x
      PROVE  /\ \A g \in File : ByFile(g, e, x)' <=> ByFile(g, e, x)
             /\ \A r \in FileProc : ByClose(r, e, x)' <=> ByClose(r, e, x)
  BY Zenon, <1>0 DEF ByFile, ByClose
<1>2. ASSUME NEW e \in {"r", "w"}, NEW x PROVE Uses(e, x)' <=> Uses(e, x)
  BY Zenon, <1>1 DEF Uses
<1>3. Ends'
  BY Zenon, <1>2 DEF Ends, PipesInv
<1>4. OneUser'
  BY <1>1 DEF OneUser, PipesInv
<1>5. Pages'
  BY Zenon, <1>0 DEF Pages, PipesInv
<1> QED
  BY Zenon, <1>3, <1>4, <1>5 DEF PipesInv

-----------------------------------------------------------------------------
\* What a step does to the contents of the files, to the pipes and to the
\* references to inodes.
Opening == {p \in FileProc : fpc[p] = "open_fd"}
contents == <<ftype, fpage, ff, readopen, writeopen, pipefree>>

Keeps == UNCHANGED contents /\ UNCHANGED irefs /\ Opening' = Opening
Hands(p, f) ==
  /\ ff[p] = NoFF /\ ftype' = [ftype EXCEPT ![f] = "none"]
  /\ ff' = [ff EXCEPT ![p] = [type |-> ftype[f], page |-> fpage[f]]]
  /\ UNCHANGED <<fpage, readopen, writeopen, pipefree>>
  /\ \/ UNCHANGED irefs /\ Opening' = Opening
     \/ /\ ftype[f] = "none" /\ irefs' = irefs - 1
        /\ p \in Opening /\ Opening' = Opening \ {p}
Makes(f, h, page) ==
  /\ f # h /\ ftype[f] = "none" /\ ftype[h] = "none"
  /\ pipefree' = pipefree \ {page}
  /\ readopen' = readopen \cup {page} /\ writeopen' = writeopen \cup {page}
  /\ ftype' = [ftype EXCEPT ![f] = "r", ![h] = "w"]
  /\ fpage' = [fpage EXCEPT ![f] = page, ![h] = page]
  /\ UNCHANGED <<ff, irefs>> /\ Opening' = Opening
Begins(p) == /\ UNCHANGED contents /\ irefs' = irefs + 1
             /\ p \notin Opening /\ Opening' = Opening \cup {p}
Fulfils(p, f) ==
  /\ ftype[f] = "none" /\ ftype' = [ftype EXCEPT ![f] = "inode"]
  /\ UNCHANGED <<fpage, ff, readopen, writeopen, pipefree, irefs>>
  /\ p \in Opening /\ Opening' = Opening \ {p}

Effect(p) == \/ Keeps \/ fileclose_last(p) \/ Begins(p)
             \/ \E f \in File : Hands(p, f) \/ Fulfils(p, f)
             \/ \E f, h \in File, page \in pipefree : Makes(f, h, page)

\* sys_open() is between its two steps or not.
LEMMA Moves ==
  ASSUME Shape, NEW p \in FileProc, NEW to, Go(p, to)
  PROVE  /\ p \in Opening <=> fpc[p] = "open_fd"
         /\ Opening' = IF to = "open_fd" THEN Opening \cup {p} ELSE Opening \ {p}
  BY DEF Opening, Go, Shape

\* fileclose() lowers a count, and empties the file when it was the last
\* (file.c:61-74).
LEMMA CloseEffect ==
  ASSUME NEW p \in FileProc, ff[p] = NoFF, NEW f \in File, fileclose(p, f),
         UNCHANGED <<fpage, readopen, writeopen, pipefree>>,
         UNCHANGED irefs /\ Opening' = Opening
  PROVE  Effect(p)
<1>1. CASE fref[f] > 1
  BY Zenon, <1>1 DEF fileclose, Effect, Keeps, contents
<1>2. CASE ~(fref[f] > 1)
  BY Zenon, <1>2 DEF fileclose, Effect, Hands
<1> QED BY Zenon, <1>1, <1>2

\* The steps of pipe() (pipe.c:22-57, sysfile.c:423-446).
LEMMA PipeEffect ==
  ASSUME Table, NEW p \in FileProc,
         pipe_f0(p) \/ pipe_f1(p) \/ pipe_kalloc(p) \/ pipe_fd(p) \/ pipe_bad(p)
  PROVE  Effect(p)
<1>0. Shape /\ Place(p) /\ f0[p] \in File \cup {NoFile} /\ f1[p] \in File \cup {NoFile}
  BY Zenon, Facts
<1>1. ASSUME NEW at, fpc[p] = at, at # "open_fd",
             fpc' = fpc \/ \E to : Go(p, to) /\ to # "open_fd"
      PROVE  Opening' = Opening
  <2>1. CASE fpc' = fpc
    BY Zenon, <2>1 DEF Opening
  <2>2. CASE \E to : Go(p, to) /\ to # "open_fd"
    BY <1>0, <1>1, <2>2, Moves
  <2> QED BY <1>1, <2>1, <2>2
<1>2. CASE pipe_f0(p)
  <2>1. Opening' = Opening
    BY <1>1, <1>2 DEF pipe_f0, In
  <2> QED BY Zenon, <1>2, <2>1 DEF pipe_f0, pipes, Effect, Keeps, contents
<1>3. CASE pipe_f1(p)
  <2>1. Opening' = Opening
    BY <1>1, <1>3 DEF pipe_f1, In
  <2> QED BY Zenon, <1>3, <2>1 DEF pipe_f1, pipes, Effect, Keeps, contents
<1>4. CASE pipe_kalloc(p)
  <2>1. Opening' = Opening
    BY <1>1, <1>4 DEF pipe_kalloc, In
  <2>2. CASE pipefree = {}
    BY Zenon, <1>4, <2>1, <2>2 DEF pipe_kalloc, pipes, Effect, Keeps, contents
  <2>3. CASE pipefree # {}
    <3>1. /\ fpc[p] = "pipe_kalloc" /\ UNCHANGED <<ff, irefs>>
          /\ \E page \in pipefree :
               /\ pipefree' = pipefree \ {page}
               /\ readopen' = readopen \cup {page} /\ writeopen' = writeopen \cup {page}
               /\ ftype' = [ftype EXCEPT ![f0[p]] = "r", ![f1[p]] = "w"]
               /\ fpage' = [fpage EXCEPT ![f0[p]] = page, ![f1[p]] = page]
      BY Zenon, <1>4, <2>3 DEF pipe_kalloc, In
    <3>2. /\ f0[p] \in File /\ f1[p] \in File /\ f0[p] # f1[p]
          /\ ftype[f0[p]] = "none" /\ ftype[f1[p]] = "none"
      BY Zenon, <1>0, <3>1 DEF Place
    <3>3. \E page \in pipefree : Makes(f0[p], f1[p], page)
      BY Zenon, <2>1, <3>1, <3>2 DEF Makes
    <3> QED BY Zenon, <3>2, <3>3 DEF Effect
  <2> QED BY Zenon, <2>2, <2>3
<1>5. CASE pipe_fd(p)
  <2>1. Opening' = Opening
    BY <1>1, <1>5 DEF pipe_fd, In
  <2> QED BY <1>5, <2>1 DEF pipe_fd, pipes, Effect, Keeps, contents
<1>6. CASE pipe_bad(p)
  <2>1. Opening' = Opening
    BY <1>1, <1>6 DEF pipe_bad, In
  <2>2. ff[p] = NoFF /\ UNCHANGED <<fpage, readopen, writeopen, pipefree>> /\ UNCHANGED irefs
    BY Zenon, <1>6 DEF pipe_bad, In, pipes
  <2>3. CASE \E f \in File : fileclose(p, f)
    BY <2>1, <2>2, <2>3, CloseEffect
  <2>4. CASE UNCHANGED <<ftype, ff>>
    BY <2>1, <2>2, <2>4 DEF Effect, Keeps, contents
  <2> QED BY SMTT(30), <1>0, <1>6, <2>3, <2>4 DEF pipe_bad
<1> QED BY <1>2, <1>3, <1>4, <1>5, <1>6

\* The steps of open(): the reference namei() returned becomes the file's, or
\* is given back (sysfile.c:317-331).
LEMMA OpenEffect ==
  ASSUME Table, NEW p \in FileProc, open_filealloc(p) \/ open_fd(p)
  PROVE  Effect(p)
<1>0. Shape /\ Place(p) /\ f0[p] \in File \cup {NoFile}
  BY Zenon, Facts
<1>1. CASE open_filealloc(p)
  <2>1. fpc[p] = "user" /\ UNCHANGED <<ftype, fpage, ff, readopen, writeopen, pipefree>>
    BY Zenon, <1>1 DEF open_filealloc, In, pipes
  <2>2. UNCHANGED <<irefs, fpc>> \/ (irefs' = irefs + 1 /\ Go(p, "open_fd"))
    BY Zenon, <1>1 DEF open_filealloc
  <2>3. CASE UNCHANGED <<irefs, fpc>>
    BY ZenonT(30), <2>1, <2>3 DEF Effect, Keeps, contents, Opening
  <2>4. CASE irefs' = irefs + 1 /\ Go(p, "open_fd")
    BY <1>0, <2>1, <2>4, Moves DEF Effect, Begins, contents
  <2> QED BY <2>2, <2>3, <2>4
<1>2. CASE open_fd(p)
  <2>1. /\ fpc[p] = "open_fd" /\ ff[p] = NoFF /\ Go(p, "user")
        /\ UNCHANGED <<fpage, readopen, writeopen, pipefree>>
    BY Zenon, <1>2 DEF open_fd, In, pipes
  <2>2. p \in Opening /\ Opening' = Opening \ {p}
    BY <1>0, <2>1, Moves
  <2>3. f0[p] \in File /\ fref[f0[p]] = 1 /\ ftype[f0[p]] = "none"
    BY Zenon, <1>0, <2>1 DEF Place
  <2>4. CASE FreeFD(p) = {}
    <3>1. fileclose(p, f0[p]) /\ irefs' = irefs - 1
      BY <1>2, <2>4 DEF open_fd
    <3>2. Hands(p, f0[p])
      BY <2>1, <2>2, <2>3, <3>1 DEF fileclose, Hands
    <3> QED BY Zenon, <2>3, <3>2 DEF Effect
  <2>5. CASE FreeFD(p) # {}
    <3>1. ftype' = [ftype EXCEPT ![f0[p]] = "inode"] /\ UNCHANGED <<irefs, ff>>
      BY Zenon, <1>2, <2>5 DEF open_fd
    <3>2. Fulfils(p, f0[p])
      BY <2>1, <2>2, <2>3, <3>1 DEF Fulfils
    <3> QED BY Zenon, <2>3, <3>2 DEF Effect
  <2> QED BY Zenon, <2>4, <2>5
<1> QED BY Zenon, <1>1, <1>2

\* The calls on a descriptor, fork() and exit() (sysfile.c:57-104,
\* proc.c:181-270).
LEMMA CallEffect ==
  ASSUME Table, NEW p \in FileProc,
         \/ sys_dup(p) \/ sys_close(p) \/ sys_rw(p) \/ rw_return(p)
         \/ fork(p) \/ fork_filedup(p) \/ fork_return(p) \/ exit_call(p) \/ exit_close(p)
  PROVE  Effect(p)
<1>0. Shape
  BY Zenon, Facts
<1>1. /\ fpc[p] # "open_fd" /\ ff[p] = NoFF
      /\ UNCHANGED <<fpage, readopen, writeopen, pipefree>> /\ UNCHANGED irefs
  BY Zenon DEF sys_dup, sys_close, sys_rw, rw_return, fork, fork_filedup, fork_return, exit_call,
         exit_close, In, pipes
<1>2. fpc' = fpc \/ \E to \in {"user", "rw", "fork", "exit"} : Go(p, to)
  BY Zenon DEF sys_dup, sys_close, sys_rw, rw_return, fork, fork_filedup, fork_return, exit_call, exit_close
<1>3. Opening' = Opening
  <2>1. CASE fpc' = fpc
    BY Zenon, <2>1 DEF Opening
  <2>2. ASSUME NEW to \in {"user", "rw", "fork", "exit"}, Go(p, to) PROVE Opening' = Opening
    BY Zenon, <1>0, <1>1, <2>2, Moves
  <2> QED BY Zenon, <1>2, <2>1, <2>2
<1>4. CASE UNCHANGED <<ftype, ff>>
  BY Zenon, <1>1, <1>3, <1>4 DEF Effect, Keeps, contents
<1>5. CASE \E f \in File : fileclose(p, f)
  BY <1>1, <1>3, <1>5, CloseEffect
<1>6. CASE sys_close(p)
  <2>1. PICK d \in FD \ FreeFD(p) : fileclose(p, ofile[p][d])
    BY Zenon, <1>6 DEF sys_close
  <2> QED BY <1>0, <1>5, <2>1, NotFree
<1>7. CASE exit_close(p)
  <2>1. CASE FD \ FreeFD(p) = {}
    BY <1>4, <1>7, <2>1 DEF exit_close
  <2>2. CASE FD \ FreeFD(p) # {}
    <3>1. PICK d : /\ d = CHOOSE x \in FD \ FreeFD(p) : \A y \in FD \ FreeFD(p) : x <= y
                   /\ fileclose(p, ofile[p][d])
      BY <1>7, <2>2, Zenon DEF exit_close
    <3>2. FD \ FreeFD(p) \subseteq Nat
      BY FileAssumption DEF FD
    <3>3. \E x \in FD \ FreeFD(p) : \A y \in FD \ FreeFD(p) : x <= y
      BY Zenon, <2>2, <3>2, Least
    <3>4. d \in FD \ FreeFD(p)
      BY <3>1, <3>3, Zenon
    <3> QED BY <1>0, <1>5, <3>1, <3>4, NotFree
  <2> QED BY <2>1, <2>2
<1>8. CASE sys_dup(p) \/ sys_rw(p) \/ rw_return(p) \/ fork(p) \/ fork_filedup(p) \/ fork_return(p) \/ exit_call(p)
  <2>1. UNCHANGED <<ftype, ff>>
    BY Zenon, <1>8 DEF sys_dup, sys_rw, rw_return, fork, fork_filedup, fork_return, exit_call
  <2> QED BY <1>4, <2>1
<1> QED BY Zenon, <1>6, <1>7, <1>8

-----------------------------------------------------------------------------
\* A step keeps what the invariant says of the pipes.
LEMMA NextPipes ==
  ASSUME PipesInv, Shape, NEW p \in FileProc, Effect(p)
  PROVE  PipesInv'
<1>1. CASE Keeps \/ Begins(p)
  BY Zenon, <1>1, SamePipes DEF Keeps, Begins, contents
<1>2. ASSUME NEW f \in File, Hands(p, f) PROVE PipesInv'
  <2>1. /\ ftype'[f] = "none" /\ \A g \in File \ {f} : ftype'[g] = ftype[g]
        /\ ff'[p] = [type |-> ftype[f], page |-> fpage[f]] /\ \A r \in FileProc \ {p} : ff'[r] = ff[r]
        /\ ff[p] = NoFF /\ UNCHANGED <<fpage, readopen, writeopen, pipefree>>
    BY Zenon, <1>2 DEF Hands, Shape
  <2>2. ff'[p].type = ftype[f] /\ ff'[p].page = fpage[f]
    BY <2>1
  <2> QED BY <2>1, <2>2, HandsOver
<1>3. ASSUME NEW f \in File, Fulfils(p, f) PROVE PipesInv'
  BY Zenon, <1>3, NoPipe DEF Fulfils
<1>4. ASSUME NEW f \in File, NEW h \in File, NEW page \in pipefree, Makes(f, h, page) PROVE PipesInv'
  BY ZenonT(30), <1>4, MakesEnds DEF Makes
<1>5. CASE fileclose_last(p)
  <2>1. ff' = [ff EXCEPT ![p] = NoFF] /\ UNCHANGED <<ftype, fpage>>
    BY Zenon, <1>5 DEF fileclose_last
  <2>2. CASE ff[p].type \in {"r", "w"} /\ close_end(ff[p].page, ff[p].type)
    BY Zenon, <2>1, <2>2, ClosesEnd
  <2>3. CASE ff[p].type \notin {"r", "w"} /\ UNCHANGED <<readopen, writeopen, pipefree>>
    BY Zenon, <2>1, <2>3, Drops
  <2> QED BY <1>5, <2>2, <2>3 DEF fileclose_last, pipes
<1> QED BY <1>1, <1>2, <1>3, <1>4, <1>5 DEF Effect

-----------------------------------------------------------------------------
InodeFiles == {f \in File : ftype[f] = "inode"}
InodeCloses == {p \in FileProc : ff[p].type = "inode"}
Inodes == irefs = Cardinality(InodeFiles) + Cardinality(InodeCloses) + Cardinality(Opening)

Bounded == /\ IsFiniteSet(InodeFiles) /\ IsFiniteSet(InodeCloses) /\ IsFiniteSet(Opening)
           /\ Cardinality(InodeFiles) \in Nat /\ Cardinality(InodeCloses) \in Nat /\ Cardinality(Opening) \in Nat
\* The table and the processes are finite (file.c:14-17, param.h:1).
LEMMA InodesFinite == Bounded
<1>1. IsFiniteSet(FileProc)
  BY FileAssumption, FS_Interval DEF FileProc
<1>2. InodeFiles \in SUBSET File /\ InodeCloses \in SUBSET FileProc /\ Opening \in SUBSET FileProc
  BY Zenon DEF InodeFiles, InodeCloses, Opening
<1>3. IsFiniteSet(InodeFiles) /\ IsFiniteSet(InodeCloses) /\ IsFiniteSet(Opening)
  BY <1>1, <1>2, FileAssumption, FS_Subset
<1> QED BY <1>3, FS_CardinalityType DEF Bounded

\* A step that changes one file, one fileclose() and one open() at most.
LEMMA InodesCounted ==
  ASSUME Inodes, NEW f, NEW p, InodeFiles' \ {f} = InodeFiles \ {f},
         InodeCloses' \ {p} = InodeCloses \ {p}, Opening' \ {p} = Opening \ {p},
         irefs' = (irefs + One(f \in InodeFiles') + One(p \in InodeCloses') + One(p \in Opening'))
                  - (One(f \in InodeFiles) + One(p \in InodeCloses) + One(p \in Opening))
  PROVE  Inodes'
<1>0. Bounded /\ Bounded'
  BY InodesFinite, PTL
<1>1. Cardinality(InodeFiles') + One(f \in InodeFiles) = Cardinality(InodeFiles) + One(f \in InodeFiles')
  BY <1>0, OneElement DEF Bounded
<1>2. Cardinality(InodeCloses') + One(p \in InodeCloses) = Cardinality(InodeCloses) + One(p \in InodeCloses')
  BY <1>0, OneElement DEF Bounded
<1>3. Cardinality(Opening') + One(p \in Opening) = Cardinality(Opening) + One(p \in Opening')
  BY <1>0, OneElement DEF Bounded
<1>4. \A x : One(x) \in Nat
  BY Zenon DEF One
<1>5. irefs' = Cardinality(InodeFiles') + Cardinality(InodeCloses') + Cardinality(Opening')
  BY <1>0, <1>1, <1>2, <1>3, <1>4 DEF Inodes, Bounded
<1> QED BY Zenon, <1>5 DEF Inodes

\* A step keeps the references to inodes counted.
LEMMA NextInodes ==
  ASSUME Inodes, Shape, NEW p \in FileProc, Effect(p)
  PROVE  Inodes'
<1>0. irefs \in Nat
  BY InodesFinite DEF Bounded, Inodes
<1>1. CASE Keeps
  <2>1. InodeFiles' = InodeFiles /\ InodeCloses' = InodeCloses
    BY Zenon, <1>1 DEF Keeps, contents, InodeFiles, InodeCloses
  <2> QED BY <1>1, <2>1 DEF Keeps, Inodes
<1>2. CASE Begins(p)
  <2>1. InodeFiles' = InodeFiles /\ InodeCloses' = InodeCloses
    BY Zenon, <1>2 DEF Begins, contents, InodeFiles, InodeCloses
  <2>2. /\ irefs' = irefs + 1 /\ p \notin Opening /\ p \in Opening'
        /\ Opening' \ {p} = Opening \ {p}
    BY Zenon, <1>2 DEF Begins
  <2> QED BY <1>0, <2>1, <2>2, InodesCounted DEF One
<1>3. ASSUME NEW f \in File, Hands(p, f) PROVE Inodes'
  <2>1. /\ ftype'[f] = "none" /\ \A g \in File \ {f} : ftype'[g] = ftype[g]
        /\ ff'[p].type = ftype[f] /\ \A r \in FileProc \ {p} : ff'[r] = ff[r]
        /\ ff[p].type = "none"
    BY <1>3 DEF Hands, Shape, NoFF
  <2>2. /\ f \notin InodeFiles' /\ p \notin InodeCloses /\ (f \in InodeFiles <=> p \in InodeCloses')
        /\ InodeFiles' \ {f} = InodeFiles \ {f} /\ InodeCloses' \ {p} = InodeCloses \ {p}
    BY Zenon, <2>1 DEF InodeFiles, InodeCloses
  <2>3. CASE UNCHANGED irefs /\ Opening' = Opening
    BY SMTT(30), <1>0, <2>2, <2>3, InodesCounted DEF One
  <2>4. CASE /\ ftype[f] = "none" /\ irefs' = irefs - 1
             /\ p \in Opening /\ Opening' = Opening \ {p}
    <3>1. f \notin InodeFiles /\ p \notin Opening' /\ Opening' \ {p} = Opening \ {p}
      BY Zenon, <2>4 DEF InodeFiles
    <3> QED BY SMTT(30), <1>0, <2>2, <2>4, <3>1, InodesCounted DEF One
  <2> QED BY <1>3, <2>3, <2>4 DEF Hands
<1>4. ASSUME NEW f \in File, Fulfils(p, f) PROVE Inodes'
  <2>1. /\ f \notin InodeFiles /\ f \in InodeFiles' /\ InodeFiles' \ {f} = InodeFiles \ {f}
    BY Zenon, <1>4 DEF Fulfils, InodeFiles, Shape
  <2>2. InodeCloses' = InodeCloses
    BY Zenon, <1>4 DEF Fulfils, InodeCloses
  <2>3. irefs' = irefs /\ p \in Opening /\ p \notin Opening' /\ Opening' \ {p} = Opening \ {p}
    BY Zenon, <1>4 DEF Fulfils
  <2> QED BY <1>0, <2>1, <2>2, <2>3, InodesCounted DEF One
<1>5. ASSUME NEW f \in File, NEW h \in File, NEW page \in pipefree, Makes(f, h, page) PROVE Inodes'
  <2>1. InodeFiles' = InodeFiles
    BY Zenon, <1>5 DEF Makes, InodeFiles, Shape
  <2>2. InodeCloses' = InodeCloses /\ irefs' = irefs /\ Opening' = Opening
    BY Zenon, <1>5 DEF Makes, InodeCloses
  <2> QED BY Zenon, <2>1, <2>2 DEF Inodes
<1>6. CASE fileclose_last(p)
  <2>1. InodeFiles' = InodeFiles /\ Opening' = Opening
    BY Zenon, <1>6 DEF fileclose_last, InodeFiles, Opening
  <2>2. ff'[p].type = "none" /\ \A r \in FileProc \ {p} : ff'[r] = ff[r]
    BY Zenon, <1>6 DEF fileclose_last, Shape, NoFF
  <2>3. /\ p \notin InodeCloses' /\ InodeCloses' \ {p} = InodeCloses \ {p}
        /\ p \in InodeCloses <=> ff[p].type = "inode"
    BY Zenon, <2>2 DEF InodeCloses
  <2>4. irefs' = irefs - One(p \in InodeCloses)
    <3>1. CASE ff[p].type = "inode"
      BY <1>6, <2>3, <3>1 DEF fileclose_last, One
    <3>2. CASE ff[p].type # "inode"
      BY <1>0, <1>6, <2>3, <3>2 DEF fileclose_last, One
    <3> QED BY Zenon, <3>1, <3>2
  <2> QED BY <1>0, <2>1, <2>3, <2>4, InodesCounted DEF One
<1> QED BY ZenonT(30), <1>1, <1>2, <1>3, <1>4, <1>5, <1>6 DEF Effect

-----------------------------------------------------------------------------
IInv == Table /\ PipesInv /\ Inodes

\* An empty table, and one process (file.c:19-23, proc.c:124-166).
LEMMA InitIInv == FtableInit => IInv
<1> SUFFICES ASSUME FtableInit PROVE IInv
  BY Zenon
<1> USE FileAssumption DEF FtableInit
<1>1. Shape
  BY DEF Shape, FileProc, FileType, Loc, NoFF
<1>2. Owners
  BY Zenon DEF Owners, Place
<1>3. Births
  BY Zenon DEF Births
<1>4. RefsCounted
  <2>1. ASSUME NEW f \in File PROVE FileRefs(f) = 0
    <3>1. Held(f) = {} /\ New0(f) = {} /\ New1(f) = {}
      BY Zenon DEF Held, New0, New1
    <3> QED BY <3>1, PointersFinite, FS_EmptySet DEF Countable
  <2> QED BY Zenon, <2>1 DEF RefsCounted
<1>5. PipesInv
  <2>1. ASSUME NEW end \in {"r", "w"}, NEW page
        PROVE  /\ \A f \in File : ~ByFile(f, end, page)
               /\ \A p \in FileProc : ~ByClose(p, end, page)
    BY Zenon DEF ByFile, ByClose, NoFF
  <2>2. Ends
    BY Zenon, <2>1 DEF Ends, Uses
  <2>3. OneUser
    BY Zenon, <2>1 DEF OneUser
  <2>4. Pages
    BY Zenon DEF Pages, NoFF
  <2> QED BY Zenon, <2>2, <2>3, <2>4 DEF PipesInv
<1>6. Inodes
  <2>1. InodeFiles = {} /\ InodeCloses = {} /\ Opening = {}
    BY Zenon DEF InodeFiles, InodeCloses, Opening, NoFF
  <2> QED BY <2>1, FS_EmptySet DEF Inodes
<1> QED BY SMTT(30), <1>1, <1>2, <1>3, <1>4, <1>5, <1>6 DEF IInv, Table

\* Every step keeps the invariant.
LEMMA NextIInv == IInv /\ [FtableNext]_ftableVars => IInv'
<1> SUFFICES ASSUME IInv, [FtableNext]_ftableVars PROVE IInv'
  BY Zenon
<1>0. Table /\ PipesInv /\ Inodes /\ Shape /\ pipefree \subseteq PipePage
  BY Zenon DEF IInv, Table, PipesInv, Pages
<1>1. Table'
  BY Zenon, <1>0, NextTable
<1>2. CASE UNCHANGED ftableVars
  <2>1. PipesInv'
    BY <1>0, <1>2, SamePipes DEF ftableVars
  <2>2. InodeFiles' = InodeFiles /\ InodeCloses' = InodeCloses /\ Opening' = Opening /\ irefs' = irefs
    BY Zenon, <1>2 DEF ftableVars, InodeFiles, InodeCloses, Opening
  <2>3. Inodes'
    BY Zenon, <1>0, <2>2 DEF Inodes
  <2> QED BY <1>1, <2>1, <2>3 DEF IInv
<1>3. CASE FtableNext
  <2>1. PICK p \in FileProc : Effect(p)
    BY <1>0, <1>3, PipeEffect, OpenEffect, CallEffect, ZenonT(30) DEF FtableNext, Effect
  <2> QED BY <1>0, <1>1, <2>1, NextPipes, NextInodes DEF IInv
<1> QED BY Zenon, <1>2, <1>3

\* The counts of at most NPROC processes with NOFILE descriptors and two local
\* variables each.
LEMMA CountsBounded ==
  ASSUME NEW m \in Nat, NEW n \in Nat, NEW a \in 0 .. n * m, NEW b \in 0 .. n, NEW c \in 0 .. n
  PROVE  a + b + c \in 0 .. n * (m + 2)
<1>1. n * (m + 2) = n * m + 2 * n /\ n * m \in Nat
  OBVIOUS
<1> QED BY <1>1

\* The invariant says what FilesCounted says.
LEMMA IInvCounts == IInv => FilesCounted
<1> SUFFICES ASSUME IInv PROVE FilesCounted
  BY Zenon
<1>0. Shape /\ Owners /\ RefsCounted /\ Ends /\ Pages /\ Inodes
  BY Zenon DEF IInv, Table, PipesInv
<1>1. ASSUME NEW f \in File PROVE fref[f] \in 0 .. NFileProc * (NOFILE + 2)
  <2>1. /\ Cardinality(Held(f)) \in 0 .. NFileProc * NOFILE
        /\ Cardinality(New0(f)) \in 0 .. NFileProc /\ Cardinality(New1(f)) \in 0 .. NFileProc
        /\ FileRefs(f) = Cardinality(Held(f)) + Cardinality(New0(f)) + Cardinality(New1(f))
    BY Zenon, PointersFinite DEF Countable
  <2>2. NOFILE \in Nat /\ NFileProc \in Nat
    BY Zenon, FileAssumption
  <2>3. FileRefs(f) \in 0 .. NFileProc * (NOFILE + 2)
    BY <2>1, <2>2, CountsBounded
  <2> QED BY Zenon, <1>0, <2>3 DEF RefsCounted
<1>2. FtableTypeOK
  <2>1. irefs \in Nat
    BY <1>0, InodesFinite DEF Bounded, Inodes
  <2>2. fref \in [File -> 0 .. NFileProc * (NOFILE + 2)]
    BY Zenon, <1>0, <1>1 DEF Shape
  <2> QED BY <1>0, <2>1, <2>2 DEF FtableTypeOK, Shape, Pages, FileType
<1>3. \A f \in File : ftype[f] # "none" => fref[f] > 0
  BY <1>0 DEF Owners, Shape
<1>4. EndsMatchFiles
  <2>1. ASSUME NEW end \in {"r", "w"}, NEW page \in PipePage PROVE EndUsed(page, end) <=> Uses(end, page)
    <3>1. \A p \in FileProc : ff[p] = [type |-> end, page |-> page] <=> ByClose(p, end, page)
      BY <1>0 DEF ByClose, Shape
    <3>2. \A f \in File : fref[f] > 0 /\ ftype[f] = end /\ fpage[f] = page <=> ByFile(f, end, page)
      BY Zenon, <1>3 DEF ByFile
    <3> QED BY Zenon, <3>1, <3>2 DEF EndUsed, Uses
  <2> QED BY Zenon, <1>0, <2>1 DEF EndsMatchFiles, Ends, Owners
<1>5. InodeRefs
  <2>1. {f \in File : fref[f] > 0 /\ ftype[f] = "inode"} = InodeFiles
    BY Zenon, <1>3 DEF InodeFiles
  <2> QED BY Zenon, <1>0, <2>1 DEF InodeRefs, Inodes, InodeCloses, Opening
<1> QED BY <1>0, <1>2, <1>4, <1>5 DEF FilesCounted

\* f->ref is the number of pointers to f at every step, an end of a pipe is
\* open exactly while a file or an unfinished fileclose() has it, its page is
\* free exactly when both ends are closed, and the references to inodes are
\* those of the open files and of the calls in progress (file.c, pipe.c:22-75,
\* sysfile.c, proc.c:181-270): for any table, any number of descriptors,
\* processes and pages.
THEOREM FilesCountedHolds == FtableSpec => []FilesCounted
<1>1. FtableInit => IInv
  BY Zenon, InitIInv
<1>2. IInv /\ [FtableNext]_ftableVars => IInv'
  BY Zenon, NextIInv
<1>3. IInv => FilesCounted
  BY Zenon, IInvCounts
<1> QED BY <1>1, <1>2, <1>3, PTL DEF FtableSpec
=============================================================================
