----------------------------- MODULE FtableTable ----------------------------
(***************************************************************************)
(* The counts of the open-file table hold for every number of files,       *)
(* descriptors, processes and pipes.                                       *)
(***************************************************************************)
EXTENDS Ftable, FiniteSetTheorems, WellFoundedInduction, TLAPS

One(b) == IF b THEN 1 ELSE 0

\* The three sets of pointers that FileRefs() counts.
Held(f) == {x \in FileProc \X FD : ofile[x[1]][x[2]] = f}
New0(f) == {p \in FileProc : f0[p] = f /\ fpc[p] # "rw"}
New1(f) == {p \in FileProc : f1[p] = f}

-----------------------------------------------------------------------------
\* Counting, as filedup() and fileclose() do it (file.c:48-82): a set that
\* changes at one element changes its size by at most one.
LEMMA OneElement ==
  ASSUME NEW S, NEW T, NEW x, IsFiniteSet(S), IsFiniteSet(T), S \ {x} = T \ {x}
  PROVE  /\ Cardinality(S) \in Nat /\ Cardinality(T) \in Nat
         /\ Cardinality(T) + One(x \in S) = Cardinality(S) + One(x \in T)
<1>1. Cardinality(S) \in Nat /\ Cardinality(T) \in Nat
  BY Zenon, FS_CardinalityType
<1>2. Cardinality(S \ {x}) = IF x \in S THEN Cardinality(S) - 1 ELSE Cardinality(S)
  BY Zenon, FS_RemoveElement
<1>3. Cardinality(T \ {x}) = IF x \in T THEN Cardinality(T) - 1 ELSE Cardinality(T)
  BY Zenon, FS_RemoveElement
<1> QED
  BY <1>1, <1>2, <1>3 DEF One

Countable == \A f \in File :
  /\ IsFiniteSet(Held(f)) /\ IsFiniteSet(New0(f)) /\ IsFiniteSet(New1(f))
  /\ Cardinality(Held(f)) \in 0 .. NFileProc * NOFILE
  /\ Cardinality(New0(f)) \in 0 .. NFileProc /\ Cardinality(New1(f)) \in 0 .. NFileProc
  /\ FileRefs(f) = Cardinality(Held(f)) + Cardinality(New0(f)) + Cardinality(New1(f))
\* The pointers to a file are finitely many: NPROC processes have NOFILE
\* descriptors each (param.h:1-5).
LEMMA PointersFinite == Countable
<1> SUFFICES ASSUME NEW f \in File
             PROVE  /\ IsFiniteSet(Held(f)) /\ IsFiniteSet(New0(f)) /\ IsFiniteSet(New1(f))
                    /\ Cardinality(Held(f)) \in 0 .. NFileProc * NOFILE
                    /\ Cardinality(New0(f)) \in 0 .. NFileProc /\ Cardinality(New1(f)) \in 0 .. NFileProc
                    /\ FileRefs(f) = Cardinality(Held(f)) + Cardinality(New0(f)) + Cardinality(New1(f))
  BY Zenon DEF Countable
<1>1. IsFiniteSet(FileProc) /\ Cardinality(FileProc) = NFileProc
  BY FileAssumption, FS_Interval DEF FileProc
<1>2. IsFiniteSet(FD) /\ Cardinality(FD) = NOFILE
  BY FileAssumption, FS_Interval DEF FD
<1>3. IsFiniteSet(FileProc \X FD) /\ Cardinality(FileProc \X FD) = NFileProc * NOFILE
  BY Zenon, <1>1, <1>2, FS_Product
<1>4. /\ Held(f) \in SUBSET (FileProc \X FD)
      /\ New0(f) \in SUBSET FileProc /\ New1(f) \in SUBSET FileProc
  BY Zenon DEF Held, New0, New1
<1>5. /\ IsFiniteSet(Held(f)) /\ Cardinality(Held(f)) <= NFileProc * NOFILE
      /\ IsFiniteSet(New0(f)) /\ Cardinality(New0(f)) <= NFileProc
      /\ IsFiniteSet(New1(f)) /\ Cardinality(New1(f)) <= NFileProc
  BY Zenon, <1>1, <1>3, <1>4, FS_Subset
<1>6. Cardinality(Held(f)) \in Nat /\ Cardinality(New0(f)) \in Nat /\ Cardinality(New1(f)) \in Nat
  BY Zenon, <1>5, FS_CardinalityType
<1>7. NFileProc * NOFILE \in Nat
  BY FileAssumption
<1>8. FileRefs(f) = Cardinality(Held(f)) + Cardinality(New0(f)) + Cardinality(New1(f))
  BY Zenon DEF FileRefs, Held, New0, New1
<1> QED
  BY <1>5, <1>6, <1>7, <1>8, FileAssumption

\* What the locals of p contribute to the count of f (pipealloc(), sys_open()).
Calls(p, f) == One(f0[p] = f /\ fpc[p] # "rw") + One(f1[p] = f)

\* The other processes' locals are left alone.
Own(p) == \A r \in FileProc \ {p} : UNCHANGED <<fpc[r], f0[r], f1[r]>>

\* A step of p changes the pointers to f among its own locals, pipe.c:29.
LEMMA CallsCounted ==
  ASSUME NEW p \in FileProc, NEW f \in File, Own(p)
  PROVE  /\ Cardinality(New0(f)) \in Nat /\ Cardinality(New0(f)') \in Nat
         /\ Cardinality(New1(f)) \in Nat /\ Cardinality(New1(f)') \in Nat
         /\ Cardinality(New0(f)') + Cardinality(New1(f)') + Calls(p, f)
            = Cardinality(New0(f)) + Cardinality(New1(f)) + Calls(p, f)'
<1>0. Countable /\ Countable'
  BY PointersFinite, PTL
<1>1. /\ IsFiniteSet(New0(f)) /\ IsFiniteSet(New1(f))
      /\ IsFiniteSet(New0(f)') /\ IsFiniteSet(New1(f)')
  BY Zenon, <1>0 DEF Countable
<1>2. New0(f) \ {p} = New0(f)' \ {p} /\ New1(f) \ {p} = New1(f)' \ {p}
  BY Zenon DEF New0, New1, Own
<1>3. /\ (p \in New0(f) <=> f0[p] = f /\ fpc[p] # "rw") /\ (p \in New1(f) <=> f1[p] = f)
      /\ (p \in New0(f)' <=> f0'[p] = f /\ fpc'[p] # "rw") /\ (p \in New1(f)' <=> f1'[p] = f)
  BY Zenon DEF New0, New1
<1>4. /\ Cardinality(New0(f)) \in Nat /\ Cardinality(New0(f)') \in Nat
      /\ Cardinality(New0(f)') + One(p \in New0(f)) = Cardinality(New0(f)) + One(p \in New0(f)')
  BY Zenon, <1>1, <1>2, OneElement
<1>5. /\ Cardinality(New1(f)) \in Nat /\ Cardinality(New1(f)') \in Nat
      /\ Cardinality(New1(f)') + One(p \in New1(f)) = Cardinality(New1(f)) + One(p \in New1(f)')
  BY Zenon, <1>1, <1>2, OneElement
<1> QED
  BY <1>3, <1>4, <1>5 DEF Calls, One

\* A step of p that leaves the descriptors to f alone (pipealloc(), sys_read()).
LEMMA LocalStep ==
  ASSUME NEW p \in FileProc, NEW f \in File, Own(p), Held(f)' = Held(f)
  PROVE  /\ FileRefs(f) \in Nat /\ FileRefs(f)' \in Nat
         /\ FileRefs(f)' + Calls(p, f) = FileRefs(f) + Calls(p, f)'
<1>0. Countable /\ Countable'
  BY PointersFinite, PTL
<1>1. /\ Cardinality(Held(f)') = Cardinality(Held(f)) /\ Cardinality(Held(f)) \in Nat
      /\ FileRefs(f) = Cardinality(Held(f)) + Cardinality(New0(f)) + Cardinality(New1(f))
      /\ FileRefs(f)' = Cardinality(Held(f)') + Cardinality(New0(f)') + Cardinality(New1(f)')
  BY <1>0 DEF Countable
<1>2. Calls(p, f) \in Nat /\ Calls(p, f)' \in Nat
  BY DEF Calls, One
<1> QED
  BY <1>1, <1>2, CallsCounted

\* Of the descriptors that name f only d of q may change.
OnlyAt(f, q, d) == \A r \in FileProc, e \in FD :
  r # q \/ e # d => (ofile'[r][e] = f <=> ofile[r][e] = f)
Recounted(p, f, q, d) ==
  /\ FileRefs(f) \in Nat /\ FileRefs(f)' \in Nat
  /\ FileRefs(f)' + Calls(p, f) + One(ofile[q][d] = f)
     = FileRefs(f) + Calls(p, f)' + One(ofile'[q][d] = f)
\* A step of p that may change descriptor d of process q (fdalloc(), fork()).
LEMMA DescriptorStep ==
  ASSUME NEW p \in FileProc, NEW f \in File, Own(p), NEW q \in FileProc, NEW d \in FD, OnlyAt(f, q, d)
  PROVE  Recounted(p, f, q, d)
<1>0. Countable /\ Countable'
  BY PointersFinite, PTL
<1>1. /\ IsFiniteSet(Held(f)) /\ IsFiniteSet(Held(f)')
      /\ FileRefs(f) = Cardinality(Held(f)) + Cardinality(New0(f)) + Cardinality(New1(f))
      /\ FileRefs(f)' = Cardinality(Held(f)') + Cardinality(New0(f)') + Cardinality(New1(f)')
  BY Zenon, <1>0 DEF Countable
<1>2. Held(f) \ {<<q, d>>} = Held(f)' \ {<<q, d>>}
  BY DEF Held, OnlyAt
<1>3. (<<q, d>> \in Held(f) <=> ofile[q][d] = f) /\ (<<q, d>> \in Held(f)' <=> ofile'[q][d] = f)
  BY Zenon DEF Held
<1>4. /\ Cardinality(Held(f)) \in Nat /\ Cardinality(Held(f)') \in Nat
      /\ Cardinality(Held(f)') + One(<<q, d>> \in Held(f))
         = Cardinality(Held(f)) + One(<<q, d>> \in Held(f)')
  BY Zenon, <1>1, <1>2, OneElement
<1>5. Calls(p, f) \in Nat /\ Calls(p, f)' \in Nat
  BY DEF Calls, One
<1>6. One(ofile[q][d] = f) = One(<<q, d>> \in Held(f)) /\ One(ofile'[q][d] = f) = One(<<q, d>> \in Held(f)')
  BY Zenon, <1>3 DEF One
<1>7. One(ofile[q][d] = f) \in Nat /\ One(ofile'[q][d] = f) \in Nat
  BY Zenon DEF One
<1> QED
  BY <1>1, <1>4, <1>5, <1>6, <1>7, CallsCounted DEF Recounted

-----------------------------------------------------------------------------
\* A set of at most one element.
LEMMA NoSecond ==
  ASSUME NEW S, IsFiniteSet(S), Cardinality(S) <= 1, NEW x \in S, NEW y \in S
  PROVE  x = y
<1>1. Cardinality(S) # 0
  BY Zenon, FS_EmptySet
<1>2. Cardinality(S) = 1
  BY <1>1, FS_CardinalityType
<1> QED
  BY <1>2, FS_Singleton

\* filealloc() takes an entry that nobody points to (file.c:33-39).
LEMMA Unused ==
  ASSUME NEW f \in File, RefsCounted, fref[f] = 0
  PROVE  /\ \A q \in FileProc, d \in FD : ofile[q][d] # f
         /\ \A q \in FileProc : f1[q] # f /\ ~(f0[q] = f /\ fpc[q] # "rw")
<1>0. /\ IsFiniteSet(Held(f)) /\ IsFiniteSet(New0(f)) /\ IsFiniteSet(New1(f))
      /\ Cardinality(Held(f)) \in Nat /\ Cardinality(New0(f)) \in Nat /\ Cardinality(New1(f)) \in Nat
      /\ Cardinality(Held(f)) + Cardinality(New0(f)) + Cardinality(New1(f)) = 0
  BY PointersFinite DEF Countable, RefsCounted
<1>1. Cardinality(Held(f)) = 0 /\ Cardinality(New0(f)) = 0 /\ Cardinality(New1(f)) = 0
  BY <1>0
<1>2. Held(f) = {} /\ New0(f) = {} /\ New1(f) = {}
  BY Zenon, <1>0, <1>1, FS_EmptySet
<1>3. ASSUME NEW q \in FileProc, NEW d \in FD, ofile[q][d] = f PROVE FALSE
  <2>1. <<q, d>> \in Held(f)
    BY Zenon, <1>3 DEF Held
  <2> QED
    BY Zenon, <2>1, <1>2
<1>4. \A q \in FileProc : f1[q] # f /\ ~(f0[q] = f /\ fpc[q] # "rw")
  BY Zenon, <1>2 DEF New0, New1
<1> QED
  BY Zenon, <1>3, <1>4

\* The last fileclose() of a file is that of the only pointer to it, in a
\* call's local variable (pipe.c:52-55, sysfile.c:320) ...
LEMMA OnlyLocal ==
  ASSUME NEW f \in File, RefsCounted, fref[f] = 1, NEW p \in FileProc,
         f1[p] = f \/ (f0[p] = f /\ fpc[p] # "rw")
  PROVE  /\ \A q \in FileProc, d \in FD : ofile[q][d] # f
         /\ \A q \in FileProc \ {p} : f1[q] # f /\ ~(f0[q] = f /\ fpc[q] # "rw")
<1>0. /\ IsFiniteSet(Held(f)) /\ IsFiniteSet(New0(f)) /\ IsFiniteSet(New1(f))
      /\ Cardinality(Held(f)) \in Nat /\ Cardinality(New0(f)) \in Nat /\ Cardinality(New1(f)) \in Nat
      /\ Cardinality(Held(f)) + Cardinality(New0(f)) + Cardinality(New1(f)) = 1
  BY PointersFinite DEF Countable, RefsCounted
<1>1. p \in New0(f) \/ p \in New1(f)
  BY Zenon DEF New0, New1
<1>2. Cardinality(New0(f)) # 0 \/ Cardinality(New1(f)) # 0
  BY Zenon, <1>0, <1>1, FS_EmptySet
<1>3. /\ Cardinality(Held(f)) = 0 /\ Cardinality(New0(f)) <= 1 /\ Cardinality(New1(f)) <= 1
      /\ Cardinality(New0(f)) = 0 \/ Cardinality(New1(f)) = 0
  BY <1>0, <1>2
<1>4. Held(f) = {} /\ (New0(f) = {} \/ New1(f) = {})
  BY Zenon, <1>0, <1>3, FS_EmptySet
<1>5. ASSUME NEW q \in FileProc, NEW d \in FD, ofile[q][d] = f PROVE FALSE
  <2>1. <<q, d>> \in Held(f)
    BY Zenon, <1>5 DEF Held
  <2> QED
    BY Zenon, <2>1, <1>4
<1>6. ASSUME NEW q \in FileProc, q \in New0(f) \/ q \in New1(f) PROVE q = p
  BY Zenon, <1>0, <1>1, <1>3, <1>4, <1>6, NoSecond
<1>7. \A q \in FileProc \ {p} : f1[q] # f /\ ~(f0[q] = f /\ fpc[q] # "rw")
  BY Zenon, <1>6 DEF New0, New1
<1> QED
  BY Zenon, <1>5, <1>7

\* ... or in a descriptor (sysfile.c:102, proc.c:241-246).
LEMMA OnlyDescriptor ==
  ASSUME NEW f \in File, RefsCounted, fref[f] = 1, NEW p \in FileProc, NEW d \in FD, ofile[p][d] = f
  PROVE  /\ \A q \in FileProc, e \in FD : ofile[q][e] = f => q = p /\ e = d
         /\ \A q \in FileProc : f1[q] # f /\ ~(f0[q] = f /\ fpc[q] # "rw")
<1>0. /\ IsFiniteSet(Held(f)) /\ IsFiniteSet(New0(f)) /\ IsFiniteSet(New1(f))
      /\ Cardinality(Held(f)) \in Nat /\ Cardinality(New0(f)) \in Nat /\ Cardinality(New1(f)) \in Nat
      /\ Cardinality(Held(f)) + Cardinality(New0(f)) + Cardinality(New1(f)) = 1
  BY PointersFinite DEF Countable, RefsCounted
<1>1. <<p, d>> \in Held(f)
  BY Zenon DEF Held
<1>2. Cardinality(Held(f)) # 0
  BY Zenon, <1>0, <1>1, FS_EmptySet
<1>3. Cardinality(Held(f)) <= 1 /\ Cardinality(New0(f)) = 0 /\ Cardinality(New1(f)) = 0
  BY <1>0, <1>2
<1>4. New0(f) = {} /\ New1(f) = {}
  BY Zenon, <1>0, <1>3, FS_EmptySet
<1>5. ASSUME NEW q \in FileProc, NEW e \in FD, ofile[q][e] = f PROVE q = p /\ e = d
  <2>1. <<q, e>> \in Held(f)
    BY Zenon, <1>5 DEF Held
  <2>2. <<q, e>> = <<p, d>>
    BY Zenon, <2>1, <1>0, <1>1, <1>3, NoSecond
  <2> QED
    BY Zenon, <2>2
<1>6. \A q \in FileProc : f1[q] # f /\ ~(f0[q] = f /\ fpc[q] # "rw")
  BY Zenon, <1>4 DEF New0, New1
<1> QED
  BY Zenon, <1>5, <1>6

-----------------------------------------------------------------------------
\* The scan of fdalloc() finds a lowest free descriptor (sysfile.c:45-50).
LEMMA Least ==
  ASSUME NEW S, S \subseteq Nat, S # {}
  PROVE  \E x \in S : \A y \in S : x <= y
<1>1. PICK x \in S : \A y \in S : <<y, x>> \notin OpToRel(<, Nat)
  BY NatLessThanWellFounded, WFMin, Zenon
<1>2. \A y \in S : ~(y < x)
  BY <1>1, Zenon DEF OpToRel
<1> QED
  BY <1>2

\* fdalloc() returns a descriptor that is free.
LEMMA FreeFound ==
  ASSUME NEW p, FreeFD(p) # {}
  PROVE  fdalloc(p) \in FD /\ ofile[p][fdalloc(p)] = NoFile
<1>1. FreeFD(p) \subseteq Nat /\ FreeFD(p) \subseteq FD
  BY FileAssumption DEF FreeFD, FD
<1>2. \E d \in FreeFD(p) : \A e \in FreeFD(p) : d <= e
  BY Zenon, <1>1, Least
<1>3. fdalloc(p) \in FreeFD(p)
  BY <1>2, Zenon DEF fdalloc
<1> QED
  BY <1>3, Zenon DEF FreeFD

-----------------------------------------------------------------------------
Loc == {"user", "pipe_f1", "pipe_kalloc", "pipe_fd", "bad", "open_fd", "rw", "fork", "exit"}
FileType == {"none", "r", "w", "inode"}

Shape ==
  /\ fref \in [File -> Nat] /\ ftype \in [File -> FileType]
  /\ fpage \in [File -> PipePage \cup {NoFile}]
  /\ ofile \in [FileProc -> [FD -> File \cup {NoFile}]]
  /\ alive \subseteq FileProc /\ fpc \in [FileProc -> Loc]
  /\ f0 \in [FileProc -> File \cup {NoFile}] /\ f1 \in [FileProc -> File \cup {NoFile}]
  /\ ff \in [FileProc -> [type : FileType, page : PipePage \cup {NoFile}]]
  /\ fchild \in [FileProc -> FileProc \cup {0}] /\ nfd \in [FileProc -> 0 .. NOFILE]

\* What the local variables of p are where it is: a file that it has allocated
\* and not yet given to a descriptor is its own, and has no contents before
\* the call fills it in.
Place(p) ==
  /\ fpc[p] \in {"user", "fork", "exit"} => f0[p] = NoFile
  /\ fpc[p] \in {"pipe_f1", "pipe_kalloc", "pipe_fd", "open_fd", "rw"} => f0[p] # NoFile
  /\ f1[p] # NoFile => fpc[p] \in {"pipe_kalloc", "pipe_fd", "bad"}
  /\ fpc[p] \in {"pipe_kalloc", "pipe_fd"} => f1[p] # NoFile
  /\ f0[p] # NoFile /\ fpc[p] # "rw" => fref[f0[p]] = 1 /\ f0[p] # f1[p]
  /\ f1[p] # NoFile => fref[f1[p]] = 1
  /\ fpc[p] \in {"pipe_f1", "pipe_kalloc", "open_fd"} => ftype[f0[p]] = "none"
  /\ fpc[p] = "pipe_kalloc" => ftype[f1[p]] = "none"
  /\ fpc[p] = "pipe_fd" => ftype[f0[p]] = "r" /\ ftype[f1[p]] = "w"

Owners ==
  /\ \A p \in FileProc : Place(p)
  /\ \A f \in File : fref[f] = 0 => ftype[f] = "none"
  /\ \A p \in FileProc, d \in FD : ofile[p][d] # NoFile => ftype[ofile[p][d]] # "none"

\* A child that fork() has not finished is nobody else's, and has the
\* descriptors below nfd; a process that is gone has none.
Births ==
  /\ \A p \in FileProc : fchild[p] # 0 <=> fpc[p] = "fork"
  /\ \A p \in FileProc : fchild[p] # 0 => fchild[p] \notin alive
  /\ \A p, q \in FileProc : fchild[p] # 0 /\ fchild[p] = fchild[q] => p = q
  /\ \A q \in FileProc \ alive : fpc[q] = "user" /\ ff[q] = NoFF
  /\ \A q \in FileProc \ alive, d \in FD :
        ofile[q][d] # NoFile => \E p \in FileProc : fchild[p] = q /\ d < nfd[p]

\* The part of the invariant that says who points to what.
Table == Shape /\ Owners /\ Births /\ RefsCounted

-----------------------------------------------------------------------------
\* A step of p leaves the other calls' files alone.
LEMMA OthersKeep ==
  ASSUME Shape, Owners, NEW p \in FileProc, Own(p), NEW G,
         \A f \in File \ G : UNCHANGED <<fref[f], ftype[f]>>,
         \A q \in FileProc \ {p} : f1[q] \notin G /\ (f0[q] \in G => fpc[q] = "rw")
  PROVE  \A q \in FileProc \ {p} : Place(q)'
<1> SUFFICES ASSUME NEW q \in FileProc, q # p PROVE Place(q)'
  BY Zenon
<1>1. /\ Place(q) /\ UNCHANGED <<fpc[q], f0[q], f1[q]>>
      /\ f0[q] \in File \cup {NoFile} /\ f1[q] \in File \cup {NoFile}
  BY Zenon DEF Owners, Own, Shape
<1>2. f1[q] # NoFile => UNCHANGED <<fref[f1[q]], ftype[f1[q]]>>
  BY Zenon, <1>1
<1>3. f0[q] # NoFile /\ fpc[q] # "rw" => UNCHANGED <<fref[f0[q]], ftype[f0[q]]>>
  BY Zenon, <1>1
<1> QED
  BY Zenon, <1>1, <1>2, <1>3 DEF Place

\* A step of a process that neither forks nor ends.
LEMMA BirthsKept ==
  ASSUME Births, NEW p \in alive, UNCHANGED <<alive, fchild, nfd>>,
         \A r \in FileProc \ {p} : UNCHANGED <<fpc[r], ff[r], ofile[r]>>,
         fpc'[p] = "fork" <=> fpc[p] = "fork"
  PROVE  Births'
<1>1. /\ (\A q \in FileProc : fchild[q] # 0 <=> fpc[q] = "fork")'
      /\ (\A q \in FileProc : fchild[q] # 0 => fchild[q] \notin alive)'
      /\ (\A q, r \in FileProc : fchild[q] # 0 /\ fchild[q] = fchild[r] => q = r)'
  BY DEF Births
<1>2. (\A q \in FileProc \ alive : fpc[q] = "user" /\ ff[q] = NoFF)'
  BY Zenon DEF Births
<1>3. (\A q \in FileProc \ alive, d \in FD :
         ofile[q][d] # NoFile => \E r \in FileProc : fchild[r] = q /\ d < nfd[r])'
  BY DEF Births
<1> QED
  BY Zenon, <1>1, <1>2, <1>3 DEF Births

tableVars == <<fref, ftype, fpage, ofile, alive, fpc, f0, f1, ff, fchild, nfd>>

\* Steps that change no file, descriptor or local variable.
LEMMA SameTable == Table /\ UNCHANGED tableVars => Table'
<1> SUFFICES ASSUME Table, UNCHANGED tableVars PROVE Table'
  BY Zenon
<1>0. /\ UNCHANGED fref /\ UNCHANGED ftype /\ UNCHANGED fpage /\ UNCHANGED ofile /\ UNCHANGED alive
      /\ UNCHANGED fpc /\ UNCHANGED f0 /\ UNCHANGED f1 /\ UNCHANGED ff /\ UNCHANGED fchild /\ UNCHANGED nfd
  BY Zenon DEF tableVars
<1>1. Shape'
  BY Zenon, <1>0 DEF Table, Shape
<1>2. Owners'
  BY Zenon, <1>0 DEF Table, Owners, Place
<1>3. Births'
  BY <1>0 DEF Table, Births
<1>4. \A f \in File : FileRefs(f)' = FileRefs(f)
  BY Zenon, <1>0 DEF FileRefs
<1>5. RefsCounted'
  BY Zenon, <1>0, <1>4 DEF Table, RefsCounted
<1> QED
  BY Zenon, <1>1, <1>2, <1>3, <1>5 DEF Table

\* What the invariant says of one process.
LEMMA Facts ==
  ASSUME Table, NEW p \in FileProc
  PROVE  /\ Shape /\ Owners /\ Births /\ RefsCounted /\ Place(p)
         /\ f0[p] \in File \cup {NoFile} /\ f1[p] \in File \cup {NoFile}
  BY Zenon DEF Table, Owners, Shape

\* Only the locals and the program counter of p change in a step of its.
LEMMA OwnStep ==
  ASSUME Shape, NEW p \in FileProc, NEW to, Go(p, to),
         f0' = f0 \/ \E f : f0' = [f0 EXCEPT ![p] = f],
         f1' = f1 \/ \E f : f1' = [f1 EXCEPT ![p] = f]
  PROVE  Own(p) /\ fpc'[p] = to /\ \A r \in FileProc \ {p} : fpc'[r] = fpc[r]
  BY Zenon DEF Shape, Go, Own

\* filealloc() for the first file of pipe() or for open() (pipe.c:29,
\* sysfile.c:317).
LEMMA TakesFirst ==
  ASSUME Table, NEW p \in FileProc, In(p, "user"), NEW f \in File, fref[f] = 0,
         fref' = [fref EXCEPT ![f] = 1], f0' = [f0 EXCEPT ![p] = f],
         NEW to \in {"pipe_f1", "open_fd"}, Go(p, to),
         UNCHANGED <<ftype, fpage, ofile, alive, f1, ff, fchild, nfd>>
  PROVE  Table'
<1>0. /\ Shape /\ Owners /\ Births /\ RefsCounted /\ p \in alive /\ fpc[p] = "user"
      /\ f0[p] = NoFile /\ f1[p] = NoFile
  BY Zenon, Facts DEF Place, In
<1>a. Own(p) /\ fpc'[p] = to /\ \A r \in FileProc \ {p} : fpc'[r] = fpc[r]
  BY Zenon, <1>0, OwnStep
<1>b. /\ f0'[p] = f /\ f1'[p] = NoFile /\ fref'[f] = 1 /\ ftype'[f] = "none" /\ f # NoFile
      /\ \A g \in File \ {f} : UNCHANGED <<fref[g], ftype[g]>>
  BY Zenon, <1>0, FileAssumption DEF Shape, Owners
<1>1. /\ \A q \in FileProc, d \in FD : ofile[q][d] # f
      /\ \A q \in FileProc : f1[q] # f /\ ~(f0[q] = f /\ fpc[q] # "rw")
  BY Zenon, <1>0, Unused
<1>2. Shape'
  BY Zenon, <1>0 DEF Shape, Go, Loc
<1>3. Place(p)'
  BY Zenon, <1>a, <1>b DEF Place
<1>4. \A q \in FileProc \ {p} : Place(q)'
  <2>1. \A q \in FileProc \ {p} : f1[q] \notin {f} /\ (f0[q] \in {f} => fpc[q] = "rw")
    BY Zenon, <1>1
  <2> QED
    BY <1>0, <1>a, <1>b, <2>1, OthersKeep, ZenonT(30)
<1>5. Owners'
  BY Zenon, <1>0, <1>3, <1>4, <1>b DEF Owners
<1>6. Births'
  BY Zenon, <1>0, <1>a, BirthsKept
<1>7. ASSUME NEW g \in File PROVE fref'[g] = FileRefs(g)'
  <2>1. Held(g)' = Held(g)
    BY Zenon DEF Held
  <2>2. /\ FileRefs(g) \in Nat /\ FileRefs(g)' \in Nat
        /\ FileRefs(g)' + Calls(p, g) = FileRefs(g) + Calls(p, g)'
    BY Zenon, <1>a, <2>1, LocalStep
  <2>3. Calls(p, g) = 0 /\ Calls(p, g)' = One(g = f)
    BY <1>0, <1>a, <1>b, FileAssumption DEF Calls, One
  <2>4. fref[g] = FileRefs(g) /\ fref'[g] = IF g = f THEN 1 ELSE fref[g]
    BY Zenon, <1>0, <1>b DEF RefsCounted
  <2> QED
    BY <2>2, <2>3, <2>4 DEF One
<1> QED
  BY Zenon, <1>2, <1>5, <1>6, <1>7 DEF Table, RefsCounted

\* filealloc() for the second file of pipe() (pipe.c:29).
LEMMA TakesSecond ==
  ASSUME Table, NEW p \in FileProc, In(p, "pipe_f1"), NEW f \in File, fref[f] = 0,
         fref' = [fref EXCEPT ![f] = 1], f1' = [f1 EXCEPT ![p] = f], Go(p, "pipe_kalloc"),
         UNCHANGED <<ftype, fpage, ofile, alive, f0, ff, fchild, nfd>>
  PROVE  Table'
<1>0. /\ Shape /\ Owners /\ Births /\ RefsCounted /\ p \in alive /\ fpc[p] = "pipe_f1"
      /\ f0[p] \in File /\ f1[p] = NoFile /\ fref[f0[p]] = 1 /\ ftype[f0[p]] = "none"
      /\ f0[p] # NoFile
  BY Zenon, Facts DEF Place, In
<1>a. Own(p) /\ fpc'[p] = "pipe_kalloc" /\ \A r \in FileProc \ {p} : fpc'[r] = fpc[r]
  BY Zenon, <1>0, OwnStep
<1>b. /\ f0'[p] = f0[p] /\ f1'[p] = f /\ fref'[f] = 1 /\ ftype'[f] = "none" /\ f # NoFile
      /\ f # f0[p] /\ fref'[f0[p]] = 1 /\ ftype'[f0[p]] = "none"
      /\ \A g \in File \ {f} : UNCHANGED <<fref[g], ftype[g]>>
  BY <1>0, FileAssumption DEF Shape, Owners
<1>1. /\ \A q \in FileProc, d \in FD : ofile[q][d] # f
      /\ \A q \in FileProc : f1[q] # f /\ ~(f0[q] = f /\ fpc[q] # "rw")
  BY Zenon, <1>0, Unused
<1>2. Shape'
  BY Zenon, <1>0 DEF Shape, Go, Loc
<1>3. Place(p)'
  BY Zenon, <1>0, <1>a, <1>b DEF Place
<1>4. \A q \in FileProc \ {p} : Place(q)'
  <2>1. \A q \in FileProc \ {p} : f1[q] \notin {f} /\ (f0[q] \in {f} => fpc[q] = "rw")
    BY Zenon, <1>1
  <2> QED
    BY <1>0, <1>a, <1>b, <2>1, OthersKeep, ZenonT(30)
<1>5. Owners'
  BY Zenon, <1>0, <1>3, <1>4, <1>b DEF Owners
<1>6. Births'
  BY Zenon, <1>0, <1>a, BirthsKept
<1>7. ASSUME NEW g \in File PROVE fref'[g] = FileRefs(g)'
  <2>1. Held(g)' = Held(g)
    BY Zenon DEF Held
  <2>2. /\ FileRefs(g) \in Nat /\ FileRefs(g)' \in Nat
        /\ FileRefs(g)' + Calls(p, g) = FileRefs(g) + Calls(p, g)'
    BY Zenon, <1>a, <2>1, LocalStep
  <2>3. Calls(p, g) = One(g = f0[p]) /\ Calls(p, g)' = One(g = f0[p]) + One(g = f)
    BY SMTT(30), <1>0, <1>a, <1>b, FileAssumption DEF Calls, One
  <2>4. fref[g] = FileRefs(g) /\ fref'[g] = IF g = f THEN 1 ELSE fref[g]
    BY Zenon, <1>0, <1>b DEF RefsCounted
  <2> QED
    BY <2>2, <2>3, <2>4 DEF One
<1> QED
  BY Zenon, <1>2, <1>5, <1>6, <1>7 DEF Table, RefsCounted

\* A step that counts no pointer: sys_read() takes a file from a descriptor
\* without filedup() (sysfile.c:22-36), and the error paths only go on.
LEMMA Turns ==
  ASSUME Table, NEW p \in FileProc, p \in alive, Own(p), Shape', Place(p)',
         fpc'[p] = "fork" <=> fpc[p] = "fork", \A f \in File : Calls(p, f)' = Calls(p, f),
         UNCHANGED <<fref, ftype, fpage, ofile, alive, ff, fchild, nfd>>
  PROVE  Table'
<1>0. Shape /\ Owners /\ Births /\ RefsCounted
  BY Zenon DEF Table
<1>1. \A q \in FileProc \ {p} : Place(q)'
  BY SMTT(30), <1>0 DEF Owners, Own, Place
<1>2. Owners'
  BY Zenon, <1>0, <1>1 DEF Owners
<1>3. Births'
  BY ZenonT(30), <1>0, BirthsKept DEF Own
<1>4. ASSUME NEW g \in File PROVE fref'[g] = FileRefs(g)'
  <2>1. Held(g)' = Held(g)
    BY Zenon DEF Held
  <2>2. /\ FileRefs(g) \in Nat /\ FileRefs(g)' \in Nat
        /\ FileRefs(g)' + Calls(p, g) = FileRefs(g) + Calls(p, g)'
    BY Zenon, <2>1, LocalStep
  <2>3. Calls(p, g) \in Nat /\ Calls(p, g)' = Calls(p, g)
    BY DEF Calls, One
  <2>4. fref[g] = FileRefs(g) /\ fref'[g] = fref[g]
    BY Zenon, <1>0 DEF RefsCounted
  <2> QED
    BY SMTT(30), <2>2, <2>3, <2>4
<1> QED
  BY Zenon, <1>2, <1>3, <1>4 DEF Table, RefsCounted

\* pipealloc() fills in both files (pipe.c:38-45).
LEMMA Fills ==
  ASSUME Table, NEW p \in FileProc, In(p, "pipe_kalloc"), NEW page \in PipePage,
         ftype' = [ftype EXCEPT ![f0[p]] = "r", ![f1[p]] = "w"],
         fpage' = [fpage EXCEPT ![f0[p]] = page, ![f1[p]] = page],
         Go(p, "pipe_fd"), UNCHANGED <<fref, ofile, alive, f0, f1, ff, fchild, nfd>>
  PROVE  Table'
<1>0. /\ Shape /\ Owners /\ Births /\ RefsCounted /\ p \in alive /\ fpc[p] = "pipe_kalloc"
      /\ f0[p] \in File /\ f1[p] \in File /\ f0[p] # f1[p]
      /\ fref[f0[p]] = 1 /\ fref[f1[p]] = 1 /\ f0[p] # NoFile /\ f1[p] # NoFile
  BY Zenon, Facts DEF Place, In
<1>a. Own(p) /\ fpc'[p] = "pipe_fd" /\ \A r \in FileProc \ {p} : fpc'[r] = fpc[r]
  BY Zenon, <1>0, OwnStep
<1>b. /\ ftype' \in [File -> FileType] /\ fpage' \in [File -> PipePage \cup {NoFile}]
      /\ ftype'[f0[p]] = "r" /\ ftype'[f1[p]] = "w"
      /\ \A g \in File \ {f0[p], f1[p]} : UNCHANGED <<fref[g], ftype[g]>>
  BY Zenon, <1>0 DEF Shape, FileType
<1>1. /\ \A q \in FileProc \ {p} : f1[q] # f0[p] /\ ~(f0[q] = f0[p] /\ fpc[q] # "rw")
      /\ \A q \in FileProc, d \in FD : ofile[q][d] # f0[p]
  BY <1>0, OnlyLocal
<1>2. /\ \A q \in FileProc \ {p} : f1[q] # f1[p] /\ ~(f0[q] = f1[p] /\ fpc[q] # "rw")
      /\ \A q \in FileProc, d \in FD : ofile[q][d] # f1[p]
  BY Zenon, <1>0, OnlyLocal
<1>3. Shape'
  BY ZenonT(30), <1>0, <1>b DEF Shape, Go, Loc
<1>4. Place(p)'
  BY Zenon, <1>0, <1>a, <1>b DEF Place
<1>5. \A q \in FileProc \ {p} : Place(q)'
  <2>1. \A q \in FileProc \ {p} : f1[q] \notin {f0[p], f1[p]} /\ (f0[q] \in {f0[p], f1[p]} => fpc[q] = "rw")
    BY Zenon, <1>1, <1>2
  <2> QED
    BY <1>0, <1>a, <1>b, <2>1, OthersKeep, ZenonT(30)
<1>6. Owners'
  <2>1. \A g \in File : fref'[g] = 0 => ftype'[g] = "none"
    BY SMTT(30), <1>0, <1>b DEF Owners
  <2>2. \A q \in FileProc, d \in FD : ofile'[q][d] # NoFile => ftype'[ofile'[q][d]] # "none"
    BY <1>0, <1>b, <1>1, <1>2 DEF Owners, Shape
  <2> QED
    BY Zenon, <1>4, <1>5, <2>1, <2>2 DEF Owners
<1>7. Births'
  BY ZenonT(30), <1>0, <1>a, BirthsKept
<1>8. ASSUME NEW g \in File PROVE fref'[g] = FileRefs(g)'
  <2>1. Held(g)' = Held(g)
    BY Zenon DEF Held
  <2>2. /\ FileRefs(g) \in Nat /\ FileRefs(g)' \in Nat
        /\ FileRefs(g)' + Calls(p, g) = FileRefs(g) + Calls(p, g)'
    BY Zenon, <1>a, <2>1, LocalStep
  <2>3. Calls(p, g)' = Calls(p, g) /\ Calls(p, g) \in Nat
    BY <1>0, <1>a DEF Calls, One
  <2> QED
    BY <1>0, <2>2, <2>3 DEF RefsCounted
<1> QED
  BY Zenon, <1>3, <1>6, <1>7, <1>8 DEF Table, RefsCounted

\* fileclose() of the last reference to f empties the entry (file.c:70-73).
LEMMA Empties ==
  ASSUME Shape, NEW p \in FileProc, NEW f \in File, fref[f] = 1, fileclose(p, f), UNCHANGED fpage
  PROVE  /\ fref' \in [File -> Nat] /\ ftype' \in [File -> FileType]
         /\ ff' \in [FileProc -> [type : FileType, page : PipePage \cup {NoFile}]]
         /\ fref'[f] = 0 /\ ftype'[f] = "none"
         /\ \A g \in File \ {f} : UNCHANGED <<fref[g], ftype[g]>>
         /\ ff'[p] = [type |-> ftype[f], page |-> fpage[f]]
         /\ \A r \in FileProc \ {p} : UNCHANGED ff[r]
<1>1. /\ fref' = [fref EXCEPT ![f] = 0] /\ ftype' = [ftype EXCEPT ![f] = "none"]
      /\ ff' = [ff EXCEPT ![p] = [type |-> ftype[f], page |-> fpage[f]]]
  BY DEF fileclose, Shape
<1>2. [type |-> ftype[f], page |-> fpage[f]] \in [type : FileType, page : PipePage \cup {NoFile}]
  BY Zenon DEF Shape
<1> QED
  BY Zenon, <1>1, <1>2 DEF Shape, FileType

\* fileclose() of a file that a call has allocated and not given away
\* (pipe.c:52-53, sysfile.c:320).
LEMMA ClosesFirst ==
  ASSUME Table, NEW p \in FileProc, p \in alive, f0[p] # NoFile, fileclose(p, f0[p]),
         f0' = [f0 EXCEPT ![p] = NoFile], NEW to, Go(p, to),
         (fpc[p] = "bad" /\ to = "bad") \/ (fpc[p] = "open_fd" /\ to = "user"),
         UNCHANGED <<fpage, ofile, alive, f1, fchild, nfd>>
  PROVE  Table'
<1>0. /\ Shape /\ Owners /\ Births /\ RefsCounted /\ f0[p] \in File /\ fref[f0[p]] = 1
      /\ fpc[p] # "rw" /\ to # "rw" /\ fpc[p] # "fork" /\ to # "fork" /\ to \in Loc /\ f0[p] # f1[p]
      /\ f1[p] \in File \cup {NoFile} /\ (f1[p] # NoFile => to = "bad" /\ fref[f1[p]] = 1)
  BY Zenon, Facts DEF Place, Loc
<1>a. Own(p) /\ fpc'[p] = to /\ \A r \in FileProc \ {p} : fpc'[r] = fpc[r]
  BY Zenon, <1>0, OwnStep
<1>b. /\ fref' \in [File -> Nat] /\ ftype' \in [File -> FileType]
      /\ ff' \in [FileProc -> [type : FileType, page : PipePage \cup {NoFile}]]
      /\ fref'[f0[p]] = 0 /\ ftype'[f0[p]] = "none"
      /\ \A g \in File \ {f0[p]} : UNCHANGED <<fref[g], ftype[g]>>
      /\ \A r \in FileProc \ {p} : UNCHANGED ff[r]
  BY Zenon, <1>0, Empties
<1>c. f0'[p] = NoFile /\ f1'[p] = f1[p]
  BY Zenon, <1>0 DEF Shape
<1>1. /\ \A q \in FileProc \ {p} : f1[q] # f0[p] /\ ~(f0[q] = f0[p] /\ fpc[q] # "rw")
      /\ \A q \in FileProc, d \in FD : ofile[q][d] # f0[p]
  BY Zenon, <1>0, OnlyLocal
<1>2. Shape'
  BY Zenon, <1>0, <1>b DEF Shape, Go
<1>3. Place(p)'
  <2>1. f1[p] # NoFile => fref'[f1[p]] = 1
    BY Zenon, <1>0, <1>b
  <2>2. to \in {"bad", "user"}
    BY Zenon
  <2> QED
    BY Zenon, <1>0, <1>a, <1>c, <2>1, <2>2 DEF Place
<1>4. \A q \in FileProc \ {p} : Place(q)'
  <2>1. \A q \in FileProc \ {p} : f1[q] \notin {f0[p]} /\ (f0[q] \in {f0[p]} => fpc[q] = "rw")
    BY Zenon, <1>1
  <2> QED
    BY <1>0, <1>a, <1>b, <2>1, OthersKeep, ZenonT(30)
<1>5. Owners'
  <2>1. \A g \in File : fref'[g] = 0 => ftype'[g] = "none"
    BY Zenon, <1>0, <1>b DEF Owners
  <2>2. \A q \in FileProc, d \in FD : ofile'[q][d] # NoFile => ftype'[ofile'[q][d]] # "none"
    BY SMTT(30), <1>0, <1>b, <1>1 DEF Owners, Shape
  <2> QED
    BY Zenon, <1>3, <1>4, <2>1, <2>2 DEF Owners
<1>6. Births'
  BY Zenon, <1>0, <1>a, <1>b, BirthsKept
<1>7. ASSUME NEW g \in File PROVE fref'[g] = FileRefs(g)'
  <2>1. Held(g)' = Held(g)
    BY Zenon DEF Held
  <2>2. /\ FileRefs(g) \in Nat /\ FileRefs(g)' \in Nat
        /\ FileRefs(g)' + Calls(p, g) = FileRefs(g) + Calls(p, g)'
    BY Zenon, <1>a, <2>1, LocalStep
  <2>3. Calls(p, g) = One(g = f0[p]) + One(g = f1[p]) /\ Calls(p, g)' = One(g = f1[p])
    BY SMTT(30), <1>0, <1>a, <1>c, FileAssumption DEF Calls, One
  <2>4. fref[g] = FileRefs(g) /\ fref'[g] = IF g = f0[p] THEN 0 ELSE fref[g]
    BY Zenon, <1>0, <1>b DEF RefsCounted
  <2> QED
    BY SMTT(30), <1>0, <2>2, <2>3, <2>4 DEF One
<1> QED
  BY Zenon, <1>2, <1>5, <1>6, <1>7 DEF Table, RefsCounted

\* The same for the second file of pipe() (pipe.c:54-55).
LEMMA ClosesSecond ==
  ASSUME Table, NEW p \in FileProc, p \in alive, fpc[p] = "bad", f0[p] = NoFile, f1[p] # NoFile,
         fileclose(p, f1[p]), f1' = [f1 EXCEPT ![p] = NoFile],
         UNCHANGED <<fpage, ofile, alive, fpc, f0, fchild, nfd>>
  PROVE  Table'
<1>0. Shape /\ Owners /\ Births /\ RefsCounted /\ f1[p] \in File /\ fref[f1[p]] = 1
  BY Zenon, Facts DEF Place
<1>a. Own(p)
  BY Zenon, <1>0 DEF Shape, Own
<1>b. /\ fref' \in [File -> Nat] /\ ftype' \in [File -> FileType]
      /\ ff' \in [FileProc -> [type : FileType, page : PipePage \cup {NoFile}]]
      /\ fref'[f1[p]] = 0 /\ ftype'[f1[p]] = "none"
      /\ \A g \in File \ {f1[p]} : UNCHANGED <<fref[g], ftype[g]>>
      /\ \A r \in FileProc \ {p} : UNCHANGED ff[r]
  BY Zenon, <1>0, Empties
<1>c. f0'[p] = NoFile /\ f1'[p] = NoFile
  BY Zenon, <1>0 DEF Shape
<1>1. /\ \A q \in FileProc \ {p} : f1[q] # f1[p] /\ ~(f0[q] = f1[p] /\ fpc[q] # "rw")
      /\ \A q \in FileProc, d \in FD : ofile[q][d] # f1[p]
  BY <1>0, OnlyLocal
<1>2. Shape'
  BY Zenon, <1>0, <1>b DEF Shape
<1>3. Place(p)'
  BY Zenon, <1>c DEF Place
<1>4. \A q \in FileProc \ {p} : Place(q)'
  <2>1. \A q \in FileProc \ {p} : f1[q] \notin {f1[p]} /\ (f0[q] \in {f1[p]} => fpc[q] = "rw")
    BY Zenon, <1>1
  <2> QED
    BY <1>0, <1>a, <1>b, <2>1, OthersKeep, ZenonT(30)
<1>5. Owners'
  <2>1. \A g \in File : fref'[g] = 0 => ftype'[g] = "none"
    BY Zenon, <1>0, <1>b DEF Owners
  <2>2. \A q \in FileProc, d \in FD : ofile'[q][d] # NoFile => ftype'[ofile'[q][d]] # "none"
    BY <1>0, <1>b, <1>1 DEF Owners, Shape
  <2> QED
    BY Zenon, <1>3, <1>4, <2>1, <2>2 DEF Owners
<1>6. Births'
  BY Zenon, <1>0, <1>b, BirthsKept
<1>7. ASSUME NEW g \in File PROVE fref'[g] = FileRefs(g)'
  <2>1. Held(g)' = Held(g)
    BY Zenon DEF Held
  <2>2. /\ FileRefs(g) \in Nat /\ FileRefs(g)' \in Nat
        /\ FileRefs(g)' + Calls(p, g) = FileRefs(g) + Calls(p, g)'
    BY Zenon, <1>a, <2>1, LocalStep
  <2>3. Calls(p, g) = One(g = f1[p]) /\ Calls(p, g)' = 0
    BY SMTT(30), <1>0, <1>c, FileAssumption DEF Calls, One
  <2>4. fref[g] = FileRefs(g) /\ fref'[g] = IF g = f1[p] THEN 0 ELSE fref[g]
    BY Zenon, <1>0, <1>b DEF RefsCounted
  <2> QED
    BY SMTT(30), <1>0, <2>2, <2>3, <2>4 DEF One
<1> QED
  BY Zenon, <1>2, <1>5, <1>6, <1>7 DEF Table, RefsCounted

-----------------------------------------------------------------------------
\* A file that a descriptor names is in use, and no call still fills it in.
LEMMA Named ==
  ASSUME Table, NEW p \in FileProc, NEW d \in FD, ofile[p][d] # NoFile
  PROVE  /\ ofile[p][d] \in File /\ fref[ofile[p][d]] \in Nat \ {0}
         /\ \A q \in FileProc : f1[q] # ofile[p][d] /\ ~(f0[q] = ofile[p][d] /\ fpc[q] # "rw")
<1>0. Shape /\ Owners /\ RefsCounted /\ ofile[p][d] \in File
  BY DEF Table, Shape
<1>1. fref[ofile[p][d]] \in Nat /\ fref[ofile[p][d]] # 0
  BY Zenon, <1>0, Unused DEF Shape
<1>2. ASSUME NEW q \in FileProc, f1[q] = ofile[p][d] \/ (f0[q] = ofile[p][d] /\ fpc[q] # "rw")
      PROVE  FALSE
  <2>1. fref[ofile[p][d]] = 1
    BY <1>0, <1>2 DEF Owners, Place
  <2> QED
    BY Zenon, <1>0, <1>2, <2>1, OnlyLocal
<1> QED
  BY Zenon, <1>0, <1>1, <1>2

\* fileclose() of a file that others still point to (file.c:66-69).
LEMMA Decrements ==
  ASSUME Shape, NEW p \in FileProc, NEW f \in File, fref[f] \in Nat \ {0, 1}, fileclose(p, f)
  PROVE  /\ fref' \in [File -> Nat] /\ UNCHANGED <<ff, ftype>> /\ fref'[f] = fref[f] - 1
         /\ \A g \in File \ {f} : UNCHANGED <<fref[g], ftype[g]>>
<1>1. fref[f] > 1 /\ fref[f] - 1 \in Nat
  BY SMTT(30)
<1>2. fref' = [fref EXCEPT ![f] = fref[f] - 1] /\ UNCHANGED <<ff, ftype>>
  BY Zenon, <1>1 DEF fileclose
<1>3. fref \in [File -> Nat]
  BY Zenon DEF Shape
<1> QED
  BY Zenon, <1>1, <1>2, <1>3

OneFewer(p, f) ==
  /\ fref' \in [File -> Nat] /\ ftype' \in [File -> FileType]
  /\ ff' \in [FileProc -> [type : FileType, page : PipePage \cup {NoFile}]]
  /\ fref'[f] = fref[f] - 1
  /\ \A g \in File \ {f} : UNCHANGED <<fref[g], ftype[g]>>
  /\ \A r \in FileProc \ {p} : UNCHANGED ff[r]
  /\ fref[f] = 1 => ftype'[f] = "none"
  /\ fref[f] # 1 => ftype'[f] = ftype[f] /\ fref'[f] # 0
\* What fileclose() does to the table (file.c:60-73).
LEMMA OneLess ==
  ASSUME Shape, NEW p \in FileProc, NEW f \in File, fref[f] \in Nat \ {0}, fileclose(p, f),
         UNCHANGED fpage
  PROVE  OneFewer(p, f)
<1>1. CASE fref[f] = 1
  <2>1. /\ fref' \in [File -> Nat] /\ ftype' \in [File -> FileType]
        /\ ff' \in [FileProc -> [type : FileType, page : PipePage \cup {NoFile}]]
        /\ fref'[f] = 0 /\ ftype'[f] = "none"
        /\ \A g \in File \ {f} : UNCHANGED <<fref[g], ftype[g]>>
        /\ \A r \in FileProc \ {p} : UNCHANGED ff[r]
    BY ZenonT(30), <1>1, Empties
  <2>2. fref'[f] = fref[f] - 1
    BY <2>1, <1>1
  <2> QED
    BY <2>1, <2>2, <1>1, Zenon DEF OneFewer
<1>2. CASE fref[f] # 1
  <2>1. fref[f] \in Nat \ {0, 1}
    BY Zenon, <1>2
  <2>2. /\ fref' \in [File -> Nat] /\ UNCHANGED <<ff, ftype>> /\ fref'[f] = fref[f] - 1
        /\ \A g \in File \ {f} : UNCHANGED <<fref[g], ftype[g]>>
    BY Zenon, <2>1, Decrements
  <2> QED
    BY <2>1, <2>2, <1>2 DEF Shape, OneFewer
<1> QED
  BY Zenon, <1>1, <1>2

\* sys_close() and the loop of exit() (sysfile.c:101-102, proc.c:241-246).
LEMMA ClosesDescriptor ==
  ASSUME Table, NEW p \in FileProc, p \in alive, NEW d \in FD, NEW f \in File, ofile[p][d] = f,
         fileclose(p, f), ofile' = [ofile EXCEPT ![p][d] = NoFile],
         UNCHANGED <<fpage, alive, fpc, f0, f1, fchild, nfd>>
  PROVE  Table'
<1>0. /\ Shape /\ Owners /\ Births /\ RefsCounted /\ f \in File /\ fref[f] \in Nat \ {0}
      /\ \A q \in FileProc : f1[q] # f /\ ~(f0[q] = f /\ fpc[q] # "rw")
  BY Zenon, Named, FileAssumption DEF Table
<1>a. Own(p)
  BY Zenon DEF Own
<1>b. /\ fref' \in [File -> Nat] /\ ftype' \in [File -> FileType]
      /\ ff' \in [FileProc -> [type : FileType, page : PipePage \cup {NoFile}]]
      /\ fref'[f] = fref[f] - 1
      /\ \A g \in File \ {f} : UNCHANGED <<fref[g], ftype[g]>>
      /\ \A r \in FileProc \ {p} : UNCHANGED ff[r]
      /\ fref[f] = 1 => ftype'[f] = "none"
      /\ fref[f] # 1 => ftype'[f] = ftype[f] /\ fref'[f] # 0
  BY <1>0, OneLess DEF OneFewer
<1>c. /\ ofile' \in [FileProc -> [FD -> File \cup {NoFile}]] /\ ofile'[p][d] = NoFile
      /\ \A r \in FileProc, e \in FD : r # p \/ e # d => ofile'[r][e] = ofile[r][e]
      /\ \A r \in FileProc \ {p} : ofile'[r] = ofile[r]
  BY Zenon, <1>0 DEF Shape
<1>2. Shape'
  BY Zenon, <1>0, <1>b, <1>c DEF Shape
<1>3. Place(p)'
  <2>1. Place(p) /\ f0[p] \in File \cup {NoFile} /\ f1[p] \in File \cup {NoFile}
    BY Zenon, Facts
  <2>2. /\ f1[p] # NoFile => UNCHANGED <<fref[f1[p]], ftype[f1[p]]>>
        /\ f0[p] # NoFile /\ fpc[p] # "rw" => UNCHANGED <<fref[f0[p]], ftype[f0[p]]>>
    BY Zenon, <1>0, <1>b, <2>1
  <2> QED
    BY Zenon, <2>1, <2>2 DEF Place
<1>4. \A q \in FileProc \ {p} : Place(q)'
  <2>1. \A q \in FileProc \ {p} : f1[q] \notin {f} /\ (f0[q] \in {f} => fpc[q] = "rw")
    BY Zenon, <1>0
  <2> QED
    BY <1>0, <1>a, <1>b, <2>1, OthersKeep, ZenonT(30)
<1>5. \A g \in File : fref'[g] = 0 => ftype'[g] = "none"
  BY <1>0, <1>b DEF Owners
<1>6. ASSUME NEW q \in FileProc, NEW e \in FD, ofile'[q][e] # NoFile PROVE ftype'[ofile'[q][e]] # "none"
  <2>1. q # p \/ e # d
    BY Zenon, <1>6, <1>c
  <2>2. ofile'[q][e] = ofile[q][e] /\ ofile[q][e] \in File /\ ftype[ofile[q][e]] # "none"
    BY SMTT(30), <1>0, <1>6, <2>1, <1>c DEF Owners, Shape
  <2>3. fref[f] = 1 => ofile[q][e] # f
    BY SMTT(30), <1>0, <2>1, OnlyDescriptor
  <2> QED
    BY SMTT(30), <2>2, <2>3, <1>b
<1>7. Births'
  BY <1>0, <1>b, <1>c, BirthsKept
<1>8. ASSUME NEW g \in File PROVE fref'[g] = FileRefs(g)'
  <2>1. OnlyAt(g, p, d)
    BY Zenon, <1>c DEF OnlyAt
  <2>2. Recounted(p, g, p, d)
    BY <1>a, <2>1, DescriptorStep, ZenonT(30)
  <2>3. Calls(p, g)' = Calls(p, g) /\ Calls(p, g) \in Nat /\ One(ofile'[p][d] = g) = 0
    BY <1>c, FileAssumption DEF Calls, One
  <2>4. fref[g] = FileRefs(g) /\ fref'[g] = IF g = f THEN fref[g] - 1 ELSE fref[g]
    BY Zenon, <1>0, <1>b DEF RefsCounted
  <2> QED
    BY <2>2, <2>3, <2>4 DEF One, Recounted
<1> QED
  BY SMTT(30), <1>2, <1>3, <1>4, <1>5, <1>6, <1>7, <1>8 DEF Table, RefsCounted, Owners

\* filedup(): a descriptor d of q, free until now, names f as well, which a
\* descriptor of the caller p names already (sysfile.c:64-65, proc.c:209-211).
LEMMA Duplicates ==
  ASSUME Table, NEW p \in FileProc, NEW c \in FD, NEW f \in File, ofile[p][c] = f,
         NEW q \in FileProc, NEW d \in FD, ofile[q][d] = NoFile,
         fref' = [fref EXCEPT ![f] = @ + 1], ofile' = [ofile EXCEPT ![q][d] = f],
         UNCHANGED <<ftype, fpage, alive, fpc, f0, f1, ff>>,
         fchild' \in [FileProc -> FileProc \cup {0}], nfd' \in [FileProc -> 0 .. NOFILE]
  PROVE  Shape' /\ Owners' /\ RefsCounted'
<1>0. /\ Shape /\ Owners /\ RefsCounted /\ fref[f] \in Nat \ {0} /\ f # NoFile /\ ftype[f] # "none"
      /\ \A r \in FileProc : f1[r] # f /\ ~(f0[r] = f /\ fpc[r] # "rw")
  BY Named, FileAssumption DEF Table, Owners
<1>a. Own(p)
  BY Zenon DEF Own
<1>b. /\ fref' \in [File -> Nat] /\ fref'[f] = fref[f] + 1
      /\ \A g \in File \ {f} : UNCHANGED <<fref[g], ftype[g]>>
  BY <1>0 DEF Shape
<1>c. /\ ofile' \in [FileProc -> [FD -> File \cup {NoFile}]] /\ ofile'[q][d] = f
      /\ \A r \in FileProc, e \in FD : r # q \/ e # d => ofile'[r][e] = ofile[r][e]
  BY <1>0 DEF Shape
<1>2. Shape'
  BY Zenon, <1>0, <1>b, <1>c DEF Shape
<1>3. ASSUME NEW r \in FileProc PROVE Place(r)'
  <2>1. Place(r) /\ f0[r] \in File \cup {NoFile} /\ f1[r] \in File \cup {NoFile}
    BY Zenon, Facts
  <2>2. /\ f1[r] # NoFile => UNCHANGED <<fref[f1[r]], ftype[f1[r]]>>
        /\ f0[r] # NoFile /\ fpc[r] # "rw" => UNCHANGED <<fref[f0[r]], ftype[f0[r]]>>
    BY Zenon, <1>0, <1>b, <2>1
  <2> QED
    BY Zenon, <2>1, <2>2 DEF Place
<1>4. \A g \in File : fref'[g] = 0 => ftype'[g] = "none"
  BY SMTT(30), <1>0, <1>b DEF Owners
<1>5. \A r \in FileProc, e \in FD : ofile'[r][e] # NoFile => ftype'[ofile'[r][e]] # "none"
  BY <1>0, <1>c DEF Owners
<1>6. ASSUME NEW g \in File PROVE fref'[g] = FileRefs(g)'
  <2>1. OnlyAt(g, q, d)
    BY Zenon, <1>c DEF OnlyAt
  <2>2. Recounted(p, g, q, d)
    BY <1>a, <2>1, DescriptorStep, Zenon
  <2>3. Calls(p, g)' = Calls(p, g) /\ Calls(p, g) \in Nat /\ One(ofile[q][d] = g) = 0
    BY FileAssumption DEF Calls, One
  <2>4. fref[g] = FileRefs(g) /\ fref'[g] = IF g = f THEN fref[g] + 1 ELSE fref[g]
    BY Zenon, <1>0, <1>b DEF RefsCounted
  <2>5. One(ofile'[q][d] = g) = IF g = f THEN 1 ELSE 0
    BY Zenon, <1>c DEF One
  <2> QED
    BY SMTT(30), <2>2, <2>3, <2>4, <2>5 DEF Recounted
<1> QED
  BY Zenon, <1>2, <1>3, <1>4, <1>5, <1>6 DEF RefsCounted, Owners

\* open() gives its file to a descriptor (sysfile.c:317-331).
LEMMA Opens ==
  ASSUME Table, NEW p \in FileProc, In(p, "open_fd"), NEW d \in FD, ofile[p][d] = NoFile,
         NEW f, f0[p] = f, ofile' = [ofile EXCEPT ![p][d] = f], ftype' = [ftype EXCEPT ![f] = "inode"],
         f0' = [f0 EXCEPT ![p] = NoFile], Go(p, "user"),
         UNCHANGED <<fref, fpage, alive, f1, ff, fchild, nfd>>
  PROVE  Table'
<1>0. /\ Shape /\ Owners /\ Births /\ RefsCounted /\ p \in alive /\ fpc[p] = "open_fd"
      /\ f \in File /\ f1[p] = NoFile /\ fref[f] = 1 /\ f # NoFile
  BY Zenon, Facts DEF Place, In
<1>a. Own(p) /\ fpc'[p] = "user" /\ \A r \in FileProc \ {p} : fpc'[r] = fpc[r]
  BY ZenonT(30), <1>0, OwnStep
<1>b. /\ ftype' \in [File -> FileType] /\ ftype'[f] = "inode" /\ f0'[p] = NoFile /\ f1'[p] = NoFile
      /\ \A g \in File \ {f} : UNCHANGED <<fref[g], ftype[g]>>
  BY Zenon, <1>0 DEF Shape, FileType
<1>c. /\ ofile' \in [FileProc -> [FD -> File \cup {NoFile}]] /\ ofile'[p][d] = f
      /\ \A r \in FileProc, e \in FD : r # p \/ e # d => ofile'[r][e] = ofile[r][e]
      /\ \A r \in FileProc \ {p} : ofile'[r] = ofile[r]
  BY Zenon, <1>0 DEF Shape
<1>1. /\ \A q \in FileProc \ {p} : f1[q] # f /\ ~(f0[q] = f /\ fpc[q] # "rw")
      /\ \A q \in FileProc, e \in FD : ofile[q][e] # f
  BY SMTT(30), <1>0, OnlyLocal
<1>2. Shape'
  BY Zenon, <1>0, <1>b, <1>c DEF Shape, Go, Loc
<1>3. Place(p)'
  BY Zenon, <1>a, <1>b DEF Place
<1>4. \A q \in FileProc \ {p} : Place(q)'
  <2>1. \A q \in FileProc \ {p} : f1[q] \notin {f} /\ (f0[q] \in {f} => fpc[q] = "rw")
    BY Zenon, <1>1
  <2> QED
    BY <1>0, <1>a, <1>b, <2>1, OthersKeep, ZenonT(30)
<1>5. \A g \in File : fref'[g] = 0 => ftype'[g] = "none"
  BY <1>0, <1>b DEF Owners
<1>6. ASSUME NEW r \in FileProc, NEW e \in FD, ofile'[r][e] # NoFile PROVE ftype'[ofile'[r][e]] # "none"
  <2>1. CASE r = p /\ e = d
    BY Zenon, <2>1, <1>b, <1>c
  <2>2. CASE r # p \/ e # d
    <3>1. ofile'[r][e] = ofile[r][e] /\ ofile[r][e] \in File \ {f} /\ ftype[ofile[r][e]] # "none"
      BY <2>2, <1>6, <1>c, <1>0, <1>1 DEF Owners, Shape
    <3> QED
      BY Zenon, <3>1, <1>b
  <2> QED
    BY Zenon, <2>1, <2>2
<1>7. Births'
  BY ZenonT(30), <1>0, <1>a, <1>c, BirthsKept
<1>8. ASSUME NEW g \in File PROVE fref'[g] = FileRefs(g)'
  <2>1. OnlyAt(g, p, d)
    BY Zenon, <1>c DEF OnlyAt
  <2>2. Recounted(p, g, p, d)
    BY <1>a, <2>1, DescriptorStep, Zenon
  <2>3. Calls(p, g) = One(g = f) /\ Calls(p, g)' = 0 /\ One(ofile[p][d] = g) = 0
    BY <1>0, <1>a, <1>b, FileAssumption DEF Calls, One
  <2>4. fref[g] = FileRefs(g) /\ fref'[g] = fref[g]
    BY Zenon, <1>0 DEF RefsCounted
  <2> QED
    BY SMTT(30), <1>c, <2>2, <2>3, <2>4 DEF One, Recounted
<1> QED
  BY Zenon, <1>2, <1>3, <1>4, <1>5, <1>6, <1>7, <1>8 DEF Table, RefsCounted, Owners

\* pipe() gives its two files to two descriptors (sysfile.c:433-443).
LEMMA Connects ==
  ASSUME Table, NEW p \in FileProc, In(p, "pipe_fd"), NEW d \in FD, NEW e \in FD, d # e,
         ofile[p][d] = NoFile, ofile[p][e] = NoFile, NEW f, f0[p] = f, NEW h, f1[p] = h,
         ofile' = [ofile EXCEPT ![p][d] = f, ![p][e] = h],
         f0' = [f0 EXCEPT ![p] = NoFile], f1' = [f1 EXCEPT ![p] = NoFile], Go(p, "user"),
         UNCHANGED <<fref, ftype, fpage, alive, ff, fchild, nfd>>
  PROVE  Table'
<1>0. /\ Shape /\ Owners /\ Births /\ RefsCounted /\ p \in alive /\ fpc[p] = "pipe_fd"
      /\ f \in File /\ h \in File /\ f # h /\ f # NoFile /\ h # NoFile
      /\ ftype[f] # "none" /\ ftype[h] # "none"
  BY Zenon, Facts DEF Place, In
<1>a. Own(p) /\ fpc'[p] = "user" /\ \A r \in FileProc \ {p} : fpc'[r] = fpc[r]
  BY ZenonT(30), <1>0, OwnStep
<1>b. f0'[p] = NoFile /\ f1'[p] = NoFile
  BY Zenon, <1>0 DEF Shape
<1>c. /\ ofile' \in [FileProc -> [FD -> File \cup {NoFile}]] /\ ofile'[p][d] = f /\ ofile'[p][e] = h
      /\ \A r \in FileProc, c \in FD : r # p \/ (c # d /\ c # e) => ofile'[r][c] = ofile[r][c]
      /\ \A r \in FileProc \ {p} : ofile'[r] = ofile[r]
  BY SMTT(30), <1>0 DEF Shape
<1>2. Shape'
  BY Zenon, <1>0, <1>c DEF Shape, Go, Loc
<1>3. Place(p)'
  BY Zenon, <1>a, <1>b DEF Place
<1>4. \A q \in FileProc \ {p} : Place(q)'
  BY <1>0, <1>a DEF Owners, Own, Place
<1>5. \A g \in File : fref'[g] = 0 => ftype'[g] = "none"
  BY Zenon, <1>0 DEF Owners
<1>6. ASSUME NEW r \in FileProc, NEW c \in FD, ofile'[r][c] # NoFile PROVE ftype'[ofile'[r][c]] # "none"
  <2>1. CASE r = p /\ c \in {d, e}
    BY SMTT(30), <2>1, <1>0, <1>c
  <2>2. CASE r # p \/ (c # d /\ c # e)
    BY <2>2, <1>6, <1>c, <1>0 DEF Owners
  <2> QED
    BY Zenon, <2>1, <2>2
<1>7. Births'
  BY ZenonT(30), <1>0, <1>a, <1>c, BirthsKept
<1>8. ASSUME NEW g \in File PROVE fref'[g] = FileRefs(g)'
  <2>1. Calls(p, g) = One(g = f) + One(g = h) /\ Calls(p, g)' = 0
    BY <1>0, <1>a, <1>b, FileAssumption DEF Calls, One
  <2>2. fref[g] = FileRefs(g) /\ fref'[g] = fref[g]
    BY Zenon, <1>0 DEF RefsCounted
  <2>3. CASE g # h
    <3>1. OnlyAt(g, p, d)
      BY <1>c, <2>3, FileAssumption DEF OnlyAt
    <3>2. Recounted(p, g, p, d)
      BY <1>a, <3>1, DescriptorStep, ZenonT(30)
    <3>a. ofile[p][d] # g /\ (ofile'[p][d] = g <=> g = f) /\ g # h
      BY SMTT(30), <1>c, <2>3, FileAssumption
    <3>3. One(ofile[p][d] = g) = 0 /\ One(ofile'[p][d] = g) = One(g = f) /\ One(g = h) = 0
      BY Zenon, <3>a DEF One
    <3>4. One(g = f) \in Nat
      BY Zenon DEF One
    <3> QED
      BY SMTT(30), <2>1, <2>2, <3>2, <3>3, <3>4 DEF Recounted
  <2>4. CASE g = h
    <3>1. OnlyAt(g, p, e)
      BY <1>c, <1>0, <2>4, FileAssumption DEF OnlyAt
    <3>2. Recounted(p, g, p, e)
      BY <1>a, <3>1, DescriptorStep, ZenonT(30)
    <3>a. ofile[p][e] # g /\ (ofile'[p][e] = g <=> g = h) /\ g # f
      BY Zenon, <1>0, <1>c, <2>4, FileAssumption
    <3>3. One(ofile[p][e] = g) = 0 /\ One(ofile'[p][e] = g) = One(g = h) /\ One(g = f) = 0
      BY Zenon, <3>a DEF One
    <3>4. One(g = h) \in Nat
      BY Zenon DEF One
    <3> QED
      BY SMTT(30), <2>1, <2>2, <3>2, <3>3, <3>4 DEF Recounted
  <2> QED
    BY Zenon, <2>3, <2>4
<1> QED
  BY Zenon, <1>2, <1>3, <1>4, <1>5, <1>6, <1>7, <1>8 DEF Table, RefsCounted, Owners

-----------------------------------------------------------------------------
\* fork() takes a process that does not exist, and that has no descriptors
\* (proc.c:88-92).
LEMMA ForkStarts ==
  ASSUME Table, NEW p \in FileProc, fork(p)
  PROVE  Table'
<1>0. /\ Shape /\ Owners /\ Births /\ RefsCounted /\ p \in alive /\ fpc[p] = "user"
      /\ f0[p] = NoFile /\ f1[p] = NoFile /\ fchild[p] = 0
  BY Zenon, Facts DEF Place, In, fork, Births
<1>1. PICK np \in FileProc \ (alive \cup {fchild[q] : q \in FileProc}) :
         fchild' = [fchild EXCEPT ![p] = np]
  BY Zenon DEF fork
<1>2. /\ nfd' = [nfd EXCEPT ![p] = 0] /\ Go(p, "fork")
      /\ UNCHANGED <<fref, ftype, fpage, ofile, alive, f0, f1, ff>>
  BY Zenon DEF fork
<1>a. Own(p) /\ fpc'[p] = "fork" /\ \A r \in FileProc \ {p} : fpc'[r] = fpc[r]
  BY Zenon, <1>0, <1>2, OwnStep
<1>b. /\ fchild'[p] = np /\ nfd'[p] = 0 /\ np \in FileProc /\ np # 0 /\ np \notin alive
      /\ \A r \in FileProc \ {p} : fchild'[r] = fchild[r] /\ nfd'[r] = nfd[r] /\ fchild[r] # np
  BY SMTT(30), <1>0, <1>1, <1>2, FileAssumption DEF Shape, FileProc
<1>3. Shape'
  BY SMTT(30), <1>0, <1>1, <1>2, FileAssumption DEF Shape, Go, Loc
<1>4. \A q \in FileProc : Place(q)'
  BY <1>0, <1>2, <1>a DEF Owners, Own, Place
<1>5. Owners'
  BY Zenon, <1>0, <1>2, <1>4 DEF Owners
<1>6. Births'
  <2>1. (\A q \in FileProc : fchild[q] # 0 <=> fpc[q] = "fork")'
    BY SMTT(30), <1>0, <1>a, <1>b DEF Births
  <2>2. (\A q \in FileProc : fchild[q] # 0 => fchild[q] \notin alive)'
    BY Zenon, <1>0, <1>2, <1>b DEF Births
  <2>3. (\A q, r \in FileProc : fchild[q] # 0 /\ fchild[q] = fchild[r] => q = r)'
    BY <1>0, <1>b DEF Births
  <2>4. (\A q \in FileProc \ alive : fpc[q] = "user" /\ ff[q] = NoFF)'
    BY Zenon, <1>0, <1>2, <1>a DEF Births
  <2>5. ASSUME NEW q \in FileProc \ alive, NEW d \in FD, ofile[q][d] # NoFile
        PROVE  \E r \in FileProc : fchild'[r] = q /\ d < nfd'[r]
    <3>1. PICK r \in FileProc : fchild[r] = q /\ d < nfd[r]
      BY Zenon, <1>0, <2>5 DEF Births
    <3>2. r # p
      BY SMTT(30), <3>1, <1>0, <2>5, FileAssumption DEF FileProc
    <3> QED
      BY Zenon, <3>1, <3>2, <1>b
  <2> QED
    BY ZenonT(30), <2>1, <2>2, <2>3, <2>4, <2>5, <1>2 DEF Births
<1>7. ASSUME NEW g \in File PROVE fref'[g] = FileRefs(g)'
  <2>1. Held(g)' = Held(g)
    BY Zenon, <1>2 DEF Held
  <2>2. /\ FileRefs(g) \in Nat /\ FileRefs(g)' \in Nat
        /\ FileRefs(g)' + Calls(p, g) = FileRefs(g) + Calls(p, g)'
    BY Zenon, <1>a, <2>1, LocalStep
  <2>3. Calls(p, g) = 0 /\ Calls(p, g)' = 0
    BY SMTT(30), <1>0, <1>2, FileAssumption DEF Calls, One
  <2> QED
    BY SMTT(30), <1>0, <1>2, <2>2, <2>3 DEF RefsCounted
<1> QED
  BY Zenon, <1>3, <1>5, <1>6, <1>7 DEF Table, RefsCounted

\* The descriptor that fork() is about to copy is still free in the child.
LEMMA ChildFree ==
  ASSUME Table, NEW p \in FileProc, fpc[p] = "fork", nfd[p] < NOFILE
  PROVE  fchild[p] \in FileProc \ alive /\ nfd[p] \in FD /\ ofile[fchild[p]][nfd[p]] = NoFile
<1>0. /\ Shape /\ Births /\ fchild[p] \in FileProc \ alive /\ fchild[p] # 0
      /\ nfd[p] \in 0 .. NOFILE
  BY FileAssumption DEF Table, Shape, Births
<1>1. nfd[p] \in FD
  BY <1>0, FileAssumption DEF FD
<1>2. ASSUME ofile[fchild[p]][nfd[p]] # NoFile PROVE FALSE
  <2>1. PICK r \in FileProc : fchild[r] = fchild[p] /\ nfd[p] < nfd[r]
    BY Zenon, <1>0, <1>1, <1>2 DEF Births
  <2>2. r = p
    BY Zenon, <2>1, <1>0 DEF Births
  <2> QED
    BY SMTT(30), <2>1, <2>2, <1>0
<1> QED
  BY Zenon, <1>0, <1>1, <1>2

\* The child's descriptors below nfd are copies (proc.c:209-211).
LEMMA ChildGrows ==
  ASSUME Shape, Births, NEW p \in FileProc, NEW np, fchild[p] = np, np \in FileProc \ alive,
         NEW d \in FD, nfd[p] = d,
         nfd'[p] = d + 1 /\ \A r \in FileProc \ {p} : nfd'[r] = nfd[r],
         \A r \in FileProc, e \in FD : r # np \/ e # d => ofile'[r][e] = ofile[r][e],
         UNCHANGED <<alive, fpc, ff, fchild>>
  PROVE  Births'
<1>1. ASSUME NEW q \in FileProc \ alive, NEW e \in FD, ofile'[q][e] # NoFile
      PROVE  \E r \in FileProc : fchild[r] = q /\ e < nfd'[r]
  <2>a. d \in Nat /\ e \in Nat
    BY FileAssumption DEF FD
  <2>1. CASE q = np /\ e = d
    BY <2>a, <2>1
  <2>2. CASE q # np \/ e # d
    <3>1. PICK r \in FileProc : fchild[r] = q /\ e < nfd[r]
      BY <1>1, <2>2 DEF Births
    <3>2. e < nfd'[r]
      BY <3>1, <2>a
    <3> QED
      BY Zenon, <3>1, <3>2
  <2> QED
    BY Zenon, <2>1, <2>2
<1> QED
  BY <1>1 DEF Births

\* One turn of the loop of fork().
LEMMA ForkCopies ==
  ASSUME Table, NEW p \in FileProc, fork_filedup(p)
  PROVE  Table'
<1>0. Shape /\ Births /\ Owners /\ RefsCounted /\ fpc[p] = "fork" /\ nfd[p] < NOFILE
  BY Zenon DEF Table, fork_filedup, In
<1>1. PICK np, d : np = fchild[p] /\ d = nfd[p]
  BY Zenon
<1>2. np \in FileProc \ alive /\ d \in FD /\ ofile[np][d] = NoFile /\ d + 1 \in 0 .. NOFILE
  BY <1>0, <1>1, ChildFree, FileAssumption DEF FD
<1>3. PICK f : f = ofile[p][d]
  BY Zenon
<1>4. /\ fref' = IF f = NoFile THEN fref ELSE [fref EXCEPT ![f] = @ + 1]
      /\ ofile' = [ofile EXCEPT ![np][d] = f] /\ nfd' = [nfd EXCEPT ![p] = d + 1]
      /\ UNCHANGED <<ftype, fpage, alive, fpc, f0, f1, ff, fchild>>
  BY Zenon, <1>1, <1>3 DEF fork_filedup
<1>5. nfd' \in [FileProc -> 0 .. NOFILE] /\ fchild' \in [FileProc -> FileProc \cup {0}]
  BY Zenon, <1>0, <1>2, <1>4 DEF Shape
<1>6. \A r \in FileProc, e \in FD : r # np \/ e # d => ofile'[r][e] = ofile[r][e]
  BY Zenon, <1>0, <1>2, <1>4 DEF Shape
<1>7. Births'
  <2>1. fchild[p] = np /\ nfd[p] = d
    BY Zenon, <1>1
  <2>2. nfd'[p] = d + 1 /\ \A r \in FileProc \ {p} : nfd'[r] = nfd[r]
    BY Zenon, <1>0, <1>4 DEF Shape
  <2>3. UNCHANGED <<alive, fpc, ff, fchild>>
    BY Zenon, <1>4
  <2> QED
    BY SMTT(30), <1>0, <1>2, <1>6, <2>1, <2>2, <2>3, ChildGrows
<1>8. CASE f = NoFile
  <2>1. ofile' = ofile
    BY <1>0, <1>2, <1>4, <1>8 DEF Shape
  <2>2. Shape'
    BY ZenonT(30), <1>0, <1>4, <1>5, <1>8, <2>1 DEF Shape
  <2>3. Owners'
    BY <1>0, <1>4, <1>8, <2>1 DEF Owners, Place
  <2>4. \A g \in File : FileRefs(g)' = FileRefs(g)
    BY Zenon, <1>4, <2>1 DEF FileRefs
  <2>5. RefsCounted'
    BY Zenon, <1>0, <1>4, <1>8, <2>4 DEF RefsCounted
  <2> QED
    BY Zenon, <1>7, <2>2, <2>3, <2>5 DEF Table
<1>9. CASE f # NoFile
  <2>1. f \in File
    BY <1>0, <1>2, <1>3, <1>9 DEF Shape
  <2>2. fref' = [fref EXCEPT ![f] = @ + 1]
    BY Zenon, <1>4, <1>9
  <2>3. Shape' /\ Owners' /\ RefsCounted'
    BY Zenon, <1>2, <1>3, <1>4, <1>5, <2>1, <2>2, Duplicates
  <2> QED
    BY Zenon, <1>7, <2>3 DEF Table
<1> QED
  BY Zenon, <1>8, <1>9

\* fork() is done: the child has its descriptors (proc.c:219-225).
LEMMA ForkEnds ==
  ASSUME Table, NEW p \in FileProc, fork_return(p)
  PROVE  Table'
<1>0. /\ Shape /\ Owners /\ Births /\ RefsCounted /\ p \in alive /\ fpc[p] = "fork"
      /\ f0[p] = NoFile /\ f1[p] = NoFile /\ fchild[p] \in FileProc \ alive /\ fchild[p] # 0
  BY Facts DEF Place, In, fork_return, Births, Shape
<1>2. /\ alive' = alive \cup {fchild[p]} /\ fchild' = [fchild EXCEPT ![p] = 0]
      /\ nfd' = [nfd EXCEPT ![p] = 0] /\ Go(p, "user")
      /\ UNCHANGED <<fref, ftype, fpage, ofile, f0, f1, ff>>
  BY Zenon DEF fork_return
<1>a. Own(p) /\ fpc'[p] = "user" /\ \A r \in FileProc \ {p} : fpc'[r] = fpc[r]
  BY Zenon, <1>0, <1>2, OwnStep
<1>b. /\ fchild'[p] = 0 /\ nfd'[p] = 0
      /\ \A r \in FileProc \ {p} : fchild'[r] = fchild[r] /\ nfd'[r] = nfd[r] /\ fchild[r] # fchild[p]
  BY SMTT(30), <1>0, <1>2 DEF Shape, Births
<1>3. Shape'
  BY SMTT(30), <1>0, <1>2, FileAssumption DEF Shape, Go, Loc
<1>4. \A q \in FileProc : Place(q)'
  BY <1>0, <1>2, <1>a DEF Owners, Own, Place
<1>5. Owners'
  BY Zenon, <1>0, <1>2, <1>4 DEF Owners
<1>6. Births'
  <2>1. (\A q \in FileProc : fchild[q] # 0 <=> fpc[q] = "fork")'
    BY SMTT(30), <1>0, <1>a, <1>b DEF Births
  <2>2. (\A q \in FileProc : fchild[q] # 0 => fchild[q] \notin alive)'
    BY SMTT(30), <1>0, <1>2, <1>b DEF Births
  <2>3. (\A q, r \in FileProc : fchild[q] # 0 /\ fchild[q] = fchild[r] => q = r)'
    BY <1>0, <1>b DEF Births
  <2>4. (\A q \in FileProc \ alive : fpc[q] = "user" /\ ff[q] = NoFF)'
    BY ZenonT(30), <1>0, <1>2, <1>a DEF Births
  <2>5. ASSUME NEW q \in FileProc \ alive', NEW d \in FD, ofile[q][d] # NoFile
        PROVE  \E r \in FileProc : fchild'[r] = q /\ d < nfd'[r]
    <3>1. PICK r \in FileProc : fchild[r] = q /\ d < nfd[r]
      BY Zenon, <1>0, <1>2, <2>5 DEF Births
    <3>2. r # p
      BY Zenon, <3>1, <1>2
    <3> QED
      BY Zenon, <3>1, <3>2, <1>b
  <2> QED
    BY ZenonT(30), <2>1, <2>2, <2>3, <2>4, <2>5, <1>2 DEF Births
<1>7. ASSUME NEW g \in File PROVE fref'[g] = FileRefs(g)'
  <2>1. Held(g)' = Held(g)
    BY Zenon, <1>2 DEF Held
  <2>2. /\ FileRefs(g) \in Nat /\ FileRefs(g)' \in Nat
        /\ FileRefs(g)' + Calls(p, g) = FileRefs(g) + Calls(p, g)'
    BY Zenon, <1>a, <2>1, LocalStep
  <2>3. Calls(p, g) = 0 /\ Calls(p, g)' = 0
    BY <1>0, <1>2, FileAssumption DEF Calls, One
  <2> QED
    BY SMTT(30), <1>0, <1>2, <2>2, <2>3 DEF RefsCounted
<1> QED
  BY ZenonT(30), <1>3, <1>5, <1>6, <1>7 DEF Table, RefsCounted

\* exit() is done: no descriptor is left (proc.c:241-246).
LEMMA ExitEnds ==
  ASSUME Table, NEW p \in FileProc, In(p, "exit"), \A d \in FD : ofile[p][d] = NoFile,
         alive' = alive \ {p}, Go(p, "user"),
         UNCHANGED <<fref, ftype, fpage, ofile, f0, f1, ff, fchild, nfd>>
  PROVE  Table'
<1>0. /\ Shape /\ Owners /\ Births /\ RefsCounted /\ fpc[p] = "exit" /\ ff[p] = NoFF
      /\ f0[p] = NoFile /\ f1[p] = NoFile
  BY Zenon, Facts DEF Place, In
<1>a. Own(p) /\ fpc'[p] = "user" /\ \A r \in FileProc \ {p} : fpc'[r] = fpc[r]
  BY Zenon, <1>0, OwnStep
<1>3. Shape'
  BY Zenon, <1>0 DEF Shape, Go, Loc
<1>4. \A q \in FileProc : Place(q)'
  BY <1>0, <1>a DEF Owners, Own, Place
<1>5. Owners'
  BY ZenonT(30), <1>0, <1>4 DEF Owners
<1>6. Births'
  <2>1. (\A q \in FileProc : fchild[q] # 0 <=> fpc[q] = "fork")'
    BY SMTT(30), <1>0, <1>a DEF Births
  <2>2. (\A q \in FileProc : fchild[q] # 0 => fchild[q] \notin alive)'
    BY Zenon, <1>0 DEF Births
  <2>3. (\A q \in FileProc \ alive : fpc[q] = "user" /\ ff[q] = NoFF)'
    BY ZenonT(30), <1>0, <1>a DEF Births
  <2>4. (\A q \in FileProc \ alive, d \in FD :
           ofile[q][d] # NoFile => \E r \in FileProc : fchild[r] = q /\ d < nfd[r])'
    BY SMTT(30), <1>0 DEF Births
  <2> QED
    BY SMTT(30), <1>0, <2>1, <2>2, <2>3, <2>4 DEF Births
<1>7. ASSUME NEW g \in File PROVE fref'[g] = FileRefs(g)'
  <2>1. Held(g)' = Held(g)
    BY Zenon DEF Held
  <2>2. /\ FileRefs(g) \in Nat /\ FileRefs(g)' \in Nat
        /\ FileRefs(g)' + Calls(p, g) = FileRefs(g) + Calls(p, g)'
    BY Zenon, <1>a, <2>1, LocalStep
  <2>3. Calls(p, g) = 0 /\ Calls(p, g)' = 0
    BY <1>0, FileAssumption DEF Calls, One
  <2> QED
    BY SMTT(30), <1>0, <2>2, <2>3 DEF RefsCounted
<1> QED
  BY Zenon, <1>3, <1>5, <1>6, <1>7 DEF Table, RefsCounted

\* The part of fileclose() after release() touches no pointer (file.c:75-81).
LEMMA CloseEnds ==
  ASSUME Table, NEW p \in FileProc, fileclose_last(p)
  PROVE  Table'
<1>0. Shape /\ Owners /\ Births /\ RefsCounted
  BY Zenon DEF Table
<1>1. /\ ff' = [ff EXCEPT ![p] = NoFF] /\ ff[p] # NoFF
      /\ UNCHANGED fref /\ UNCHANGED ftype /\ UNCHANGED fpage /\ UNCHANGED ofile /\ UNCHANGED alive
      /\ UNCHANGED fpc /\ UNCHANGED f0 /\ UNCHANGED f1 /\ UNCHANGED fchild /\ UNCHANGED nfd
  BY Zenon DEF fileclose_last, locals
<1>2. NoFF \in [type : FileType, page : PipePage \cup {NoFile}]
  BY Zenon DEF NoFF, FileType
<1>3. Shape'
  BY Zenon, <1>0, <1>1, <1>2 DEF Shape
<1>4. Owners'
  BY ZenonT(30), <1>0, <1>1 DEF Owners, Place
<1>5. Births'
  BY <1>0, <1>1 DEF Births, Shape
<1>6. \A g \in File : FileRefs(g)' = FileRefs(g)
  BY Zenon, <1>1 DEF FileRefs
<1>7. RefsCounted'
  BY Zenon, <1>0, <1>1, <1>6 DEF RefsCounted
<1> QED
  BY Zenon, <1>3, <1>4, <1>5, <1>7 DEF Table
=============================================================================
