------------------------------ MODULE Content ------------------------------
(***************************************************************************)
(* The contents of files (fs.c: balloc, bfree, bmap, itrunc, readi,        *)
(* writei; file.c: fileread, filewrite): processes write, read and drop    *)
(* files that share the free-block bitmap.  A block holds as many block    *)
(* numbers as bytes here, so that a block used as a table of addresses     *)
(* before it is cleared shows its old data as addresses.                   *)
(*                                                                         *)
(* A step covers one block of a file, from its bread() to its brelse(),    *)
(* with the allocations bmap() makes for it; ip->lock is held for a whole  *)
(* writei(), so only the bitmap is shared between steps.                   *)
(***************************************************************************)
EXTENDS Integers, Sequences, FiniteSets, FiniteSetsExt, Kernel

CONSTANTS Ino,         \* the files
          BSIZE,       \* bytes in a block, and addresses in an indirect block
          NDIRECT, NBlocks,
          BPB,         \* bits in a bitmap block
          MAXOPBLOCKS,
          MaxWrite, MaxOps   \* bounds: bytes of a write, writes and truncations

DataBlock == 1 .. NBlocks
NINDIRECT == BSIZE
MAXFILE == NDIRECT + NINDIRECT
Zero == [j \in 0 .. BSIZE - 1 |-> 0]

VARIABLES bitmap,      \* the blocks marked in use
          bdata,       \* what the blocks hold
          addrs, size, \* of each file
          foff,        \* f->off of its open file
          iheld,       \* the holder of ip->lock
          io,          \* the call each process is in
          written,     \* what the files should hold
          nops, nospace

cvars == <<bitmap, bdata, addrs, size, foff, iheld, io, written, nops, nospace>>

NoIO == [op |-> "none", f |-> Nobody, left |-> 0, n1 |-> 0, tot |-> 0, v |-> 0, blocks |-> {}]

ContentInit ==
  /\ bitmap = {} /\ bdata = [b \in DataBlock |-> [Zero EXCEPT ![0] = b]]
  /\ addrs = [f \in Ino |-> [j \in 0 .. NDIRECT |-> 0]] /\ size = [f \in Ino |-> 0]
  /\ foff = [f \in Ino |-> 0] /\ iheld = [f \in Ino |-> Nobody]
  /\ io = [p \in Proc |-> NoIO] /\ written = [f \in Ino |-> <<>>]
  /\ nops = 0 /\ nospace = FALSE

\* The bitmap block of b; bitmap blocks are numbered after the data blocks here.
BBLOCK(b) == NBlocks + 1 + (b \div BPB)

\* The disk state balloc() and bmap() thread through; blk: blocks log_written,
\* at: the address returned.
State(f) == [map |-> bitmap, dat |-> bdata, adr |-> addrs[f], blk |-> {}, at |-> 0]

balloc(s) ==
  LET b == Min(DataBlock \ s.map) IN
  [s EXCEPT !.map = @ \union {b}, !.dat[b] = Zero, !.blk = @ \union {BBLOCK(b), b}, !.at = b]

bfree(map, b) == map \ {b}

\* The entry n of the inode's addresses, allocated if need be.
Direct(s, n) ==
  IF s.adr[n] # 0 THEN [s EXCEPT !.at = s.adr[n]]
  ELSE LET t == balloc(s) IN [t EXCEPT !.adr[n] = t.at]

\* Mutant: the new block's address is not stored in the indirect block.
Indirect_NotStored(s, n) ==
  LET t == s.at IN IF s.dat[t][n] # 0 THEN [s EXCEPT !.at = s.dat[t][n]] ELSE balloc(s)

Indirect(s, n) ==
  LET t == s.at IN
  IF s.dat[t][n] # 0 THEN [s EXCEPT !.at = s.dat[t][n]]
  ELSE LET u == balloc(s) IN [u EXCEPT !.dat[t][n] = u.at, !.blk = @ \union {t}]

bmap(s, bn) == IF bn < NDIRECT THEN Direct(s, bn)
               ELSE Indirect(Direct(s, NDIRECT), bn - NDIRECT)

\* The blocks bmap() would have to allocate.
Needs(f, bn) ==
  IF bn < NDIRECT THEN IF addrs[f][bn] = 0 THEN 1 ELSE 0
  ELSE IF addrs[f][NDIRECT] = 0 THEN 2
  ELSE IF bdata[addrs[f][NDIRECT]][bn - NDIRECT] = 0 THEN 1 ELSE 0

------------------------------------------------------------------------------
\* The bytes filewrite() puts in one transaction.
max == ((MAXOPBLOCKS - 1 - 1 - 2) \div 2) * BSIZE

Starts(p) == /\ io[p] = NoIO /\ ~nospace /\ nops < MaxOps /\ nops' = nops + 1

\* filewrite() begins; each call writes a byte of its own.
filewrite(p) ==
  /\ Starts(p)
  /\ \E f \in Ino, n \in 1 .. MaxWrite :
       io' = [io EXCEPT ![p] = [NoIO EXCEPT !.op = "filewrite", !.f = f, !.left = n, !.v = nops']]
  /\ UNCHANGED <<bitmap, bdata, addrs, size, foff, iheld, written, nospace>>

\* begin_op(); ilock(); the tests of writei()
filewrite_lock(p) ==
  LET f == io[p].f
      n1 == Min({io[p].left, max}) IN
  /\ io[p].op = "filewrite" /\ iheld[f] = Nobody
  /\ IF foff[f] > size[f] \/ foff[f] + n1 > MAXFILE * BSIZE
     THEN io' = [io EXCEPT ![p] = NoIO] /\ UNCHANGED iheld
     ELSE /\ iheld' = [iheld EXCEPT ![f] = p]
          /\ io' = [io EXCEPT ![p].op = "writei", ![p].n1 = n1, ![p].tot = 0, ![p].blocks = {}]
  /\ UNCHANGED <<bitmap, bdata, addrs, size, foff, written, nops, nospace>>

\* One turn of the loop of writei(); balloc() panics when the disk is full.
writei_block(p) ==
  LET w == io[p]
      off == foff[w.f] + w.tot
      bn == off \div BSIZE
      m == Min({w.n1 - w.tot, BSIZE - (off % BSIZE)})
      s == bmap(State(w.f), bn)
      lo == off % BSIZE
      span == lo .. (lo + m - 1) IN
  /\ w.op = "writei" /\ w.tot < w.n1 /\ ~nospace
  /\ IF Cardinality(DataBlock \ bitmap) < Needs(w.f, bn)
     THEN nospace' = TRUE /\ UNCHANGED <<bitmap, bdata, addrs, io>>
     ELSE /\ bitmap' = s.map
          /\ bdata' = [s.dat EXCEPT ![s.at] = [j \in DOMAIN @ |-> IF j \in span THEN w.v ELSE @[j]]]
          /\ addrs' = [addrs EXCEPT ![w.f] = s.adr]
          /\ io' = [io EXCEPT ![p].tot = w.tot + m, ![p].blocks = @ \union s.blk \union {s.at}]
          /\ UNCHANGED nospace
  /\ UNCHANGED <<size, foff, iheld, written, nops>>

\* The end of writei() and of one transaction of filewrite().
writei_return(p) ==
  LET w == io[p]
      f == w.f
      end == foff[f] + w.n1 IN
  /\ w.op = "writei" /\ w.tot = w.n1
  /\ size' = [size EXCEPT ![f] = Max({@, end})]
  /\ foff' = [foff EXCEPT ![f] = end]
  /\ written' = [written EXCEPT ![f] = [j \in 1 .. Max({Len(@), end}) |->
                   IF j > foff[f] /\ j <= end THEN w.v ELSE @[j]]]
  /\ iheld' = [iheld EXCEPT ![f] = Nobody]
  /\ io' = [io EXCEPT ![p] = IF w.left = w.n1 THEN NoIO
                             ELSE [NoIO EXCEPT !.op = "filewrite", !.f = f, !.v = w.v,
                                               !.left = w.left - w.n1]]
  /\ UNCHANGED <<bitmap, bdata, addrs, nops, nospace>>

\* fileread() moves the offset to what readi() returned; a new open() has its own.
fileread(p) ==
  /\ io[p] = NoIO /\ ~nospace
  /\ \E f \in Ino :
       /\ iheld[f] = Nobody /\ foff[f] <= size[f]
       /\ \E n \in 0 .. MaxWrite : foff' = [foff EXCEPT ![f] = Min({@ + n, size[f]})]
  /\ UNCHANGED <<bitmap, bdata, addrs, size, iheld, io, written, nops, nospace>>

sys_open(p) ==
  /\ io[p] = NoIO /\ ~nospace
  /\ \E f \in Ino : iheld[f] = Nobody /\ foff' = [foff EXCEPT ![f] = 0]
  /\ UNCHANGED <<bitmap, bdata, addrs, size, iheld, io, written, nops, nospace>>

------------------------------------------------------------------------------
\* itrunc() of a file that nobody else can reach (Inode), block by block.
itrunc(p) ==
  /\ Starts(p)
  /\ \E f \in Ino : /\ iheld[f] = Nobody /\ \A q \in Proc : io[q].f # f
                    /\ iheld' = [iheld EXCEPT ![f] = p]
                    /\ io' = [io EXCEPT ![p] = [NoIO EXCEPT !.op = "itrunc", !.f = f]]
  /\ UNCHANGED <<bitmap, bdata, addrs, size, foff, written, nospace>>

\* tot counts the entries gone through: the direct ones, then the indirect ones.
itrunc_block(p) ==
  LET f == io[p].f
      j == io[p].tot
      b == IF j < NDIRECT THEN addrs[f][j]
           ELSE IF addrs[f][NDIRECT] = 0 THEN 0 ELSE bdata[addrs[f][NDIRECT]][j - NDIRECT] IN
  /\ io[p].op = "itrunc" /\ j < MAXFILE
  /\ bitmap' = bfree(bitmap, b)
  /\ addrs' = IF j < NDIRECT THEN [addrs EXCEPT ![f][j] = 0] ELSE addrs
  /\ io' = [io EXCEPT ![p].tot = @ + 1]
  /\ UNCHANGED <<bdata, size, foff, iheld, written, nops, nospace>>


itrunc_return(p) ==
  LET f == io[p].f IN
  /\ io[p].op = "itrunc" /\ io[p].tot = MAXFILE
  /\ bitmap' = bfree(bitmap, addrs[f][NDIRECT])
  /\ addrs' = [addrs EXCEPT ![f][NDIRECT] = 0]
  /\ size' = [size EXCEPT ![f] = 0] /\ foff' = [foff EXCEPT ![f] = 0]
  /\ written' = [written EXCEPT ![f] = <<>>]
  /\ iheld' = [iheld EXCEPT ![f] = Nobody] /\ io' = [io EXCEPT ![p] = NoIO]
  /\ UNCHANGED <<bdata, nops, nospace>>

ContentNext == \E p \in Proc :
  \/ filewrite(p) \/ filewrite_lock(p) \/ writei_block(p) \/ writei_return(p)
  \/ fileread(p) \/ sys_open(p) \/ itrunc(p) \/ itrunc_block(p) \/ itrunc_return(p)

------------------------------------------------------------------------------
ContentTypeOK ==
  /\ bitmap \subseteq DataBlock
  /\ \A f \in Ino : size[f] \in 0 .. MAXFILE * BSIZE /\ foff[f] \in Nat
  /\ \A b \in DataBlock, j \in 0 .. BSIZE - 1 : bdata[b][j] \in Nat

\* Places that name a block: entries of inodes, and of the indirect blocks of
\* files that are not being truncated.
Settled == {f \in Ino : \A p \in Proc : ~(io[p].op = "itrunc" /\ io[p].f = f)}
Places(b) == {x \in Ino \X (0 .. NDIRECT) : addrs[x[1]][x[2]] = b}
             \union {x \in Settled \X (NDIRECT + 1 .. MAXFILE) :
                       /\ addrs[x[1]][NDIRECT] # 0
                       /\ bdata[addrs[x[1]][NDIRECT]][x[2] - NDIRECT - 1] = b}

\* No block belongs to two files or twice to one, and a block in a file is
\* marked in the bitmap: balloc() and bfree() of different files interleave
\* freely, and bfree() never meets a block already free.
BlocksOwnedOnce ==
  \A b \in DataBlock : /\ Cardinality(Places(b)) <= 1
                       /\ Places(b) # {} => b \in bitmap

\* Between calls every block marked in use is in a file: itrunc() gives all
\* back, the indirect block too.
NoBlockLost ==
  (\A p \in Proc : io[p] = NoIO) => \A b \in bitmap : Places(b) # {}

\* What readi() finds under ip->lock, through bmap(), is what the writes and
\* truncations of the file left, byte for byte, whatever other files did.
\* (Block 0 stands for a block that the file does not have.)
InBlock(b) == IF b = 0 THEN Zero ELSE bdata[b]
Holds(f) == [j \in 1 .. size[f] |->
  LET bn == (j - 1) \div BSIZE IN
  InBlock(IF bn < NDIRECT THEN addrs[f][bn]
        ELSE InBlock(addrs[f][NDIRECT])[bn - NDIRECT])[(j - 1) % BSIZE]]
ReadsWhatWasWritten ==
  \A f \in Ino : iheld[f] = Nobody => Holds(f) = written[f]

\* A transaction of filewrite() logs at most the MAXOPBLOCKS blocks that
\* begin_op() set aside, the inode included, "non-aligned writes" too.
WriteFitsOp == \A p \in Proc : io[p].op = "writei" => Cardinality(io[p].blocks) + 1 <= MAXOPBLOCKS

==============================================================================
