-------------------------------- MODULE Mkfs ---------------------------------
(***************************************************************************)
(* mkfs.c: the image it lays out from a list of files.  Sizes count in     *)
(* directory entries.  The geometry of the file system is chosen freely;   *)
(* files that would not fit it are not given to mkfs, which checks neither *)
(* FSSIZE nor NINODES.                                                     *)
(***************************************************************************)
EXTENDS Integers, Sequences, FiniteSets

CONSTANTS EPB,                  \* entries per block, BSIZE / sizeof(dirent)
          KDirect, KIndirect,   \* NDIRECT, NINDIRECT
          KIpb, KBpb,           \* inodes per block, bits per bitmap block
          Sizes,                \* sizes of the files
          Geometries            \* sets of [size, ninodes, nlog]

ROOTINO == 1

VARIABLES geo, img
mkfsVars == <<geo, img>>

ninodeblocks == (geo.ninodes \div KIpb) + 1
nbitmap == (geo.size \div KBpb) + 1
nmeta == 2 + geo.nlog + ninodeblocks + nbitmap

\* The superblock.
sb == [logstart |-> 2, inodestart |-> 2 + geo.nlog, bmapstart |-> 2 + geo.nlog + ninodeblocks]

NoBlocks == [f \in 0 .. KDirect |-> 0]
MkfsInit ==
  /\ geo \in Geometries
  /\ img = [st |-> "new", inodes |-> <<>>, freeblock |-> nmeta, bitmap |-> {}]

\* ialloc(): the next inode.
MkIalloc(m) == [m EXCEPT !.inodes = Append(@, [size |-> 0, addrs |-> NoBlocks,
                                                 ind |-> [f \in 0 .. KIndirect - 1 |-> 0]])]

------------------------------------------------------------------------------

\* The block for fbn, direct or through the indirect block.
Mapped(m, i, fbn) ==
  LET d == m.inodes[i] IN
  IF fbn < KDirect
  THEN IF d.addrs[fbn] # 0 THEN m
       ELSE [m EXCEPT !.inodes[i].addrs[fbn] = m.freeblock, !.freeblock = @ + 1]
  ELSE LET m1 == IF d.addrs[KDirect] # 0 THEN m
                 ELSE [m EXCEPT !.inodes[i].addrs[KDirect] = m.freeblock, !.freeblock = @ + 1] IN
       IF d.ind[fbn - KDirect] # 0 THEN m1
       ELSE [m1 EXCEPT !.inodes[i].ind[fbn - KDirect] = m1.freeblock, !.freeblock = @ + 1]

RECURSIVE iappend(_, _, _)

\* iappend(): n entries at the end of inode i, a block at a time.
iappend(m, i, n) ==
  LET off == m.inodes[i].size
      fbn == off \div EPB
      n1 == IF n < (fbn + 1) * EPB - off THEN n ELSE (fbn + 1) * EPB - off IN
  IF n = 0 THEN m ELSE iappend([Mapped(m, i, fbn) EXCEPT !.inodes[i].size = @ + n1], i, n - n1)

\* main(): the root with "." and ".."; then each file and its entry.
main_root == /\ img.st = "new"
             /\ img' = iappend(iappend([MkIalloc(img) EXCEPT !.st = "files"], ROOTINO, 1), ROOTINO, 1)
             /\ UNCHANGED geo

main_file(n) ==
  LET m == iappend(MkIalloc(img), ROOTINO, 1)
      m1 == iappend(m, Len(m.inodes), n) IN
  /\ img.st = "files" /\ Len(img.inodes) < geo.ninodes - 1
  /\ m.inodes[ROOTINO].size < (KDirect + KIndirect) * EPB /\ m1.freeblock <= geo.size
  /\ img' = m1 /\ UNCHANGED geo

\* The size of the root is rounded up to whole blocks, and balloc() marks the
\* blocks in one bitmap block (it asserts that one is enough).
main_finish ==
  /\ img.st = "files" /\ img.freeblock < KBpb
  /\ img' = [img EXCEPT !.st = "done", !.inodes[ROOTINO].size = ((@ \div EPB) + 1) * EPB,
                        !.bitmap = 0 .. img.freeblock - 1]
  /\ UNCHANGED geo

MkfsNext == main_root \/ (\E n \in Sizes : main_file(n)) \/ main_finish

------------------------------------------------------------------------------
\* The places of the image that hold a block number, and what they hold.
Refs == {<<i, "direct", f>> : i \in 1 .. Len(img.inodes), f \in 0 .. KDirect}
          \union {<<i, "indirect", f>> : i \in 1 .. Len(img.inodes), f \in 0 .. KIndirect - 1}
BlockAt(r) == IF r[2] = "direct" THEN img.inodes[r[1]].addrs[r[3]] ELSE img.inodes[r[1]].ind[r[3]]
Used == {BlockAt(r) : r \in Refs} \ {0}

\* The image is what the kernel's file system expects: no block belongs to two
\* files, and the bitmap marks exactly the blocks in use and the ones before
\* the data, so that the kernel's balloc() gives out no block of a file.
ImageBlocksOnce ==
  /\ \A q, r \in Refs : q # r /\ BlockAt(q) # 0 => BlockAt(q) # BlockAt(r)
  /\ Used = nmeta .. img.freeblock - 1
  /\ img.st = "done" => img.bitmap = (0 .. nmeta - 1) \union Used

\* Each file has the blocks its size needs and no more; the rounded root lacks
\* its last block exactly when its entries filled whole blocks.
Fbns(i) == {f \in 0 .. KDirect - 1 : img.inodes[i].addrs[f] # 0}
             \union {f + KDirect : f \in {g \in 0 .. KIndirect - 1 : img.inodes[i].ind[g] # 0}}
SizesMatchBlocks ==
  \A i \in 1 .. Len(img.inodes) :
    LET need == (img.inodes[i].size + EPB - 1) \div EPB IN
    IF i = ROOTINO /\ img.st = "done"
    THEN Fbns(i) = 0 .. need - (IF (Len(img.inodes) + 1) % EPB = 0 THEN 2 ELSE 1)
    ELSE Fbns(i) = 0 .. need - 1

\* The regions follow one another without overlap for every geometry: the
\* kernel finds each inode (IBLOCK) and each bit (BBLOCK) inside its region.
IBLOCK(i) == (i \div KIpb) + sb.inodestart
BBLOCK(b) == (b \div KBpb) + sb.bmapstart
LayoutSound ==
  /\ \A i \in 0 .. geo.ninodes - 1 : IBLOCK(i) \in sb.logstart + geo.nlog .. sb.bmapstart - 1
  /\ \A b \in 0 .. geo.size - 1 : BBLOCK(b) \in sb.bmapstart .. nmeta - 1

==============================================================================
