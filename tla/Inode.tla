------------------------------- MODULE Inode -------------------------------
(***************************************************************************)
(* The inode cache, directories and the system calls on names (fs.c,       *)
(* sysfile.c): iget, ilock, iput, dirlookup, dirlink, namex, sys_link,     *)
(* sys_unlink, create, sys_open, sys_mkdir, sys_mknod, sys_chdir and       *)
(* the iput of fileclose, run by several processes at once.                *)
(*                                                                         *)
(* A step runs from one point where the code may sleep (an inode's sleep   *)
(* lock) or where icache.lock is let go to the next.  Buffers are not      *)
(* shown (Bcache), nor transactions (Log): the bread/log_write of one      *)
(* block is one step.  File contents other than directory entries are      *)
(* left out, and NINODE is at least the number of inodes in use.           *)
(***************************************************************************)
EXTENDS Integers, Sequences, FiniteSets, TLC, Kernel

CONSTANTS Inum,      \* inode numbers 1 .. sb.ninodes - 1; 0 is no inode
          Name,      \* names other than "." and ".."
          Paths,     \* paths given to system calls: sequences of elements
          Tree,      \* the file system at boot: [Inum -> [type, nlink, ents]]
          Calls,     \* the system calls made
          MaxCalls   \* bound on the number of calls

ROOTINO == 1
Elem == Name \union {".", ".."}
NoEnts == [n \in Elem |-> 0]
NoInode == [type |-> "none", nlink |-> 0]

VARIABLES dinode,    \* the inodes on disk, as the transactions write them
          ents,      \* the contents of the directories
          inode,     \* the type and nlink of the cached copies
          ivalid,    \* the cached copies with ip->valid set
          iref,      \* ip->ref
          ilk,       \* the holder of ip->lock
          cwd, ofd,  \* current directory and open inode of a process
          th,        \* where each process is in its system call
          ncalls,
          removed    \* a name was made in a directory already removed

ivars == <<dinode, ents, inode, ivalid, iref, ilk, cwd, ofd, th, ncalls, removed>>

\* pc: the next point of the system call; walk: namex() is running; par: for
\* the parent; ip: namex's inode, later dp; old: the call's other inode; puts:
\* the inodes to iput() before going on, sub: where iput() is.
Idle == [pc |-> "idle", op |-> "none", path |-> <<>>, new |-> <<>>, par |-> FALSE,
         walk |-> FALSE, ip |-> 0, nm |-> ".", old |-> 0, puts |-> <<>>, sub |-> "lock"]

InodeInit ==
  /\ dinode = [i \in Inum |-> [type |-> Tree[i].type, nlink |-> Tree[i].nlink]]
  /\ ents = [i \in Inum |-> Tree[i].ents]
  /\ inode = [i \in Inum |-> NoInode] /\ ivalid = {}
  /\ iref = [i \in Inum |-> IF i = ROOTINO THEN Cardinality(Proc) ELSE 0]
  /\ ilk = [i \in Inum |-> Nobody]
  /\ cwd = [p \in Proc |-> ROOTINO] /\ ofd = [p \in Proc |-> 0]
  /\ th = [p \in Proc |-> Idle] /\ ncalls = 0 /\ removed = FALSE

Advance(p, r) == th' = [th EXCEPT ![p] = r @@ @]

\* The call goes on to end_op() after putting the inodes s.
End(p, s) == th' = [th EXCEPT ![p] = [Idle EXCEPT !.pc = IF s = <<>> THEN "idle" ELSE "end",
                                                  !.puts = s]]

\* iget() and idup(): one more reference to i, from the disk or from a pointer.
iget(i) == iref' = [iref EXCEPT ![i] = @ + 1]

\* The inode number that directory d has for a name, 0 if none.
dirlookup(d, name) == ents[d][name]

\* The inode ialloc() takes: the first free one on disk.
ialloc(i) == dinode[i].type = "none" /\ \A j \in 1 .. i - 1 : dinode[j].type # "none"

\* The cached inode as ilock() leaves it.
Loaded(i) == IF i \in ivalid THEN inode[i] ELSE dinode[i]

\* The inode whose sleep lock p is about to acquire; 0 if none.
Wants(p) ==
  LET t == th[p] IN
  CASE t.puts # <<>> -> IF t.sub = "lock" THEN Head(t.puts) ELSE 0
    [] t.puts = <<>> /\ t.walk -> IF t.path = <<>> THEN 0 ELSE t.ip
    [] OTHER -> IF t.pc \in {"link_bad", "unlink_ip", "create_old", "create_new"} THEN t.old
                ELSE IF t.pc \in {"link_ip", "link_dp", "unlink_dp", "create_dp",
                                  "open_ip", "chdir_ip"} THEN t.ip ELSE 0

\* ilock() outside iput(): it reads the inode if it is not valid.
ilock(p, i) ==
  /\ th[p].puts = <<>> /\ Wants(p) = i /\ i # 0 /\ ilk[i] = Nobody
  /\ Loaded(i).type # "none"

\* What ilock() leaves in the cache, and iupdate() of the changes upd.
Cache(i, upd) ==
  /\ inode' = upd @@ (i :> Loaded(i)) @@ inode
  /\ dinode' = upd @@ dinode
  /\ ivalid' = ivalid \union {i}

Link(i, d) == i :> [Loaded(i) EXCEPT !.nlink = @ + d]

\* The point a failed namex() returns to.
Failed(t) == IF t.op = "link" /\ t.old # 0 THEN "link_bad" ELSE "end"

------------------------------------------------------------------------------
\* iput(): the steps between its locks.  iget() clears valid when it recycles
\* an entry; here the entry is cleared as its last reference goes.


CanFree(i) == i \in ivalid /\ inode[i].nlink = 0 /\ iref[i] = 1

iput_lock(p) ==
  LET i == Head(th[p].puts) IN
  /\ th[p].puts # <<>> /\ th[p].sub = "lock" /\ ilk[i] = Nobody
  /\ ilk' = [ilk EXCEPT ![i] = p]
  /\ Advance(p, [sub |-> IF CanFree(i) THEN "trunc" ELSE "release"])
  /\ UNCHANGED <<dinode, ents, inode, ivalid, iref, cwd, ofd, ncalls, removed>>

\* itrunc(); ip->type = 0; iupdate()
iput_trunc(p) ==
  LET i == Head(th[p].puts) IN
  /\ th[p].puts # <<>> /\ th[p].sub = "trunc"
  /\ inode' = [inode EXCEPT ![i].type = "none"]
  /\ dinode' = [dinode EXCEPT ![i] = inode'[i]]
  /\ ents' = [ents EXCEPT ![i] = NoEnts]
  /\ Advance(p, [sub |-> "invalid"])
  /\ UNCHANGED <<ivalid, iref, ilk, cwd, ofd, ncalls, removed>>

iput_release(p) ==
  LET i == Head(th[p].puts) IN
  /\ th[p].puts # <<>> /\ th[p].sub \in {"invalid", "release"}
  /\ ivalid' = IF th[p].sub = "invalid" THEN ivalid \ {i} ELSE ivalid
  /\ ilk' = [ilk EXCEPT ![i] = Nobody]
  /\ Advance(p, [sub |-> "ref"])
  /\ UNCHANGED <<dinode, ents, inode, iref, cwd, ofd, ncalls, removed>>

iput_ref(p) ==
  LET t == th[p]
      i == Head(t.puts) IN
  /\ t.puts # <<>> /\ t.sub = "ref"
  /\ iref' = [iref EXCEPT ![i] = @ - 1]
  /\ ivalid' = IF iref[i] = 1 THEN ivalid \ {i} ELSE ivalid
  /\ inode' = IF iref[i] = 1 THEN [inode EXCEPT ![i] = NoInode] ELSE inode
  /\ IF t.pc = "end" THEN End(p, Tail(t.puts))
     ELSE Advance(p, [sub |-> "lock", puts |-> Tail(t.puts)])
  /\ UNCHANGED <<dinode, ents, ilk, cwd, ofd, ncalls, removed>>

------------------------------------------------------------------------------
\* namex(): one element of the path.  The inode is locked and unlocked inside
\* the step; the iput() that follows is not.
namex(p) ==
  LET t == th[p]
      i == t.ip
      isdir == Loaded(i).type = "dir"
      last == t.par /\ Len(t.path) = 1
      next == dirlookup(i, Head(t.path)) IN
  /\ t.walk /\ ilock(p, i) /\ Cache(i, <<>>)
  /\ \/ /\ isdir /\ last
        /\ Advance(p, [walk |-> FALSE, nm |-> t.path[1], path |-> <<>>])
        /\ UNCHANGED iref
     \/ /\ isdir /\ ~last /\ next # 0
        /\ iget(next)
        /\ Advance(p, [path |-> Tail(t.path), ip |-> next, puts |-> <<i>>])
     \/ /\ ~isdir \/ (~last /\ next = 0)
        /\ Advance(p, [walk |-> FALSE, pc |-> Failed(t), path |-> <<>>, ip |-> 0, puts |-> <<i>>])
        /\ UNCHANGED iref
  /\ UNCHANGED <<ents, ilk, cwd, ofd, ncalls, removed>>

\* namex() out of path elements.
namex_return(p) ==
  LET t == th[p] IN
  /\ t.puts = <<>> /\ t.walk /\ t.path = <<>>
  /\ IF t.par THEN Advance(p, [walk |-> FALSE, pc |-> Failed(t), ip |-> 0, puts |-> <<t.ip>>])
     ELSE Advance(p, [walk |-> FALSE])
  /\ UNCHANGED <<dinode, ents, inode, ivalid, iref, ilk, cwd, ofd, ncalls, removed>>

FirstPoint == [link |-> "link_ip", unlink |-> "unlink_dp", creat |-> "create_dp",
               mkdir |-> "create_dp", mknod |-> "create_dp", open |-> "open_ip",
               chdir |-> "chdir_ip"]

\* A system call starts; paths are absolute (from) or relative.
syscall(p) ==
  /\ th[p].pc = "idle" /\ ncalls < MaxCalls /\ ncalls' = ncalls + 1
  /\ \/ \E op \in Calls \ {"close"}, path, new \in Paths, from \in {ROOTINO, cwd[p]} :
          /\ op \in {"open", "creat"} => ofd[p] = 0
          /\ op # "link" => new = path
          /\ Advance(p, [pc |-> FirstPoint[op], op |-> op, path |-> path,
                    new |-> IF op = "link" THEN new ELSE <<>>, walk |-> TRUE, ip |-> from,
                    par |-> op \in {"unlink", "creat", "mkdir", "mknod"}])
          /\ iget(from)
          /\ UNCHANGED ofd
     \/ /\ "close" \in Calls /\ ofd[p] # 0
        /\ End(p, <<ofd[p]>>) /\ ofd' = [ofd EXCEPT ![p] = 0]
        /\ UNCHANGED iref
  /\ UNCHANGED <<dinode, ents, inode, ivalid, ilk, cwd, removed>>

Point(p, point) == th[p].pc = point /\ ~th[p].walk /\ th[p].puts = <<>>

------------------------------------------------------------------------------

\* sys_link(): the count goes up first, so that the name never exists without it.
link_ip(p) ==
  LET t == th[p]
      i == t.ip IN
  /\ Point(p, "link_ip") /\ ilock(p, i)
  /\ \/ /\ Loaded(i).type = "dir"
        /\ Cache(i, <<>>) /\ End(p, <<i>>) /\ UNCHANGED iref
     \/ /\ Loaded(i).type # "dir" /\ Cache(i, Link(i, 1))
        /\ \E from \in {ROOTINO, cwd[p]} :
             /\ iget(from)
             /\ Advance(p, [pc |-> "link_dp", old |-> i, ip |-> from, path |-> t.new,
                       new |-> <<>>, par |-> TRUE, walk |-> TRUE])
  /\ UNCHANGED <<ents, ilk, cwd, ofd, ncalls, removed>>

\* dirlink(): a name that is there is put with dp locked.
link_dp(p) ==
  LET t == th[p]
      d == t.ip
      found == dirlookup(d, t.nm) IN
  /\ Point(p, "link_dp") /\ ilock(p, d) /\ Cache(d, <<>>)
  /\ \/ /\ found = 0
        /\ ents' = [ents EXCEPT ![d][t.nm] = t.old]
        /\ removed' = (removed \/ Loaded(d).nlink = 0)
        /\ End(p, <<d, t.old>>) /\ UNCHANGED <<iref, ilk>>
     \/ /\ found # 0
        /\ iget(found)
        /\ ilk' = [ilk EXCEPT ![d] = p]
        /\ Advance(p, [pc |-> "link_exists", puts |-> <<found>>]) /\ UNCHANGED <<ents, removed>>
  /\ UNCHANGED <<cwd, ofd, ncalls>>

link_exists(p) ==
  LET d == th[p].ip IN
  /\ Point(p, "link_exists")
  /\ ilk' = [ilk EXCEPT ![d] = Nobody]
  /\ Advance(p, [pc |-> "link_bad", ip |-> 0, puts |-> <<d>>])
  /\ UNCHANGED <<dinode, ents, inode, ivalid, iref, cwd, ofd, ncalls, removed>>

\* Mutant: the error path leaves the count up.
link_bad_Kept(p) ==
  LET i == th[p].old IN
  /\ Point(p, "link_bad") /\ ilock(p, i) /\ Cache(i, <<>>)
  /\ End(p, <<i>>)
  /\ UNCHANGED <<ents, iref, ilk, cwd, ofd, ncalls, removed>>

link_bad(p) ==
  LET i == th[p].old IN
  /\ Point(p, "link_bad") /\ ilock(p, i) /\ Cache(i, Link(i, -1))
  /\ End(p, <<i>>)
  /\ UNCHANGED <<ents, iref, ilk, cwd, ofd, ncalls, removed>>

------------------------------------------------------------------------------
\* sys_unlink()
unlink_dp(p) ==
  LET t == th[p]
      d == t.ip
      found == dirlookup(d, t.nm) IN
  /\ Point(p, "unlink_dp") /\ ilock(p, d) /\ Cache(d, <<>>)
  /\ \/ /\ t.nm \in {".", ".."} \/ found = 0
        /\ End(p, <<d>>) /\ UNCHANGED <<iref, ilk>>
     \/ /\ t.nm \notin {".", ".."} /\ found # 0
        /\ iget(found)
        /\ ilk' = [ilk EXCEPT ![d] = p]
        /\ Advance(p, [pc |-> "unlink_ip", old |-> found])
  /\ UNCHANGED <<ents, cwd, ofd, ncalls, removed>>

isdirempty(i) == \A n \in Name : ents[i][n] = 0

\* dp is let go, and put, before the inode's own count goes down.
unlink_ip(p) ==
  LET t == th[p]
      d == t.ip
      i == t.old
      isdir == Loaded(i).type = "dir" IN
  /\ Point(p, "unlink_ip") /\ ilock(p, i) /\ Loaded(i).nlink > 0
  /\ \/ /\ isdir /\ ~isdirempty(i) /\ Cache(i, <<>>)
        /\ Advance(p, [pc |-> "unlink_bad", old |-> 0, puts |-> <<i>>])
        /\ UNCHANGED <<ents, ilk>>
     \/ /\ isdir => isdirempty(i)
        /\ ents' = [ents EXCEPT ![d][t.nm] = 0]
        /\ Cache(i, IF isdir THEN Link(d, -1) ELSE <<>>)
        /\ ilk' = [ilk EXCEPT ![i] = p, ![d] = Nobody]
        /\ Advance(p, [pc |-> "unlink_done", ip |-> 0, puts |-> <<d>>])
  /\ UNCHANGED <<iref, cwd, ofd, ncalls, removed>>

unlink_bad(p) ==
  LET d == th[p].ip IN
  /\ Point(p, "unlink_bad")
  /\ ilk' = [ilk EXCEPT ![d] = Nobody] /\ End(p, <<d>>)
  /\ UNCHANGED <<dinode, ents, inode, ivalid, iref, cwd, ofd, ncalls, removed>>

unlink_done(p) ==
  LET i == th[p].old IN
  /\ Point(p, "unlink_done") /\ Cache(i, Link(i, -1))
  /\ ilk' = [ilk EXCEPT ![i] = Nobody] /\ End(p, <<i>>)
  /\ UNCHANGED <<ents, iref, cwd, ofd, ncalls, removed>>

------------------------------------------------------------------------------
\* create(), for open(O_CREATE), mkdir and mknod
Type(op) == CASE op = "mkdir" -> "dir" [] op = "mknod" -> "dev" [] OTHER -> "file"

\* With dp locked: the name is there, or ialloc() takes a free inode.
create_dp(p) ==
  LET t == th[p]
      d == t.ip
      found == dirlookup(d, t.nm) IN
  /\ Point(p, "create_dp") /\ ilock(p, d)
  /\ \/ /\ found # 0 /\ Cache(d, <<>>)
        /\ iget(found)
        /\ Advance(p, [pc |-> "create_old", old |-> found, ip |-> 0, puts |-> <<d>>])
        /\ UNCHANGED ilk
     \/ /\ found = 0
        /\ \E i \in Inum :
             /\ ialloc(i)
             /\ inode' = (d :> Loaded(d)) @@ inode /\ ivalid' = ivalid \union {d}
             /\ dinode' = [dinode EXCEPT ![i] = [type |-> Type(t.op), nlink |-> 0]]
             /\ iget(i)
             /\ ilk' = [ilk EXCEPT ![d] = p]
             /\ Advance(p, [pc |-> "create_new", old |-> i])
  /\ UNCHANGED <<ents, cwd, ofd, ncalls, removed>>

create_old(p) ==
  LET t == th[p]
      i == t.old IN
  /\ Point(p, "create_old") /\ ilock(p, i) /\ Cache(i, <<>>)
  /\ IF t.op = "creat" /\ Loaded(i).type = "file"
     THEN End(p, <<>>) /\ ofd' = [ofd EXCEPT ![p] = i]
     ELSE End(p, <<i>>) /\ UNCHANGED ofd
  /\ UNCHANGED <<ents, iref, ilk, cwd, ncalls, removed>>

create_new(p) ==
  LET t == th[p]
      d == t.ip
      i == t.old
      isdir == t.op = "mkdir"
      new == i :> [Loaded(i) EXCEPT !.nlink = 1] IN
  /\ Point(p, "create_new") /\ ilock(p, i)
  /\ Cache(i, IF isdir THEN new @@ Link(d, 1) ELSE new)
  /\ ents' = (d :> [ents[d] EXCEPT ![t.nm] = i])
             @@ (i :> IF isdir THEN [NoEnts EXCEPT !["."] = i, ![".."] = d] ELSE NoEnts) @@ ents
  /\ removed' = (removed \/ Loaded(d).nlink = 0)
  /\ ilk' = [ilk EXCEPT ![i] = p, ![d] = Nobody]
  /\ Advance(p, [pc |-> "create_done", ip |-> 0, puts |-> <<d>>])
  /\ UNCHANGED <<iref, cwd, ofd, ncalls>>

\* The caller of create(): open keeps the inode, the others iunlockput() it.
create_done(p) ==
  LET i == th[p].old IN
  /\ Point(p, "create_done")
  /\ ilk' = [ilk EXCEPT ![i] = Nobody]
  /\ IF th[p].op = "creat" THEN End(p, <<>>) /\ ofd' = [ofd EXCEPT ![p] = i]
     ELSE End(p, <<i>>) /\ UNCHANGED ofd
  /\ UNCHANGED <<dinode, ents, inode, ivalid, iref, cwd, ncalls, removed>>

\* sys_open() without O_CREATE: a directory opened for writing is refused.
open_ip(p) ==
  LET i == th[p].ip IN
  /\ Point(p, "open_ip") /\ ilock(p, i) /\ Cache(i, <<>>)
  /\ \/ End(p, <<>>) /\ ofd' = [ofd EXCEPT ![p] = i]
     \/ Loaded(i).type = "dir" /\ End(p, <<i>>) /\ UNCHANGED ofd
  /\ UNCHANGED <<ents, iref, ilk, cwd, ncalls, removed>>

\* sys_chdir(): the old directory is put before the new one is installed.
chdir_ip(p) ==
  LET i == th[p].ip IN
  /\ Point(p, "chdir_ip") /\ ilock(p, i) /\ Cache(i, <<>>)
  /\ IF Loaded(i).type # "dir" THEN End(p, <<i>>)
     ELSE Advance(p, [pc |-> "chdir_set", puts |-> <<cwd[p]>>])
  /\ UNCHANGED <<ents, iref, ilk, cwd, ofd, ncalls, removed>>

chdir_set(p) ==
  /\ Point(p, "chdir_set")
  /\ cwd' = [cwd EXCEPT ![p] = th[p].ip] /\ End(p, <<>>)
  /\ UNCHANGED <<dinode, ents, inode, ivalid, iref, ilk, ofd, ncalls, removed>>

InodeNext == \E p \in Proc :
  \/ syscall(p) \/ namex(p) \/ namex_return(p)
  \/ iput_lock(p) \/ iput_trunc(p) \/ iput_release(p) \/ iput_ref(p)
  \/ link_ip(p) \/ link_dp(p) \/ link_exists(p) \/ link_bad(p)
  \/ unlink_dp(p) \/ unlink_ip(p) \/ unlink_bad(p) \/ unlink_done(p)
  \/ create_dp(p) \/ create_old(p) \/ create_new(p) \/ create_done(p)
  \/ open_ip(p) \/ chdir_ip(p) \/ chdir_set(p)

InodeSpec == InodeInit /\ [][InodeNext]_ivars

------------------------------------------------------------------------------
InodeTypeOK ==
  /\ \A i \in Inum : /\ dinode[i].type \in {"none", "dir", "file", "dev"}
                     /\ dinode[i].nlink \in Nat /\ iref[i] \in Nat
                     /\ ilk[i] \in Proc \union {Nobody}
                     /\ ents[i] \in [Elem -> Inum \union {0}]
  /\ ivalid \subseteq Inum

\* The references to inode i that processes and their calls hold.
Pointers(i) ==
  Cardinality({p \in Proc : cwd[p] = i /\ th[p].pc # "chdir_set"})
  + Cardinality({p \in Proc : ofd[p] = i})
  + Cardinality({p \in Proc : th[p].ip = i}) + Cardinality({p \in Proc : th[p].old = i})
  + Cardinality({q \in Proc \X (1..3) : q[2] <= Len(th[q[1]].puts) /\ th[q[1]].puts[q[2]] = i})

\* ip->ref "tracks the number of in-memory pointers to the entry": no path
\* through the system calls, errors included, loses or forgets a reference.
RefTracksPointers == \A i \in Inum : iref[i] = Pointers(i)

\* Names of i: directory entries other than dots, and the ".." of the
\* directories that have a name.
Named(d) == \E e \in Inum, n \in Name : ents[e][n] = d
Links(i) == Cardinality({x \in Inum \X Name : ents[x[1]][x[2]] = i})
            + Cardinality({d \in Inum : d # ROOTINO /\ ents[d][".."] = i /\ Named(d)})

\* At every step nlink on disk covers the names there are, so that iput() can
\* free no inode that a directory still names, wherever a crash falls.
LinksCovered == \A i \in Inum \ {ROOTINO} : dinode[i].nlink >= Links(i)

\* Between calls nlink is exact: nothing is kept for ever.  (A name made in a
\* directory already removed goes with the directory and its count stays.)
LinksExact ==
  ((\A p \in Proc : th[p].pc = "idle") /\ ~removed) =>
    \A i \in Inum \ {ROOTINO} : dinode[i].nlink = Links(i)

\* An inode in use by a process, or named by a directory, is allocated.
NoDanglingInode ==
  \A i \in Inum : dinode[i].type = "none" =>
    /\ ~Named(i)
    /\ \A p \in Proc : ofd[p] # i /\ (cwd[p] = i => th[p].pc = "chdir_set")

\* "The inode cache is write-through": an unlocked valid copy is the disk's.
CacheWriteThrough == \A i \in ivalid : ilk[i] = Nobody => inode[i] = dinode[i]

\* No process panics in ilock() ("no type") or sys_unlink() ("nlink < 1").
NoInodePanic ==
  \A p \in Proc : LET i == Wants(p) IN
    (i # 0 /\ th[p].puts = <<>> /\ ilk[i] = Nobody) =>
      /\ Loaded(i).type # "none"
      /\ th[p].pc = "unlink_ip" => Loaded(i).nlink > 0

\* "The separation also helps avoid deadlock": no two processes each hold the
\* inode lock the other one waits for, and none waits for its own.
NoLockCycle ==
  \A p, q \in Proc : ~(/\ Wants(p) # 0 /\ Wants(q) # 0
                       /\ ilk[Wants(p)] = q /\ ilk[Wants(q)] = p)

\* ref and nlink are the numbers of pointers and of names.
CountsMatch == InodeTypeOK /\ RefTracksPointers /\ LinksCovered /\ LinksExact

==============================================================================
