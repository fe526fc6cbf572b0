------------------------------ MODULE FileSys -------------------------------
(***************************************************************************)
(* Names, inodes and open files: the inode layer, directories and paths of *)
(* fs.c, the system calls of sysfile.c, and the table of open files of     *)
(* file.c, with any number of processes in them at once.                   *)
(*                                                                         *)
(* A section of a call that holds one inode lock, or a spin-lock, and      *)
(* takes no other lock is one step.  Where a call holds the lock of one    *)
(* inode while it waits for another, or between the parts of iput, there   *)
(* is a step for each.  The inode cache is write-through (iupdate follows  *)
(* every change), so type and nlink are kept once, as on the disk; all     *)
(* changes are inside transactions of module Log, and what a crash leaves  *)
(* is the state of a moment without calls in progress.  Module FileData    *)
(* has what files contain; here a directory maps names to inodes.          *)
(*                                                                         *)
(* The kernel's panics are not steps: a process that meets one stops where *)
(* it is.  NoPanic says which of them are never due; ialloc's, iget's and  *)
(* the one that the ".." of a removed directory leads to can be.           *)
(***************************************************************************)
EXTENDS Integers, Sequences, FiniteSets, SequencesExt, FiniteSetsExt

CONSTANTS
  Proc, Nobody,
  NINODES,     \* inodes on the disk
  Name,        \* names of files, apart from "." and ".."
  NINODE,      \* entries of the inode cache
  NFILE, NOFILE,
  Calls,       \* the calls programs make: op, path and, for link, the new path
  Image        \* the disk at boot: inode number -> type, nlink, entries

ROOTINO == 1
Inum == 1..NINODES
File == 1..NFILE
Fd == 1..NOFILE

ASSUME FileSysAssumption ==
  /\ IsFiniteSet(Proc) /\ Nobody \notin Proc
  /\ NINODES \in Nat \ {0} /\ NINODE \in Nat \ {0} /\ NFILE \in Nat /\ NOFILE \in Nat
  /\ Name \cap {".", ".."} = {}
  /\ DOMAIN Image \subseteq Inum /\ ROOTINO \in DOMAIN Image
  /\ \A i \in DOMAIN Image :
       /\ Image[i].type \in {"DIR", "FILE", "DEV"} /\ Image[i].nlink \in Nat
       /\ \A e \in DOMAIN Image[i].ents : Image[i].ents[e] \in DOMAIN Image

VARIABLES
  dinode,   \* type and nlink of the inodes
  dir,      \* the entries of the directories
  valid,    \* ip->valid in the inode cache
  ref,      \* ip->ref
  lock,     \* the holder of ip->lock
  file,     \* ftable: ref and ip
  ofile,    \* the descriptors of each process
  cwd,      \* its current directory; 0 for a process that does not exist
  pc,       \* where it is
  loc,      \* the local variables of its call
  lost,     \* history: how many names of an inode went with a directory that was freed
  stray     \* history: a call has gone from a removed directory to one without links

inodes == <<dinode, dir>>
hist == <<lost, stray>>
disk == <<inodes, hist>>
cache == <<valid, ref>>
files == <<file, ofile, cwd>>
vars == <<disk, cache, lock, files, pc, loc>>

Free == [type |-> "none", nlink |-> 0]
Entry == Name \cup {".."}
NoEntries == [e \in Entry |-> 0]

\* dp: the directory of namex; ip: the inode of the call; puts: the inodes whose
\* iput is due before the call goes on at label then.
NoLocals == [op |-> "none", rest |-> << >>, new |-> << >>, dp |-> 0, ip |-> 0,
             puts |-> << >>, then |-> "user"]

\* What mkfs and earlier calls have put on the disk; one process runs in "/".
Init ==
  /\ dinode = [i \in Inum |-> IF i \in DOMAIN Image
                 THEN [type |-> Image[i].type, nlink |-> Image[i].nlink] ELSE Free]
  /\ dir = [i \in Inum |-> [e \in Entry |->
              IF i \in DOMAIN Image /\ e \in DOMAIN Image[i].ents THEN Image[i].ents[e] ELSE 0]]
  /\ valid = [i \in Inum |-> FALSE]
  /\ lock = [i \in Inum |-> Nobody]
  /\ file = [f \in File |-> [ref |-> 0, ip |-> 0]]
  /\ ofile = [p \in Proc |-> [d \in Fd |-> 0]]
  /\ \E p \in Proc : cwd = [q \in Proc |-> IF q = p THEN ROOTINO ELSE 0]
  /\ ref = [i \in Inum |-> IF i = ROOTINO THEN 1 ELSE 0]
  /\ pc = [p \in Proc |-> "user"]
  /\ loc = [p \in Proc |-> NoLocals]
  /\ lost = [i \in Inum |-> 0] /\ stray = FALSE

-----------------------------------------------------------------------------
(* The inode layer *)

\* acquiresleep waits for this.
Lockable(i) == lock[i] = Nobody

\* ilock panics on an inode that is free.
Ilock(i) == Lockable(i) /\ dinode[i].type # "none"

\* iget panics when every entry of the cache is in use.
Room(G) == Cardinality({i \in Inum : ref[i] > 0} \cup G) <= NINODE

\* In a step, ilock reads the inodes in L and iget is called for those in G: they
\* gain a reference, and an entry that nobody used is filled anew.
Touch(L, G) ==
  /\ Room(G)
  /\ ref' = [i \in Inum |-> ref[i] + IF i \in G THEN 1 ELSE 0]
  /\ valid' = [i \in Inum |-> (valid[i] \/ i \in L) /\ ~(i \in G /\ ref[i] = 0)]

\* After a step p holds the locks of the inodes in S.
Holding(p, S) ==
  lock' = [i \in Inum |-> IF i \in S THEN p ELSE IF lock[i] = p THEN Nobody ELSE lock[i]]

Goto(p, l, locals) ==
  /\ pc' = [pc EXCEPT ![p] = l]
  /\ loc' = [loc EXCEPT ![p] = locals]

\* iput the inodes of a sequence, then go on at label l.
Put(p, s, l, locals) == Goto(p, "iput", [locals EXCEPT !.puts = s, !.then = l])

\* The end of a call, after the iput of the inodes it still has.
Finish(p, s) == Put(p, s, "user", NoLocals)

\* Mutants: iput does not look at the other references; or at the links.
UnlinkedOnly(i) == valid[i] /\ dinode[i].nlink = 0
LastOnly(i) == valid[i] /\ ref[i] = 1

\* iput's test, under ip->lock.
Unreachable(i) == valid[i] /\ dinode[i].nlink = 0 /\ ref[i] = 1

Iput(p) ==
  /\ pc[p] = "iput"
  /\ LET i == Head(loc[p].puts) IN
       /\ Lockable(i)
       /\ IF Unreachable(i)
          THEN lock' = [lock EXCEPT ![i] = p] /\ Goto(p, "itrunc", loc[p])
          ELSE UNCHANGED lock /\ Goto(p, "iref", loc[p])
  /\ UNCHANGED <<disk, cache, files>>

\* itrunc, type = 0, iupdate, valid = 0, releasesleep.
Itrunc(p) ==
  /\ pc[p] = "itrunc"
  /\ LET i == Head(loc[p].puts) IN
       /\ dinode' = [dinode EXCEPT ![i] = Free]
       /\ dir' = [dir EXCEPT ![i] = NoEntries]
       /\ valid' = [valid EXCEPT ![i] = FALSE]
       /\ lock' = [lock EXCEPT ![i] = Nobody]
       /\ lost' = [j \in Inum |-> lost[j] + Cardinality({n \in Name : dir[i][n] = j})]
  /\ Goto(p, "iref", loc[p])
  /\ UNCHANGED <<ref, files, stray>>

Iref(p) ==
  /\ pc[p] = "iref"
  /\ ref' = [ref EXCEPT ![Head(loc[p].puts)] = @ - 1]
  /\ LET rest == Tail(loc[p].puts) IN
       IF rest # << >> THEN Put(p, rest, loc[p].then, loc[p])
       ELSE Goto(p, loc[p].then, [loc[p] EXCEPT !.puts = << >>, !.then = "user"])
  /\ UNCHANGED <<disk, valid, lock, files>>

-----------------------------------------------------------------------------
(* Paths: namex *)

Lookup(d, n) == IF n = "." THEN d ELSE dir[d][n]

\* The root, and the directories that are in another; the others are removed.
Named(d) == d = ROOTINO \/ \E e \in Inum, n \in Name : dir[e][n] = d

\* History: nothing keeps the inode that ".." of a removed directory names.
Follow(d, n) == stray' = (stray \/ (n = ".." /\ ~Named(d) /\ dinode[Lookup(d, n)].nlink = 0))

Absolute(path) == path # << >> /\ Head(path) = "/"
Start(p, path) == IF Absolute(path) THEN ROOTINO ELSE cwd[p]
Elems(path) == IF Absolute(path) THEN Tail(path) ELSE path

\* Paths that programs give.
ASSUME CallsAssumption ==
  \A c \in Calls :
    /\ c.op \in {"open", "openw", "creat", "mkdir", "mknod", "chdir", "unlink", "link"}
    /\ Elems(c.path) \in Seq(Entry \cup {"."})
    /\ c.op = "link" => Elems(c.new) \in Seq(Entry \cup {"."})

\* A system call with a path: namex takes a reference to where it starts.
Begin(p, c) ==
  /\ pc[p] = "user" /\ cwd[p] # 0
  /\ Touch({}, {Start(p, c.path)})
  /\ Goto(p, "walk", [NoLocals EXCEPT !.op = c.op, !.rest = Elems(c.path), !.new = c.new,
                                      !.dp = Start(p, c.path)])
  /\ UNCHANGED <<disk, lock, files>>

\* nameiparent: the directory of the last name is wanted.
Parent(l) == l.op \in {"creat", "mkdir", "mknod", "unlink"} \/ (l.op = "link" /\ l.ip # 0)

\* Where a call goes on with the inode it looked up, or its directory.
After(l) ==
  CASE l.op \in {"open", "openw"} -> "open" [] l.op = "chdir" -> "chdir" [] l.op = "unlink" -> "unlink"
    [] l.op = "link" -> IF l.ip = 0 THEN "link" ELSE "linkdir"
    [] OTHER -> "create"

WalkEnd(l) == Len(l.rest) = IF Parent(l) THEN 1 ELSE 0

\* The walk is over; nameiparent has made sure that it is in a directory.
WalkDone(p) ==
  /\ pc[p] = "walk"
  /\ LET l == loc[p] IN
       /\ WalkEnd(l)
       /\ IF Parent(l)
          THEN /\ Ilock(l.dp) /\ dinode[l.dp].type = "DIR"
               /\ Touch({l.dp}, {})
               /\ Goto(p, After(l), l)
          ELSE /\ UNCHANGED cache
               /\ Goto(p, After(l), [l EXCEPT !.ip = l.dp, !.dp = 0])
  /\ UNCHANGED <<disk, lock, files>>

\* One element: dirlookup takes a reference to the next inode under the lock of
\* the directory, which is put before the next one is locked.
WalkStep(p) ==
  /\ pc[p] = "walk"
  /\ LET l == loc[p]  next == Lookup(l.dp, Head(l.rest)) IN
       /\ l.rest # << >> /\ ~WalkEnd(l)
       /\ Ilock(l.dp) /\ dinode[l.dp].type = "DIR"
       /\ next # 0
       /\ Touch({l.dp}, {next})
       /\ Put(p, <<l.dp>>, "walk", [l EXCEPT !.rest = Tail(@), !.dp = next])
       /\ Follow(l.dp, Head(l.rest))
  /\ UNCHANGED <<inodes, lost, lock, files>>

\* Where a call that has not found its path goes on; link undoes its nlink++.
WalkBad(p, l) ==
  Put(p, <<l.dp>>, IF l.ip # 0 THEN "linkbad" ELSE "user",
      IF l.ip # 0 THEN [l EXCEPT !.dp = 0] ELSE NoLocals)

\* nameiparent of a path without a name in it.
WalkNoName(p) ==
  /\ pc[p] = "walk"
  /\ Parent(loc[p]) /\ loc[p].rest = << >>
  /\ WalkBad(p, loc[p])
  /\ UNCHANGED <<disk, cache, lock, files>>

\* Not a directory, or no such name.
WalkFail(p) ==
  /\ pc[p] = "walk"
  /\ LET l == loc[p] IN
       /\ l.rest # << >>
       /\ Ilock(l.dp)
       /\ \/ dinode[l.dp].type # "DIR"
          \/ ~WalkEnd(l) /\ Lookup(l.dp, Head(l.rest)) = 0
       /\ Touch({l.dp}, {})
       /\ WalkBad(p, l)
  /\ UNCHANGED <<disk, lock, files>>

-----------------------------------------------------------------------------
(* create, for open(O_CREATE), mkdir and mknod *)

TypeOf(op) == CASE op = "mkdir" -> "DIR" [] op = "mknod" -> "DEV" [] OTHER -> "FILE"

Entered(d, n, i) == [dir EXCEPT ![d] = [@ EXCEPT ![n] = i]]

\* The name exists: put the directory before the lock of the inode is taken.
CreateFound(p) ==
  /\ pc[p] = "create"
  /\ LET l == loc[p]  i == Lookup(l.dp, Head(l.rest)) IN
       /\ Ilock(l.dp)
       /\ i # 0
       /\ Touch({l.dp}, {i})
       /\ Put(p, <<l.dp>>, "createold", [l EXCEPT !.dp = 0, !.ip = i])
       /\ Follow(l.dp, Head(l.rest))
  /\ UNCHANGED <<inodes, lost, lock, files>>

\* ialloc, with the lock of the directory held from here on.
CreateAlloc(p) ==
  /\ pc[p] = "create"
  /\ LET l == loc[p]  unused == {i \in Inum : dinode[i].type = "none"} IN
       /\ Ilock(l.dp)
       /\ Lookup(l.dp, Head(l.rest)) = 0
       /\ unused # {}
       /\ dinode' = [dinode EXCEPT ![Min(unused)] = [type |-> TypeOf(l.op), nlink |-> 0]]
       /\ Touch({l.dp}, {Min(unused)})
       /\ Holding(p, {l.dp})
       /\ Goto(p, "createnew", [l EXCEPT !.ip = Min(unused)])
  /\ UNCHANGED <<dir, files, hist>>

\* ilock(ip): its links, "..", the entry; and the directory is put while the lock
\* of the new inode is held.
CreateNew(p) ==
  /\ pc[p] = "createnew"
  /\ LET l == loc[p]  isdir == TypeOf(l.op) = "DIR" IN
       /\ Ilock(l.ip)
       /\ dinode' = [dinode EXCEPT ![l.dp].nlink = @ + IF isdir THEN 1 ELSE 0,
                                   ![l.ip].nlink = 1]
       /\ dir' = [Entered(l.dp, Head(l.rest), l.ip) EXCEPT
                     ![l.ip][".."] = IF isdir THEN l.dp ELSE 0]
       /\ Touch({l.ip}, {})
       /\ Holding(p, {l.ip})
       /\ Put(p, <<l.dp>>, IF l.op = "creat" THEN "openfile" ELSE "created",
              [l EXCEPT !.dp = 0])
  /\ UNCHANGED <<files, hist>>

\* mkdir and mknod give the new inode back.
Created(p) ==
  /\ pc[p] = "created"
  /\ Holding(p, {})
  /\ Finish(p, <<loc[p].ip>>)
  /\ UNCHANGED <<disk, cache, files>>

CreateOld(p) ==
  /\ pc[p] = "createold"
  /\ LET i == loc[p].ip IN
       /\ Ilock(i)
       /\ Touch({i}, {})
       /\ IF loc[p].op = "creat" /\ dinode[i].type = "FILE"
          THEN Holding(p, {i}) /\ Goto(p, "openfile", loc[p])
          ELSE Holding(p, {}) /\ Finish(p, <<i>>)
  /\ UNCHANGED <<disk, files>>

-----------------------------------------------------------------------------
(* open, chdir, close, dup; fork and exit *)

\* open without O_CREATE, "openw" for writing: not for directories.
Open(p) ==
  /\ pc[p] = "open"
  /\ LET i == loc[p].ip IN
       /\ Ilock(i)
       /\ Touch({i}, {})
       /\ IF dinode[i].type = "DIR" /\ loc[p].op = "openw"
          THEN Holding(p, {}) /\ Finish(p, <<i>>)
          ELSE Holding(p, {i}) /\ Goto(p, "openfile", loc[p])
  /\ UNCHANGED <<disk, files>>

FreeFile == {f \in File : file[f].ref = 0}
FreeFd(p) == {d \in Fd : ofile[p][d] = 0}

\* filealloc and fdalloc: the reference of the call passes to the file.
OpenFile(p) ==
  /\ pc[p] = "openfile"
  /\ FreeFile # {} /\ FreeFd(p) # {}
  /\ file' = [file EXCEPT ![Min(FreeFile)] = [ref |-> 1, ip |-> loc[p].ip]]
  /\ ofile' = [ofile EXCEPT ![p][Min(FreeFd(p))] = Min(FreeFile)]
  /\ Holding(p, {})
  /\ Goto(p, "user", NoLocals)
  /\ UNCHANGED <<disk, cache, cwd>>

\* Mutant: the inode is unlocked and not put.
OpenFailKeeps(p) ==
  /\ pc[p] = "openfile"
  /\ FreeFile = {} \/ FreeFd(p) = {}
  /\ Holding(p, {})
  /\ Goto(p, "user", NoLocals)
  /\ UNCHANGED <<disk, cache, files>>

\* One of the tables is full.
OpenFail(p) ==
  /\ pc[p] = "openfile"
  /\ FreeFile = {} \/ FreeFd(p) = {}
  /\ Holding(p, {})
  /\ Finish(p, <<loc[p].ip>>)
  /\ UNCHANGED <<disk, cache, files>>

\* chdir: the old directory is put (p->cwd is only read by p itself).
Chdir(p) ==
  /\ pc[p] = "chdir"
  /\ LET i == loc[p].ip  isdir == dinode[i].type = "DIR" IN
       /\ Ilock(i)
       /\ Touch({i}, {})
       /\ cwd' = IF isdir THEN [cwd EXCEPT ![p] = i] ELSE cwd
       /\ Finish(p, IF isdir THEN <<cwd[p]>> ELSE <<i>>)
  /\ UNCHANGED <<disk, lock, file, ofile>>

\* fileclose: the last reference puts the inode.
Close(p, d, l) ==
  /\ ofile[p][d] # 0
  /\ LET f == ofile[p][d]  last == file[f].ref = 1 IN
       /\ ofile' = [ofile EXCEPT ![p][d] = 0]
       /\ file' = [file EXCEPT ![f] = IF last THEN [ref |-> 0, ip |-> 0]
                                      ELSE [ref |-> file[f].ref - 1, ip |-> file[f].ip]]
       /\ IF last THEN Put(p, <<file[f].ip>>, l, NoLocals) ELSE Goto(p, l, NoLocals)
  /\ UNCHANGED <<disk, cache, lock, cwd>>

\* The number of a system call is an open file.
argfd(p, d) == pc[p] = "user" /\ ofile[p][d] # 0

SysClose(p, d) == argfd(p, d) /\ Close(p, d, "user")

filedup(f, n) == [file[f] EXCEPT !.ref = @ + n]

SysDup(p, d) ==
  /\ argfd(p, d) /\ FreeFd(p) # {}
  /\ ofile' = [ofile EXCEPT ![p][Min(FreeFd(p))] = ofile[p][d]]
  /\ file' = [file EXCEPT ![ofile[p][d]] = filedup(ofile[p][d], 1)]
  /\ UNCHANGED <<disk, cache, lock, cwd, pc, loc>>

\* fork: filedup of every descriptor, idup of the directory.
Fork(p, q) ==
  /\ pc[p] = "user" /\ cwd[p] # 0
  /\ pc[q] = "user" /\ cwd[q] = 0
  /\ ofile' = [ofile EXCEPT ![q] = ofile[p]]
  /\ file' = [f \in File |-> filedup(f, Cardinality({d \in Fd : ofile[p][d] = f}))]
  /\ cwd' = [cwd EXCEPT ![q] = cwd[p]]
  /\ Touch({}, {cwd[p]})
  /\ UNCHANGED <<disk, lock, pc, loc>>

\* exit: the descriptors one after the other, then the directory.
Exit(p) ==
  /\ pc[p] = "user" /\ cwd[p] # 0
  /\ \E q \in Proc \ {p} : cwd[q] # 0
  /\ Goto(p, "exit", NoLocals)
  /\ UNCHANGED <<disk, cache, lock, files>>

ExitClose(p) == pc[p] = "exit" /\ \E d \in Fd : Close(p, d, "exit")

ExitCwd(p) ==
  /\ pc[p] = "exit"
  /\ \A d \in Fd : ofile[p][d] = 0
  /\ cwd' = [cwd EXCEPT ![p] = 0]
  /\ Finish(p, <<cwd[p]>>)
  /\ UNCHANGED <<disk, cache, lock, file, ofile>>

-----------------------------------------------------------------------------
(* unlink *)

\* ilock(dp) and dirlookup.
UnlinkLookup(p) ==
  /\ pc[p] = "unlink"
  /\ LET l == loc[p]  i == Lookup(l.dp, Head(l.rest)) IN
       /\ Ilock(l.dp)
       /\ IF Head(l.rest) \in {".", ".."} \/ i = 0
          THEN Touch({l.dp}, {}) /\ Holding(p, {}) /\ Finish(p, <<l.dp>>)
          ELSE /\ Touch({l.dp}, {i})
               /\ Holding(p, {l.dp})
               /\ Goto(p, "unlinkip", [l EXCEPT !.ip = i])
  /\ UNCHANGED <<disk, files>>

\* isdirempty looks at the entries after "." and "..".
Empty(i) == \A n \in Name : dir[i][n] = 0

\* A directory with entries: its iput comes under the lock of dp.
UnlinkFull(p) ==
  /\ pc[p] = "unlinkip"
  /\ LET l == loc[p] IN
       /\ Ilock(l.ip)
       /\ dinode[l.ip].nlink >= 1
       /\ dinode[l.ip].type = "DIR" /\ ~Empty(l.ip)
       /\ Touch({l.ip}, {})
       /\ Put(p, <<l.ip>>, "unlinkbad", [l EXCEPT !.ip = 0])
  /\ UNCHANGED <<disk, lock, files>>

UnlinkBad(p) ==
  /\ pc[p] = "unlinkbad"
  /\ Holding(p, {})
  /\ Finish(p, <<loc[p].dp>>)
  /\ UNCHANGED <<disk, cache, files>>

\* The entry is erased and dp put, with the lock of ip held.
UnlinkErase(p) ==
  /\ pc[p] = "unlinkip"
  /\ LET l == loc[p]  isdir == dinode[l.ip].type = "DIR" IN
       /\ Ilock(l.ip)
       /\ dinode[l.ip].nlink >= 1
       /\ ~(isdir /\ ~Empty(l.ip))
       /\ dir' = Entered(l.dp, Head(l.rest), 0)
       /\ dinode' = [dinode EXCEPT ![l.dp].nlink = @ - IF isdir THEN 1 ELSE 0]
       /\ Touch({l.ip}, {})
       /\ Holding(p, {l.ip})
       /\ Put(p, <<l.dp>>, "unlinked", [l EXCEPT !.dp = 0])
  /\ UNCHANGED <<files, hist>>

Unlinked(p) ==
  /\ pc[p] = "unlinked"
  /\ dinode' = [dinode EXCEPT ![loc[p].ip].nlink = @ - 1]
  /\ Holding(p, {})
  /\ Finish(p, <<loc[p].ip>>)
  /\ UNCHANGED <<dir, cache, files, hist>>

-----------------------------------------------------------------------------
(* link *)

\* nlink++ before the new name is looked up; not for directories.
LinkInc(p) ==
  /\ pc[p] = "link"
  /\ LET l == loc[p]  isdir == dinode[l.ip].type = "DIR"  d == Start(p, l.new) IN
       /\ Ilock(l.ip)
       /\ dinode' = [dinode EXCEPT ![l.ip].nlink = @ + IF isdir THEN 0 ELSE 1]
       /\ IF isdir THEN Touch({l.ip}, {}) /\ Finish(p, <<l.ip>>)
          ELSE /\ Touch({l.ip}, {d})
               /\ Goto(p, "walk", [l EXCEPT !.dp = d, !.rest = Elems(l.new)])
  /\ UNCHANGED <<dir, lock, files, hist>>

\* dirlink finds the name in use, and puts its inode under the lock of dp.
LinkExists(p) ==
  /\ pc[p] = "linkdir"
  /\ LET l == loc[p]  i == Lookup(l.dp, Head(l.rest)) IN
       /\ Ilock(l.dp)
       /\ i # 0
       /\ Touch({l.dp}, {i})
       /\ Holding(p, {l.dp})
       /\ Put(p, <<i>>, "linkput", l)
  /\ UNCHANGED <<disk, files>>

LinkPut(p) ==
  /\ pc[p] = "linkput"
  /\ Holding(p, {})
  /\ Put(p, <<loc[p].dp>>, "linkbad", [loc[p] EXCEPT !.dp = 0])
  /\ UNCHANGED <<disk, cache, files>>

LinkDone(p) ==
  /\ pc[p] = "linkdir"
  /\ LET l == loc[p] IN
       /\ Ilock(l.dp)
       /\ Lookup(l.dp, Head(l.rest)) = 0
       /\ dir' = Entered(l.dp, Head(l.rest), l.ip)
       /\ Touch({l.dp}, {})
       /\ Finish(p, <<l.dp, l.ip>>)
  /\ UNCHANGED <<dinode, lock, files, hist>>

\* Mutant: a link that fails leaves its count behind.
LinkBadKeeps(p) ==
  /\ pc[p] = "linkbad"
  /\ Ilock(loc[p].ip)
  /\ Touch({loc[p].ip}, {})
  /\ Finish(p, <<loc[p].ip>>)
  /\ UNCHANGED <<disk, lock, files>>

\* bad: of sys_link
LinkBad(p) ==
  /\ pc[p] = "linkbad"
  /\ Ilock(loc[p].ip)
  /\ dinode' = [dinode EXCEPT ![loc[p].ip].nlink = @ - 1]
  /\ Touch({loc[p].ip}, {})
  /\ Finish(p, <<loc[p].ip>>)
  /\ UNCHANGED <<dir, lock, files, hist>>

-----------------------------------------------------------------------------

Step(p) ==
  \/ Iput(p) \/ Itrunc(p) \/ Iref(p) \/ WalkDone(p) \/ WalkStep(p) \/ WalkNoName(p) \/ WalkFail(p)
  \/ CreateFound(p) \/ CreateAlloc(p) \/ CreateNew(p) \/ Created(p) \/ CreateOld(p)
  \/ Open(p) \/ OpenFile(p) \/ OpenFail(p) \/ Chdir(p) \/ ExitClose(p) \/ ExitCwd(p)
  \/ UnlinkLookup(p) \/ UnlinkFull(p) \/ UnlinkBad(p) \/ UnlinkErase(p) \/ Unlinked(p)
  \/ LinkInc(p) \/ LinkExists(p) \/ LinkPut(p) \/ LinkDone(p) \/ LinkBad(p)

Next ==
  \E p \in Proc :
    \/ Step(p)
    \/ \E c \in Calls : Begin(p, c)
    \/ \E d \in Fd : SysClose(p, d) \/ SysDup(p, d)
    \/ \E q \in Proc : Fork(p, q)
    \/ Exit(p)

Spec == Init /\ [][Next]_vars

-----------------------------------------------------------------------------
(* Properties *)

Label == {"user", "walk", "iput", "itrunc", "iref", "create", "createnew", "created",
          "createold", "open", "openfile", "chdir", "exit", "unlink", "unlinkip", "unlinkbad",
          "unlinked", "link", "linkdir", "linkput", "linkbad"}

\* The places that may point to an inode: open files, current directories and the
\* variables of calls, which have at most two inodes to put.
Place == ({"file"} \X File) \cup ({"cwd", "dp", "ip", "put1", "put2"} \X Proc)

Target(x) ==
  CASE x[1] = "file" -> file[x[2]].ip [] x[1] = "cwd" -> cwd[x[2]]
    [] x[1] = "dp" -> loc[x[2]].dp    [] x[1] = "ip" -> loc[x[2]].ip
    [] x[1] = "put1" -> IF Len(loc[x[2]].puts) >= 1 THEN loc[x[2]].puts[1] ELSE 0
    [] x[1] = "put2" -> IF Len(loc[x[2]].puts) >= 2 THEN loc[x[2]].puts[2] ELSE 0

Pointers(i) == {x \in Place : Target(x) = i}

Descriptors(f) == {pd \in Proc \X Fd : ofile[pd[1]][pd[2]] = f}

\* ip->ref counts the pointers to an inode, and f->ref the descriptors of a file:
\* no path through a call, however it ends, loses a reference or drops one twice.
\* (With the types.)
RefExact ==
  /\ dinode \in [Inum -> [type : {"none", "DIR", "FILE", "DEV"}, nlink : Int]]
  /\ dir \in [Inum -> [Entry -> Inum \cup {0}]]
  /\ valid \in [Inum -> BOOLEAN] /\ ref \in [Inum -> Nat]
  /\ lock \in [Inum -> Proc \cup {Nobody}]
  /\ file \in [File -> [ref : Nat, ip : Inum \cup {0}]]
  /\ ofile \in [Proc -> [Fd -> File \cup {0}]] /\ cwd \in [Proc -> Inum \cup {0}]
  /\ pc \in [Proc -> Label]
  /\ \A p \in Proc : Len(loc[p].puts) <= 2
  /\ \A i \in Inum : ref[i] = Cardinality(Pointers(i))
  /\ \A f \in File : file[f].ref = Cardinality(Descriptors(f))

\* The names of an inode, and the ".." of the directories in it.
Links(i) ==
  Cardinality({dn \in Inum \X Name : dir[dn[1]][dn[2]] = i})
  + Cardinality({d \in Inum \ {ROOTINO} : dir[d][".."] = i /\ Named(d)})

\* When no call is in progress, which is what a transaction leaves on the disk,
\* the link count of every inode is the number of links to it, and of those that
\* went with a directory: one that is removed while it is somebody's current
\* directory still takes new names, and is freed with them.  At no moment is a
\* count negative, and a directory never loses its name in this way.
\* This and the next two properties are about the time before a call takes ".." of
\* a removed directory whose parent is removed too: that inode may be free, which
\* ilock panics on, or in the hands of a create that is about to set its count.
LinksExact ==
  ~stray =>
    /\ \A i \in Inum : dinode[i].nlink >= 0 /\ (dinode[i].type = "DIR" => lost[i] = 0)
    /\ (\A p \in Proc : pc[p] = "user") =>
         \A i \in Inum : dinode[i].type # "none" =>
           dinode[i].nlink = Links(i) + lost[i] + IF i = ROOTINO THEN 1 ELSE 0

\* The name of a file or a directory leads to an inode that exists, at every
\* moment, and so do open files, current directories and the ".." of a directory
\* that is not removed: nothing in use is freed for another create.  (The ".."
\* of a removed directory may be, and stray as in LinksExact.)
InUseNotFreed ==
  ~stray =>
    \A i \in Inum : dinode[i].type = "none" =>
      /\ \A d \in Inum : /\ \A n \in Name : dir[d][n] # i
                         /\ dir[d][".."] = i => ~Named(d)
      /\ \A f \in File : file[f].ip # i
      /\ \A p \in Proc : cwd[p] # i

\* The inode whose lock a process waits for.
Wanted(p) ==
  CASE pc[p] = "walk" /\ loc[p].rest # << >> -> loc[p].dp
    [] pc[p] \in {"create", "unlink", "linkdir"} -> loc[p].dp
    [] pc[p] \in {"createnew", "createold", "open", "chdir", "unlinkip", "link", "linkbad"} -> loc[p].ip
    [] OTHER -> 0

\* Whatever other calls did since a process looked an inode up, and in a removed
\* directory too, none of these panics is due: "ilock: no type", "dirlookup not
\* DIR", "unlink: nlink < 1".  (With stray as in LinksExact: after mkdir /a, /a/b;
\* chdir /a/b; unlink /a/b, /a an open("..") panics.  "iget: no inodes" and
\* "ialloc: no inodes" are due when the cache or the disk is full.)
NoPanic ==
  ~stray =>
    \A p \in Proc :
      /\ Wanted(p) # 0 /\ Lockable(Wanted(p)) => dinode[Wanted(p)].type # "none"
      /\ pc[p] \in {"create", "unlink", "linkdir"} => dinode[loc[p].dp].type = "DIR"
      /\ pc[p] = "unlinkip" /\ Lockable(loc[p].ip) => dinode[loc[p].ip].nlink > 0
=============================================================================
