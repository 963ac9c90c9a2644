------------------------------- MODULE Inode --------------------------------
(***************************************************************************)
(* The inode cache of fs.c, directories and path names, under the system   *)
(* calls of sysfile.c that open, close, make, link and unlink files and    *)
(* change the working directory.                                           *)
(*                                                                         *)
(* A critical section under icache.lock is one step, and so is what a call *)
(* does between ilock() and iunlock() of an inode, as long as it takes no  *)
(* other lock in between: nobody else touches an inode's fields then, with *)
(* one exception, iput(), whose steps are actions of their own.  The cache *)
(* has an entry per inode number: iget() never makes two, and NINODE is    *)
(* more than the model's inodes.  The disk is Log's, which makes the calls *)
(* atomic.  The contents of files are left out, those of directories are a *)
(* function from names.                                                    *)
(***************************************************************************)
EXTENDS Integers, Sequences, FiniteSets

CONSTANTS
  Procs,
  Inums,   \* inode numbers
  Root,    \* ROOTINO
  Names,   \* path elements other than "." and ".."
  Paths,   \* path names: [abs |-> has a leading slash, elems |-> elements]
  Calls,   \* the system calls that are made, each with its path name
  None

Dots == {".", ".."}

CallNames == {"open", "creat", "mkdir", "mknod", "link", "unlink", "chdir"}

Panics == {"broken", "full"}  \* full: the limit on inodes is reached

ASSUME InodeAssumption ==
  /\ IsFiniteSet(Procs) /\ IsFiniteSet(Inums) /\ IsFiniteSet(Names)
  /\ Root \in Inums
  /\ Names \cap Dots = {}
  /\ Paths \subseteq [abs : BOOLEAN, elems : Seq(Names \cup Dots)]
  /\ Calls \subseteq CallNames \X Paths
  /\ None \notin Procs \cup Inums \cup Names \cup Dots \cup CallNames \cup Panics
  /\ None \notin {"link_done", "unlink_dec"}  \* labels that reg[p].ret may have

VARIABLES
  dsk,        \* inode -> struct dinode on the disk
  dir,        \* inode -> name -> inode: the contents of a directory
  \* The cache entry of an inode.
  ref, valid, mem, lock,
  \* Processes.
  cwd, fd,    \* working directory, open file
  pc,
  reg,        \* the pointers and arguments a call works with
  panicked,
  \* History.
  overtaken,  \* iget() has found an inode that iput() was freeing
  strayed     \* a removed directory was used to reach or to make something

diskVars == <<dsk, dir>>
history == <<overtaken, strayed>>
vars == <<diskVars, ref, valid, mem, lock, cwd, fd, pc, reg, panicked, history>>

Blank == [call |-> None, path |-> <<>>, want |-> None, cur |-> None,
          dp |-> None, ip |-> None, name |-> None, put |-> None, ret |-> None]

Regular == ~overtaken /\ ~strayed

Pointers == {"cur", "dp", "ip", "put"}

Free == [type |-> "free", nlink |-> 0]

NoEntries == [n \in Names \cup Dots |-> None]

-----------------------------------------------------------------------------
(***************************************************************************)
(* The inode cache.                                                        *)
(***************************************************************************)

\* The inode as ilock() presents it.
Load(i) == IF valid[i] THEN mem[i] ELSE dsk[i]

\* ilock(i) returns: nobody has the lock, and an inode read from the disk is
\* allocated.
CanLock(i) == lock[i] = None /\ (valid[i] \/ dsk[i].type # "free")

\* The cache after ilock() of the inodes in ls, with f as their fields.
Locked(ls, f) ==
  /\ valid' = [i \in Inums |-> valid[i] \/ i \in ls]
  /\ mem' = [i \in Inums |-> IF i \in ls THEN f[i] ELSE mem[i]]

\* ilock(i) and, in the same step or a later one, iunlock(i).
ilock(i) == CanLock(i) /\ Locked({i}, [j \in Inums |-> Load(j)])

\* iupdate() of the inodes in ls.
iupdate(ls, f) == dsk' = [i \in Inums |-> IF i \in ls THEN f[i] ELSE dsk[i]]

\* Some process is between the two critical sections of iput(i).
Freeing(i) ==
  \E q \in Procs : pc[q] \in {"itrunc", "iput_done"} /\ reg[q].put = i

\* iget(i) and idup(i)
iget(i) ==
  /\ ref' = [ref EXCEPT ![i] = @ + 1]
  /\ overtaken' = (overtaken \/ Freeing(i))

Goto(p, l, r) ==
  /\ pc' = [pc EXCEPT ![p] = l]
  /\ reg' = [reg EXCEPT ![p] = r]

\* The call goes on with iput() of the inode in pointer x, and then at l; at
\* "user" it has returned.
GotoIput(p, r, x, l) ==
  Goto(p, "iput", [(IF l = "user" THEN Blank ELSE [r EXCEPT ![x] = None])
                     EXCEPT !.put = r[x], !.ret = l])

Return(p) ==
  Goto(p, reg[p].ret, [reg[p] EXCEPT !.put = None, !.ret = None])

\* Mutants of LastReference: the reference counts as already dropped; the
\* other references are ignored.
LastReferenceLate(i) == ref[i] = 0 /\ valid[i] /\ mem[i].nlink = 0
LastReferenceAny(i) == valid[i] /\ mem[i].nlink = 0

\* iput() finds the last reference to an inode without links.
LastReference(i) == ref[i] = 1 /\ valid[i] /\ mem[i].nlink = 0

\* An entry without references is free; iget() clears its flags.
Dropped(i) ==
  /\ ref' = [ref EXCEPT ![i] = @ - 1]
  /\ mem' = IF ref[i] = 1 THEN [mem EXCEPT ![i] = Free] ELSE mem

Iput(p) ==
  LET i == reg[p].put IN
  /\ pc[p] = "iput"
  /\ ~LastReference(i)
  /\ Dropped(i)
  /\ valid' = IF ref[i] = 1 THEN [valid EXCEPT ![i] = FALSE] ELSE valid
  /\ Return(p)
  /\ UNCHANGED <<diskVars, lock, cwd, fd, panicked, history>>

\* It lets go of icache.lock,
IputLast(p) ==
  /\ pc[p] = "iput"
  /\ LastReference(reg[p].put)
  /\ Goto(p, "itrunc", reg[p])
  /\ UNCHANGED <<diskVars, ref, valid, mem, lock, cwd, fd, panicked, history>>

\* frees contents and inode,
Itrunc(p) ==
  LET i == reg[p].put IN
  /\ pc[p] = "itrunc"
  /\ mem' = [mem EXCEPT ![i].type = "free"]
  /\ dsk' = [dsk EXCEPT ![i] = mem'[i]]
  /\ dir' = [dir EXCEPT ![i] = NoEntries]
  /\ Goto(p, "iput_done", reg[p])
  /\ UNCHANGED <<ref, valid, lock, cwd, fd, panicked, history>>

\* and takes icache.lock again.
IputDone(p) ==
  LET i == reg[p].put IN
  /\ pc[p] = "iput_done"
  /\ valid' = [valid EXCEPT ![i] = FALSE]
  /\ Dropped(i)
  /\ Return(p)
  /\ UNCHANGED <<diskVars, lock, cwd, fd, panicked, history>>

-----------------------------------------------------------------------------
(***************************************************************************)
(* namex()                                                                 *)
(***************************************************************************)

Start(p, path) == IF path.abs THEN Root ELSE cwd[p]

\* The call looks up a file (ip) or the directory it is in (dp).
Wanted(c) == IF c \in {"open", "link", "chdir"} THEN "ip" ELSE "dp"

\* Where the call goes on with what namei() or nameiparent() returned,
Found(r) ==
  CASE r.call \in {"creat", "mkdir", "mknod"} -> "create"
    [] r.call = "link" /\ r.want = "dp" -> "link_dp"
    [] OTHER -> r.call

\* and where without.
NotFound(r) ==
  IF r.call = "link" /\ r.want = "dp" THEN "link_bad" ELSE "user"

\* A system call begins with the lookup of its path name.  Bound: none begins
\* once an iput() was overtaken or a removed directory was used, since the
\* counts may then drift for ever; the calls under way go on.
Begin(p, c, path) ==
  /\ pc[p] = "user"
  /\ Regular
  /\ iget(Start(p, path))
  /\ Goto(p, "namex", [Blank EXCEPT !.call = c, !.path = path.elems,
                                    !.want = Wanted(c),
                                    !.cur = Start(p, path)])
  /\ UNCHANGED <<diskVars, valid, mem, lock, cwd, fd, panicked, strayed>>

\* One element of the path: the directory is locked, looked at and unlocked.
Visits(p) ==
  /\ pc[p] = "namex"
  /\ reg[p].path # <<>>
  /\ ilock(reg[p].cur)

\* nameiparent() stops at the last element.
AtParent(p) == reg[p].want = "dp" /\ Len(reg[p].path) = 1

\* What dirlookup() finds.
Entry(p) == dir[reg[p].cur][Head(reg[p].path)]

NamexParent(p) ==
  LET r == reg[p] IN
  /\ Visits(p)
  /\ Load(r.cur).type = "dir"
  /\ AtParent(p)
  /\ Goto(p, Found(r), [r EXCEPT !.dp = r.cur, !.cur = None,
                                 !.name = Head(r.path), !.path = <<>>])
  /\ UNCHANGED <<diskVars, ref, lock, cwd, fd, panicked, history>>

NamexNext(p) ==
  LET r == reg[p] IN
  /\ Visits(p)
  /\ Load(r.cur).type = "dir"
  /\ ~AtParent(p)
  /\ Entry(p) # None
  /\ iget(Entry(p))
  /\ Goto(p, "iput", [r EXCEPT !.put = r.cur, !.cur = Entry(p),
                               !.path = Tail(@), !.ret = "namex"])
  /\ strayed' = (strayed \/ (Head(r.path) = ".." /\ Load(r.cur).nlink = 0))
  /\ UNCHANGED <<diskVars, lock, cwd, fd, panicked>>

NamexFails(p) ==
  LET r == reg[p] IN
  /\ Visits(p)
  /\ Load(r.cur).type # "dir" \/ (~AtParent(p) /\ Entry(p) = None)
  /\ GotoIput(p, r, "cur", NotFound(r))
  /\ UNCHANGED <<diskVars, ref, lock, cwd, fd, panicked, history>>

\* The path is used up.
NamexEnd(p) ==
  LET r == reg[p] IN
  /\ pc[p] = "namex"
  /\ r.path = <<>>
  /\ IF r.want = "ip" THEN Goto(p, Found(r), [r EXCEPT !.ip = r.cur, !.cur = None])
     ELSE GotoIput(p, r, "cur", NotFound(r))
  /\ UNCHANGED <<diskVars, ref, valid, mem, lock, cwd, fd, panicked, history>>

-----------------------------------------------------------------------------
(***************************************************************************)
(* open(), close() and chdir()                                             *)
(***************************************************************************)

\* The inode is locked; opening a directory for writing fails.
Open(p) ==
  LET i == reg[p].ip IN
  /\ pc[p] = "open"
  /\ ilock(i)
  /\ \/ /\ lock' = [lock EXCEPT ![i] = p]
        /\ Goto(p, "opened", [Blank EXCEPT !.ip = i])
     \/ /\ Load(i).type = "dir"
        /\ GotoIput(p, reg[p], "ip", "user")
        /\ UNCHANGED lock
  /\ UNCHANGED <<diskVars, ref, cwd, fd, panicked, history>>

\* A struct file and a descriptor are found, or not.
OpenFile(p) ==
  LET i == reg[p].ip IN
  /\ pc[p] = "opened"
  /\ lock' = [lock EXCEPT ![i] = None]
  /\ \/ /\ fd[p] = None
        /\ fd' = [fd EXCEPT ![p] = i]
        /\ Goto(p, "user", Blank)
     \/ /\ GotoIput(p, reg[p], "ip", "user")
        /\ UNCHANGED fd
  /\ UNCHANGED <<diskVars, ref, valid, mem, cwd, panicked, history>>

Close(p) ==
  /\ pc[p] = "user"
  /\ fd[p] # None
  /\ fd' = [fd EXCEPT ![p] = None]
  /\ Goto(p, "iput", [Blank EXCEPT !.put = fd[p], !.ret = "user"])
  /\ UNCHANGED <<diskVars, ref, valid, mem, lock, cwd, panicked, history>>

\* Only the process itself uses proc->cwd: it may be set before the iput() of
\* the old one.
Chdir(p) ==
  LET i == reg[p].ip IN
  /\ pc[p] = "chdir"
  /\ ilock(i)
  /\ IF Load(i).type = "dir"
     THEN /\ cwd' = [cwd EXCEPT ![p] = i]
          /\ Goto(p, "iput", [Blank EXCEPT !.put = cwd[p], !.ret = "user"])
     ELSE GotoIput(p, reg[p], "ip", "user") /\ UNCHANGED cwd
  /\ UNCHANGED <<diskVars, ref, lock, fd, panicked, history>>

-----------------------------------------------------------------------------
(***************************************************************************)
(* create(), for open(O_CREATE), mkdir() and mknod()                       *)
(***************************************************************************)

\* The type create() is called with.
Type(c) == CASE c = "creat" -> "file" [] c = "mkdir" -> "dir" [] c = "mknod" -> "dev"

\* The directory is locked; dirlookup() finds the name or not.
LooksInto(p, l) ==
  LET d == reg[p].dp IN
  /\ pc[p] = l
  /\ ilock(d)
  /\ Load(d).type = "dir"

Target(p) == dir[reg[p].dp][reg[p].name]

\* Mutant of CreateFound: the directory stays locked.
CreateFoundLocks(p) ==
  LET r == reg[p] IN
  /\ LooksInto(p, "create")
  /\ Target(p) # None
  /\ iget(Target(p))
  /\ lock' = [lock EXCEPT ![r.dp] = p]
  /\ Goto(p, "create_old", [r EXCEPT !.ip = Target(p)])
  /\ UNCHANGED <<diskVars, cwd, fd, panicked, strayed>>

\* The name exists: the directory is unlocked before its inode is locked.
CreateFound(p) ==
  LET r == reg[p] IN
  /\ LooksInto(p, "create")
  /\ Target(p) # None
  /\ iget(Target(p))
  /\ GotoIput(p, [r EXCEPT !.ip = Target(p), !.name = None], "dp",
              "create_old")
  /\ strayed' = (strayed \/ (r.name = ".." /\ Load(r.dp).nlink = 0))
  /\ UNCHANGED <<diskVars, lock, cwd, fd, panicked>>

\* open(O_CREATE) of a file that exists opens it, other calls fail.
CreateOld(p) ==
  LET i == reg[p].ip IN
  /\ pc[p] = "create_old"
  /\ ilock(i)
  /\ IF reg[p].call = "creat" /\ Load(i).type = "file"
     THEN /\ lock' = [lock EXCEPT ![i] = p]
          /\ Goto(p, "opened", [Blank EXCEPT !.ip = i])
     ELSE GotoIput(p, reg[p], "ip", "user") /\ UNCHANGED lock
  /\ UNCHANGED <<diskVars, ref, cwd, fd, panicked, history>>

\* ialloc() takes a free inode, with the directory locked.
CreateNew(p, i) ==
  LET r == reg[p] IN
  /\ LooksInto(p, "create")
  /\ Target(p) = None
  /\ dsk[i].type = "free"
  /\ dsk' = [dsk EXCEPT ![i] = [type |-> Type(r.call), nlink |-> 0]]
  /\ iget(i)
  /\ lock' = [lock EXCEPT ![r.dp] = p]
  /\ Goto(p, "create_new", [r EXCEPT !.ip = i])
  /\ UNCHANGED <<dir, cwd, fd, panicked, strayed>>

\* The new inode is locked and gets its link count, its dots and its name;
\* the directory, which counts the "..", is unlocked.
CreateFill(p) ==
  LET r == reg[p]
      isdir == r.call = "mkdir"
      new == [mem EXCEPT ![r.ip] = [Load(r.ip) EXCEPT !.nlink = 1],
                         ![r.dp].nlink = IF isdir THEN @ + 1 ELSE @]
  IN
  /\ pc[p] = "create_new"
  /\ CanLock(r.ip)
  /\ isdir => Load(r.ip).type = "dir"
  /\ Locked({r.ip, r.dp}, new)
  /\ iupdate(IF isdir THEN {r.ip, r.dp} ELSE {r.ip}, new)
  /\ dir' = [dir EXCEPT
       ![r.ip] = IF isdir THEN [@ EXCEPT !["."] = r.ip, ![".."] = r.dp] ELSE @,
       ![r.dp][r.name] = r.ip]
  /\ lock' = [lock EXCEPT ![r.dp] = None, ![r.ip] = p]
  /\ strayed' = (strayed \/ mem[r.dp].nlink = 0)
  /\ GotoIput(p, [Blank EXCEPT !.dp = r.dp, !.ip = r.ip], "dp",
              IF r.call = "creat" THEN "opened" ELSE "created")
  /\ UNCHANGED <<ref, cwd, fd, panicked, overtaken>>

\* mkdir() and mknod() let go of the inode.
Created(p) ==
  /\ pc[p] = "created"
  /\ lock' = [lock EXCEPT ![reg[p].ip] = None]
  /\ GotoIput(p, reg[p], "ip", "user")
  /\ UNCHANGED <<diskVars, ref, valid, mem, cwd, fd, panicked, history>>

-----------------------------------------------------------------------------
(***************************************************************************)
(* link()                                                                  *)
(***************************************************************************)

\* The link is counted before its entry is made; the lookup of the new path
\* begins.
LinkIp(p, path) ==
  LET r == reg[p]
      new == [mem EXCEPT ![r.ip] = [Load(r.ip) EXCEPT !.nlink = @ + 1]]
  IN
  /\ pc[p] = "link"
  /\ CanLock(r.ip)
  /\ Load(r.ip).type # "dir"
  /\ Locked({r.ip}, new)
  /\ iupdate({r.ip}, new)
  /\ iget(Start(p, path))
  /\ Goto(p, "namex", [r EXCEPT !.path = path.elems, !.want = "dp",
                                !.cur = Start(p, path)])
  /\ UNCHANGED <<dir, lock, cwd, fd, panicked, strayed>>

LinkDirectory(p) ==
  LET i == reg[p].ip IN
  /\ pc[p] = "link"
  /\ ilock(i)
  /\ Load(i).type = "dir"
  /\ GotoIput(p, reg[p], "ip", "user")
  /\ UNCHANGED <<diskVars, ref, lock, cwd, fd, panicked, history>>

\* dirlink(); the references it takes to a name that exists it gives back.
LinkDp(p) ==
  LET r == reg[p] IN
  /\ LooksInto(p, "link_dp")
  /\ IF Target(p) = None
     THEN /\ dir' = [dir EXCEPT ![r.dp][r.name] = r.ip]
          /\ strayed' = (strayed \/ Load(r.dp).nlink = 0)
          /\ GotoIput(p, r, "dp", "link_done")
     ELSE GotoIput(p, r, "dp", "link_bad") /\ UNCHANGED <<dir, strayed>>
  /\ UNCHANGED <<dsk, ref, lock, cwd, fd, panicked, overtaken>>

LinkDone(p) ==
  /\ pc[p] = "link_done"
  /\ GotoIput(p, reg[p], "ip", "user")
  /\ UNCHANGED <<diskVars, ref, valid, mem, lock, cwd, fd, panicked, history>>

\* Mutant of LinkBad: the count is not taken back.
LinkBadKeepsCount(p) ==
  /\ pc[p] = "link_bad"
  /\ ilock(reg[p].ip)
  /\ GotoIput(p, reg[p], "ip", "user")
  /\ UNCHANGED <<diskVars, ref, lock, cwd, fd, panicked, history>>

\* The count is taken back.
LinkBad(p) ==
  LET r == reg[p]
      new == [mem EXCEPT ![r.ip] = [Load(r.ip) EXCEPT !.nlink = @ - 1]]
  IN
  /\ pc[p] = "link_bad"
  /\ CanLock(r.ip)
  /\ Locked({r.ip}, new)
  /\ iupdate({r.ip}, new)
  /\ GotoIput(p, r, "ip", "user")
  /\ UNCHANGED <<dir, ref, lock, cwd, fd, panicked, history>>

-----------------------------------------------------------------------------
(***************************************************************************)
(* unlink()                                                                *)
(***************************************************************************)

UnlinkFails(p) ==
  /\ pc[p] = "unlink"
  /\ ilock(reg[p].dp)
  /\ \/ reg[p].name \in Dots
     \/ Load(reg[p].dp).type = "dir" /\ Target(p) = None
  /\ GotoIput(p, reg[p], "dp", "user")
  /\ UNCHANGED <<diskVars, ref, lock, cwd, fd, panicked, history>>

\* Mutant of UnlinkFound: the directory is unlocked.
UnlinkFoundUnlocks(p) ==
  LET r == reg[p] IN
  /\ LooksInto(p, "unlink")
  /\ r.name \notin Dots
  /\ Target(p) # None
  /\ iget(Target(p))
  /\ Goto(p, "unlink_ip", [r EXCEPT !.ip = Target(p)])
  /\ UNCHANGED <<diskVars, lock, cwd, fd, panicked, strayed>>

\* The directory stays locked.
UnlinkFound(p) ==
  LET r == reg[p] IN
  /\ LooksInto(p, "unlink")
  /\ r.name \notin Dots
  /\ Target(p) # None
  /\ iget(Target(p))
  /\ lock' = [lock EXCEPT ![r.dp] = p]
  /\ Goto(p, "unlink_ip", [r EXCEPT !.ip = Target(p)])
  /\ UNCHANGED <<diskVars, cwd, fd, panicked, strayed>>

isdirempty(i) == \A n \in Names : dir[i][n] = None

\* A directory with entries stays.
UnlinkNotEmpty(p) ==
  LET i == reg[p].ip IN
  /\ pc[p] = "unlink_ip"
  /\ ilock(i)
  /\ Load(i).nlink >= 1
  /\ Load(i).type = "dir" /\ ~isdirempty(i)
  /\ GotoIput(p, reg[p], "ip", "unlink_bad")
  /\ UNCHANGED <<diskVars, ref, lock, cwd, fd, panicked, history>>

\* Mutant of UnlinkBad: iunlock() for iunlockput().
UnlinkBadKeepsRef(p) ==
  /\ pc[p] = "unlink_bad"
  /\ lock' = [lock EXCEPT ![reg[p].dp] = None]
  /\ Goto(p, "user", Blank)
  /\ UNCHANGED <<diskVars, ref, valid, mem, cwd, fd, panicked, history>>

UnlinkBad(p) ==
  /\ pc[p] = "unlink_bad"
  /\ lock' = [lock EXCEPT ![reg[p].dp] = None]
  /\ GotoIput(p, reg[p], "dp", "user")
  /\ UNCHANGED <<diskVars, ref, valid, mem, cwd, fd, panicked, history>>

\* The entry is erased, a directory's ".." no longer counted; the directory
\* is unlocked, the inode stays locked.
UnlinkEntry(p) ==
  LET r == reg[p]
      isdir == Load(r.ip).type = "dir"
      new == [mem EXCEPT ![r.ip] = Load(r.ip),
                         ![r.dp].nlink = IF isdir THEN @ - 1 ELSE @]
  IN
  /\ pc[p] = "unlink_ip"
  /\ CanLock(r.ip)
  /\ Load(r.ip).nlink >= 1
  /\ isdir => isdirempty(r.ip)
  /\ Locked({r.ip, r.dp}, new)
  /\ iupdate(IF isdir THEN {r.dp} ELSE {}, new)
  /\ dir' = [dir EXCEPT ![r.dp][r.name] = None]
  /\ lock' = [lock EXCEPT ![r.dp] = None, ![r.ip] = p]
  /\ GotoIput(p, r, "dp", "unlink_dec")
  /\ UNCHANGED <<ref, cwd, fd, panicked, history>>

UnlinkDec(p) ==
  LET i == reg[p].ip
      new == [mem EXCEPT ![i].nlink = @ - 1]
  IN
  /\ pc[p] = "unlink_dec"
  /\ mem' = new
  /\ iupdate({i}, new)
  /\ lock' = [lock EXCEPT ![i] = None]
  /\ GotoIput(p, reg[p], "ip", "user")
  /\ UNCHANGED <<dir, ref, valid, cwd, fd, panicked, history>>

-----------------------------------------------------------------------------
(***************************************************************************)
(* panic(): after it nothing moves.                                        *)
(***************************************************************************)

\* The inode the process is about to lock.
Needs(p) ==
  CASE pc[p] = "namex" /\ reg[p].path # <<>> -> reg[p].cur
    [] pc[p] \in {"create", "link_dp", "unlink"} -> reg[p].dp
    [] pc[p] \in {"open", "chdir", "link", "link_bad", "create_old",
                  "create_new", "unlink_ip"} -> reg[p].ip
    [] OTHER -> None

\* ilock: no type
NoType(p) ==
  LET i == Needs(p) IN
  i # None /\ lock[i] = None /\ ~valid[i] /\ dsk[i].type = "free"

\* dirlookup not DIR
NotDirectory(p) ==
  \/ /\ pc[p] \in {"create", "link_dp", "unlink"}
     /\ CanLock(reg[p].dp)
     /\ Load(reg[p].dp).type # "dir"
     /\ ~(pc[p] = "unlink" /\ reg[p].name \in Dots)
  \/ /\ pc[p] = "create_new" /\ reg[p].call = "mkdir"
     /\ CanLock(reg[p].ip)
     /\ Load(reg[p].ip).type # "dir"

\* unlink: nlink < 1
NoLink(p) ==
  /\ pc[p] = "unlink_ip"
  /\ CanLock(reg[p].ip)
  /\ Load(reg[p].ip).nlink < 1

\* ialloc: no inodes
OutOfInodes(p) ==
  /\ pc[p] = "create"
  /\ CanLock(reg[p].dp)
  /\ Load(reg[p].dp).type = "dir"
  /\ Target(p) = None
  /\ \A i \in Inums : dsk[i].type # "free"

Panic(p) ==
  /\ \/ (NoType(p) \/ NotDirectory(p) \/ NoLink(p)) /\ panicked' = "broken"
     \/ OutOfInodes(p) /\ panicked' = "full"
  /\ UNCHANGED <<diskVars, ref, valid, mem, lock, cwd, fd, pc, reg, history>>

\* After a panic, or at the bound on calls.
Stopped ==
  /\ panicked # None \/ (~Regular /\ \A p \in Procs : pc[p] = "user")
  /\ UNCHANGED vars

-----------------------------------------------------------------------------
\* After mkfs and userinit(): the root directory is everybody's.
Init ==
  /\ dsk = [i \in Inums |-> IF i = Root THEN [type |-> "dir", nlink |-> 1]
                            ELSE Free]
  /\ dir = [i \in Inums |-> [n \in Names \cup Dots |->
              IF i = Root /\ n \in Dots THEN Root ELSE None]]
  /\ ref = [i \in Inums |-> IF i = Root THEN Cardinality(Procs) ELSE 0]
  /\ valid = [i \in Inums |-> FALSE]
  /\ mem = [i \in Inums |-> Free]
  /\ lock = [i \in Inums |-> None]
  /\ cwd = [p \in Procs |-> Root]
  /\ fd = [p \in Procs |-> None]
  /\ pc = [p \in Procs |-> "user"]
  /\ reg = [p \in Procs |-> Blank]
  /\ panicked = None
  /\ overtaken = FALSE /\ strayed = FALSE

BeginStep(p) ==
  \E c \in Calls : Begin(p, c[1], c[2])

CacheStep(p) == Iput(p) \/ IputLast(p) \/ Itrunc(p) \/ IputDone(p)

NamexStep(p) == NamexParent(p) \/ NamexNext(p) \/ NamexFails(p) \/ NamexEnd(p)

OpenStep(p) == Open(p) \/ OpenFile(p) \/ Close(p) \/ Chdir(p)

CreateStep(p) ==
  \/ CreateFound(p) \/ CreateOld(p) \/ CreateFill(p) \/ Created(p)
  \/ \E i \in Inums : CreateNew(p, i)

LinkStep(p) ==
  \/ \E path \in Paths : LinkIp(p, path)
  \/ LinkDirectory(p) \/ LinkDp(p) \/ LinkDone(p) \/ LinkBad(p)

UnlinkStep(p) ==
  \/ UnlinkFails(p) \/ UnlinkFound(p) \/ UnlinkNotEmpty(p) \/ UnlinkBad(p)
  \/ UnlinkEntry(p) \/ UnlinkDec(p)

Next ==
  \/ /\ panicked = None
     /\ \E p \in Procs :
          \/ BeginStep(p) \/ NamexStep(p) \/ CacheStep(p) \/ OpenStep(p)
          \/ CreateStep(p) \/ LinkStep(p) \/ UnlinkStep(p) \/ Panic(p)
  \/ Stopped

Spec == Init /\ [][Next]_vars
-----------------------------------------------------------------------------
(***************************************************************************)
(* Properties.  Those with Regular hold as long as no iput() that frees an *)
(* inode was overtaken and no removed directory was used.                  *)
(***************************************************************************)

\* ip->ref is the number of pointers to the entry (fs.c:125): no path through
\* a system call, the failing ones included, loses or forgets a reference.
RefsAreCounted ==
  \A i \in Inums :
    ref[i] = Cardinality({p \in Procs : cwd[p] = i})
             + Cardinality({p \in Procs : fd[p] = i})
             + Cardinality({e \in Procs \X Pointers : reg[e[1]][e[2]] = i})

\* Directories that a path from the root, or their parent, leads to.
Linked(d) == d = Root \/ \E e \in Inums, n \in Names : dir[e][n] = d

\* Links that link() has counted and not yet made, or unlink() has erased and
\* still counts.
Pending(i) ==
  {p \in Procs :
     LET r == reg[p] IN
     /\ r.ip = i
     /\ \/ r.call = "link" /\ r.want = "dp" /\ "link_done" \notin {pc[p], r.ret}
        \/ r.call = "unlink" /\ "unlink_dec" \in {pc[p], r.ret}}

\* The link count of an inode on the disk is the number of names that refer
\* to it, the ".." of directories included (sysfile.c:270), and an inode with
\* a name is allocated.
LinksAreCounted ==
  Regular =>
    \A i \in Inums :
      /\ dsk[i].nlink =
           Cardinality({e \in Inums \X Names : dir[e[1]][e[2]] = i})
           + Cardinality({d \in Inums : dir[d][".."] = i /\ Linked(d)})
           + Cardinality(Pending(i))
      /\ dsk[i].nlink > 0 => dsk[i].type # "free"

\* An inode without a name is freed when the last reference is gone: what is
\* allocated has a name or is in use.
NothingIsLost ==
  Regular =>
    \A i \in Inums : dsk[i].type # "free" => dsk[i].nlink > 0 \/ ref[i] > 0

\* Whoever locks an inode sees what the disk has, and nobody frees it
\* meanwhile (fs.c:136, "file system code may only examine and modify the
\* information in an inode and its content if it has first locked the inode").
LockedIsAllocated ==
  \A i \in Inums : lock[i] # None =>
    /\ ref[i] > 0
    /\ valid[i]
    /\ mem[i].type # "free"
    /\ mem[i] = dsk[i]

LockedIsStable == Regular => LockedIsAllocated

\* No call meets an inode in a state that panics, the limit on inodes apart.
NoCallPanics == Regular => panicked # "broken"

\* No processes wait for inode locks in a circle: directories are locked
\* before what they contain, and ".." never while the directory is locked.
NoCircularWait ==
  \A S \in (SUBSET Procs) \ {{}} :
    ~ \A p \in S : Needs(p) # None /\ lock[Needs(p)] \in S
=============================================================================
