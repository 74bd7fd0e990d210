----------------------------- MODULE FileSystem -----------------------------
(***************************************************************************)
(* Calls on files and directories, together with the descriptors of Files: *)
(* open, read, write and seek (arceos_posix_api/src/imp/fs.rs over         *)
(* axfs/src/fops.rs), the working directory, mkdir, unlink, rename, links, *)
(* mounts and getdents (api/src/imp/fs).                                   *)
(*                                                                         *)
(* The tests of a call and the change they guard are one step; a call that *)
(* uses what it looked up earlier, or changes two things, takes several.   *)
(* A file has a size and no contents, and sizes are kept for the main file *)
(* system only.  A handle names its file by its path: on ext4 the code     *)
(* does so, on FAT the handle knows the place of the directory entry.      *)
(***************************************************************************)
EXTENDS Files, Vfs

CONSTANTS Renames,    \* pairs of path names for rename
          Seeks,      \* offsets for lseek
          MaxDepth,   \* bound on the depth of a working directory
          BufEntries  \* entries that fit into the buffer for getdents

VARIABLES file,      \* file[o]: an open file or directory
          cwd,       \* cwd[k]: CURRENT_DIR and CURRENT_DIR_PATH of a process
          arg,       \* arg[t]: paths and flags of the call of t
          mounted,   \* MOUNTED: pairs of device and mount point
          dirents,   \* the buffer that was given to getdents last
          clobbered  \* a handle has written an entry that was unlinked

fsVars == <<fs, tree, links, refs, file, cwd, arg, mounted, dirents, clobbered>>
allVars == <<vars, fsVars>>

NoFile == [ty |-> "none", node |-> ROOT_DIR, path |-> Root, cap |-> {}, append |-> FALSE,
           off |-> 0, len |-> 0, dirty |-> FALSE]
NoArg == [p |-> Empty, dst |-> Empty, fl |-> {}, dir |-> ROOT_DIR]
NoEntry == [len |-> 0, off |-> 0]
ZeroBuffer == [i \in 1..BufEntries |-> NoEntry]

Init ==
  /\ FilesInit /\ VfsInit
  /\ fs = load.fs
  /\ file = [o \in FileObjs |-> NoFile]
  /\ cwd = [k \in Tables |-> [dir |-> ROOT_DIR, path |-> Root]]
  /\ arg = [t \in Tasks |-> NoArg]
  /\ mounted = <<>> /\ dirents = ZeroBuffer /\ clobbered = FALSE

Cwd(t) == cwd[proc[t]]
Unused == {o \in FileObjs : file[o].ty = "none"}
OnFat(f) == f.node.v = Main /\ fs = "fat"
OnExt4(f) == f.node.v = Main /\ fs = "ext4"
Live(f) == f.node.p \in DOMAIN tree[Main] /\ tree[Main][f.node.p].ty = "file"

(* The size get_attr reports: FAT keeps it in the handle.                  *)
SizeOf(f) == IF OnFat(f) THEN f.len
             ELSE IF OnExt4(f) /\ Live(f) THEN tree[Main][f.node.p].len ELSE 0

(* A FAT handle that is dropped writes its directory entry back if it has  *)
(* changed it, whatever has become of the entry.                           *)
Flushed(tr, f) ==
  IF OnFat(f) /\ f.dirty /\ IsDir(tr, Main, Front(f.node.p))
    THEN Put(tr, Main, f.node.p, Entry("file", f.len, TRUE)) ELSE tr
Clobbers(tr, f) == OnFat(f) /\ f.dirty /\ ~(f.node.p \in DOMAIN tr[Main]
                                            /\ tr[Main][f.node.p].ty = "file")

(* What Files does to an object ends its file when nothing refers to it.   *)
DropFiles ==
  LET gone == {o \in FileObjs : file[o].ty # "none" /\ ~Referenced(o, table', cur')}
  IN  IF gone = {} THEN UNCHANGED <<file, tree, clobbered>>
      ELSE LET o == CHOOSE o \in gone : TRUE
           IN  /\ tree' = Flushed(tree, file[o])
               /\ clobbered' = (clobbered \/ Clobbers(tree, file[o]))
               /\ file' = [file EXCEPT ![o] = NoFile]

Ask(t, l, a) == Goto(t, l) /\ arg' = [arg EXCEPT ![t] = a]
Answer(t) == Goto(t, "idle") /\ arg' = [arg EXCEPT ![t] = NoArg]
streams == <<ring, got, console, inbuf, interest, load, proc, cur>>

-----------------------------------------------------------------------------
(* OpenOptions::is_valid.                                                  *)
is_valid(fl) ==
  /\ fl \cap {"R", "W", "APPEND", "DIR"} # {}
  /\ fl \cap {"W", "APPEND"} = {} => fl \cap {"TRUNC", "CREAT"} = {}
  /\ "APPEND" \in fl => "TRUNC" \notin fl

(* Cap::from(&OpenOptions).                                                *)
CapOf(fl) == {c \in {"R", "W"} : c \in fl \/ (c = "W" /\ "APPEND" \in fl)}

(* A handle of node n, with the size the directory entry has now.          *)
Opened(n, p, fl) ==
  LET ty == IF IsDir(tree, n.v, n.p) THEN "dir" ELSE "file"
  IN  [NoFile EXCEPT !.ty = ty, !.node = Node(n.v, n.p), !.path = p, !.cap = CapOf(fl),
                     !.append = "APPEND" \in fl,
                     !.len = IF ty = "file" /\ n.v = Main /\ fs = "fat" /\ "TRUNC" \notin fl
                               THEN tree[Main][n.p].len ELSE 0,
                     !.dirty = (fs = "fat" /\ "TRUNC" \in fl)]

(* add_to_fd_table: the handle is dropped if there is no descriptor.       *)
add_to_fd_table(t, f, tr) ==
  IF FreeFds(table[proc[t]]) = {}
    THEN /\ tree' = Flushed(tr, f) /\ UNCHANGED <<table, file>>
    ELSE LET o == CHOOSE o \in Unused : TRUE
         IN  /\ SetTable(t, add(table[proc[t]], o))
             /\ file' = [file EXCEPT ![o] = f]
             /\ tree' = tr

(* The part of _open_at behind the lookup, and open_dir for a directory.   *)
OpenNode(t, n, p, fl) ==
  LET dir == IsDir(tree, n.v, n.p)
      trunc == ~dir /\ "TRUNC" \in fl /\ n.v = Main /\ fs = "ext4"
  IN  IF n.err = "ok"
         /\ (dir => "R" \in fl /\ fl \cap {"CREAT", "W", "APPEND", "TRUNC"} = {})
         /\ (~dir => "DIR" \notin fl /\ ("W" \in CapOf(fl) => Writable(n.v, n.p)))
        THEN add_to_fd_table(t, Opened(n, p, fl),
                             IF trunc THEN [tree EXCEPT ![n.v][n.p].len = 0] ELSE tree)
        ELSE UNCHANGED <<table, file, tree>>

(* sys_openat and sys_open up to the lookup.  With O_DIRECTORY only        *)
(* open_dir is tried.                                                      *)
sys_openat(t) ==
  /\ Starts(t, "open") /\ Unused # {}
  /\ \E p \in load.paths, fl \in load.flags :
     \E dir \in {Cwd(t).dir} \cup {file[o].node : o \in {o \in FileObjs : file[o].ty = "dir"
                                        /\ \E fd \in Fds : OfTask(t, fd) = o}} :
     \E n \in {lookup(dir, p)} :
       IF "DIR" \notin fl /\ is_valid(fl) /\ "CREAT" \in fl /\ n.err = "NotFound" /\ ~p.slash
         THEN /\ Ask(t, "create", [NoArg EXCEPT !.p = p, !.fl = fl, !.dir = dir])
              /\ UNCHANGED <<table, file, tree>>
         ELSE /\ IF "DIR" \in fl \/ is_valid(fl) THEN OpenNode(t, n, p, fl)
                 ELSE UNCHANGED <<table, file, tree>>
              /\ UNCHANGED <<pc, arg>>
  /\ UNCHANGED <<streams, panicked, fs, links, refs, cwd, mounted, dirents, clobbered>>

(* create_file: the node is made ...                                       *)
create_file(t) ==
  /\ pc[t] = "create"
  /\ LET a == arg[t]
         r == create(parent_node_of(a.dir, a.p), a.p.comps, Entry("file", 0, TRUE))
     IN  tree' = r.tree /\ panicked' = r.panic /\ Goto(t, "reopen")
  /\ UNCHANGED <<streams, table, fs, links, refs, file, cwd, arg, mounted, dirents, clobbered>>

(* ... and looked up again.                                                *)
Reopen(t) ==
  /\ pc[t] = "reopen" /\ Unused # {}
  /\ LET a == arg[t] IN OpenNode(t, lookup(a.dir, a.p), a.p, a.fl)
  /\ Answer(t)
  /\ UNCHANGED <<streams, panicked, fs, links, refs, cwd, mounted, dirents, clobbered>>

-----------------------------------------------------------------------------
(* The mutex of the posix File is held from here to the end of the write.  *)
Unlocked(o) == \A u \in Tasks : ~(pc[u] = "write_at" /\ cur[u].obj = o)

(* File::read: at most what lies behind the cursor.                        *)
file_read(t) ==
  /\ pc[t] = "read" /\ cur[t].obj \in FileObjs /\ Unlocked(cur[t].obj)
  /\ LET f == file[cur[t].obj]
         there == IF SizeOf(f) > f.off THEN SizeOf(f) - f.off ELSE 0
     IN  file' = IF f.ty = "file" /\ "R" \in f.cap
                   THEN [file EXCEPT ![cur[t].obj].off = @ + Min({cur[t].n, there})] ELSE file
  /\ Return(t)
  /\ UNCHANGED <<table, proc, data, fs, tree, links, refs, cwd, arg, mounted, dirents, clobbered>>

(* File::write: the offset is found, with O_APPEND the size; ...           *)
file_write(t) ==
  /\ pc[t] = "writev" /\ cur[t].iov # <<>>
  /\ LET c == cur[t]
         o == OfTask(t, c.fd)
         f == file[o]
     IN  /\ o \in FileObjs /\ Unlocked(o)
         /\ IF f.ty = "file" /\ "W" \in f.cap
              THEN Do(t, "write_at", [c EXCEPT !.obj = o, !.left = Head(c.iov),
                                               !.iov = Tail(@),
                                               !.n = IF f.append THEN SizeOf(f) ELSE f.off])
              ELSE Return(t)
  /\ UNCHANGED <<table, proc, data, fsVars>>

(* ... the node's write_at moves an offset behind the end to the end.  The *)
(* disk is full at MaxSize.                                                *)
write_at(t) ==
  /\ pc[t] = "write_at"
  /\ LET c == cur[t]
         f == file[c.obj]
         size == SizeOf(f)
         end == Min({c.n, size}) + Len(c.left)
         ok == end <= MaxSize /\ c.n + Len(c.left) <= MaxSize /\ (OnExt4(f) => Live(f))
         grown == Max({size, end})
     IN  /\ IF ok
              THEN /\ file' = [file EXCEPT ![c.obj].off = c.n + Len(c.left),
                                           ![c.obj].len = IF OnFat(f) THEN grown ELSE @,
                                           ![c.obj].dirty = @ \/ OnFat(f)]
                   /\ tree' = IF OnExt4(f) THEN [tree EXCEPT ![Main][f.node.p].len = grown] ELSE tree
                   /\ Do(t, "writev", [c EXCEPT !.obj = NoObj, !.left = <<>>, !.n = 0])
              ELSE Return(t) /\ UNCHANGED <<file, tree>>
  /\ UNCHANGED <<table, proc, data, fs, links, refs, cwd, arg, mounted, dirents, clobbered>>

(* sys_lseek: from the start, the cursor or the end; never negative, and   *)
(* not bounded by the size.                                                *)
sys_lseek(t) ==
  /\ Starts(t, "seek")
  /\ \E o \in FileObjs, d \in Seeks :
       LET f == file[o]
       IN  /\ \E fd \in Fds : OfTask(t, fd) = o
           /\ f.ty = "file" /\ Unlocked(o)
           /\ \E base \in {0, f.off, SizeOf(f)} :
                file' = IF base + d \in 0..MaxSize THEN [file EXCEPT ![o].off = base + d] ELSE file
  /\ UNCHANGED <<vars, fs, tree, links, refs, cwd, arg, mounted, dirents, clobbered>>

-----------------------------------------------------------------------------
quiet == <<streams, table, panicked, fs, file, dirents, clobbered>>

(* set_current_dir.  The directory and its path are behind two locks.      *)
sys_chdir(t) ==
  /\ Starts(t, "chdir")
  /\ \E a \in {[absolute_path(p, Cwd(t).path) EXCEPT !.slash = TRUE] : p \in load.paths} :
     \E n \in {lookup(ROOT_DIR, a)} :
       /\ Len(a.comps) <= MaxDepth /\ Len(n.p) <= MaxDepth
       /\ IF a = Root \/ (n.err = "ok" /\ IsDir(tree, n.v, n.p))
             THEN /\ cwd' = [cwd EXCEPT ![proc[t]].dir = IF a = Root THEN ROOT_DIR ELSE Node(n.v, n.p)]
                  /\ Ask(t, "chdir", [NoArg EXCEPT !.p = a])
             ELSE UNCHANGED <<pc, cwd, arg>>
  /\ UNCHANGED <<quiet, tree, links, refs, mounted>>

set_current_dir_path(t) ==
  /\ pc[t] = "chdir"
  /\ cwd' = [cwd EXCEPT ![proc[t]].path = arg[t].p]
  /\ Answer(t)
  /\ UNCHANGED <<quiet, tree, links, refs, mounted>>

(* sys_mkdirat: create_dir, if nothing is found.  A relative path needs    *)
(* AT_FDCWD.                                                               *)
sys_mkdirat(t) ==
  /\ Starts(t, "mkdir")
  /\ \E p \in load.paths :
       IF lookup(Cwd(t).dir, p).err = "NotFound"
         THEN Ask(t, "mkdir", [NoArg EXCEPT !.p = p, !.dir = Cwd(t).dir])
         ELSE UNCHANGED <<pc, arg>>
  /\ UNCHANGED <<quiet, tree, links, refs, cwd, mounted>>
create_dir(t) ==
  /\ pc[t] = "mkdir"
  /\ tree' = create(parent_node_of(arg[t].dir, arg[t].p), arg[t].p.comps, DirEntry).tree
  /\ Answer(t)
  /\ UNCHANGED <<quiet, links, refs, cwd, mounted>>

(* sys_unlink: the directory is what precedes the last '/'.  Without one,  *)
(* or if it cannot be opened, unwrap panics.                               *)
Prefix(p) == IF p.slash THEN [p EXCEPT !.slash = FALSE]
             ELSE [p EXCEPT !.comps = Front(@), !.abs = @ /\ Len(p.comps) > 1]
sys_unlink(t) ==
  /\ Starts(t, "unlink")
  /\ \E p \in load.paths \ {Root} : \E n \in {lookup(Cwd(t).dir, Prefix(p))} :
       IF n.err = "ok" /\ IsDir(tree, n.v, n.p)
         THEN /\ tree' = IF p.slash THEN tree
                         ELSE remove_file(Node(n.v, n.p), Path(FALSE, <<Last(p.comps)>>, FALSE))
              /\ UNCHANGED panicked
         ELSE panicked' = TRUE /\ UNCHANGED tree
  /\ UNCHANGED <<streams, table, pc, fs, links, refs, file, cwd, arg, mounted, dirents, clobbered>>

(* handle_file_path: relative to the working directory, or to the path     *)
(* with which the directory of a descriptor was opened, put in front as it *)
(* is.                                                                     *)
handle_file_path(t, p, force_dir) ==
  LET bases == {Cwd(t).path} \cup {file[o].path : o \in {o \in FileObjs : file[o].ty = "dir"
                                      /\ \E fd \in Fds : OfTask(t, fd) = o}}
      whole == IF p.abs THEN {p} ELSE {Concat(b, p) : b \in bases}
  IN  {real_path(Normal(adjust_path_suffix(w, force_dir), Cwd(t).path)) : w \in whole}

(* sys_unlinkat, with AT_REMOVEDIR ...                                     *)
sys_rmdir(t) ==
  /\ Starts(t, "unlinkat")
  /\ \E p \in load.paths : \E q \in handle_file_path(t, p, FALSE) :
       tree' = remove_dir(ROOT_DIR, q, Cwd(t).path)
  /\ UNCHANGED <<quiet, pc, links, refs, cwd, arg, mounted>>

(* ... and without: the type is looked at, then the link or file removed.  *)
sys_unlinkat(t) ==
  /\ Starts(t, "unlinkat")
  /\ \E p \in load.paths : \E q \in handle_file_path(t, p, FALSE) :
       LET n == lookup(ROOT_DIR, q)
       IN  IF n.err = "ok" /\ ~IsDir(tree, n.v, n.p) THEN Ask(t, "unlinkat", [NoArg EXCEPT !.p = q])
           ELSE UNCHANGED <<pc, arg>>
  /\ UNCHANGED <<quiet, tree, links, refs, cwd, mounted>>
RemoveLink(t) ==
  /\ pc[t] = "unlinkat"
  /\ remove_link(arg[t].p)
  /\ Answer(t)
  /\ UNCHANGED <<quiet, cwd, mounted>>

(* sys_linkat and the tests of create_link: the target exists, and its     *)
(* path ends with '/'.                                                     *)
sys_linkat(t) ==
  /\ Starts(t, "link")
  /\ \E old, new \in load.paths :
     \E dst \in handle_file_path(t, old, FALSE), src \in handle_file_path(t, new, FALSE) :
       IF exists(dst) /\ dst.slash THEN Ask(t, "link", [NoArg EXCEPT !.p = src, !.dst = dst])
       ELSE UNCHANGED <<pc, arg>>
  /\ UNCHANGED <<quiet, tree, links, refs, cwd, mounted>>
create_link(t) ==
  /\ pc[t] = "link"
  /\ atomic_link_update(arg[t].p, arg[t].dst)
  /\ Answer(t)
  /\ UNCHANGED <<quiet, cwd, mounted>>

(* sys_rename: what has the new name is removed first ...                  *)
sys_rename(t) ==
  /\ Starts(t, "rename")
  /\ \E r \in Renames :
       LET free == Find(parent_node_of(Cwd(t).dir, r[2]), r[2].comps).err # "ok"
       IN  /\ tree' = IF free THEN tree ELSE remove_file(Cwd(t).dir, r[2])
           /\ IF ~free /\ tree' = tree THEN UNCHANGED <<pc, arg>>
              ELSE Ask(t, "rename", [NoArg EXCEPT !.p = r[1], !.dst = r[2], !.dir = Cwd(t).dir])
  /\ UNCHANGED <<quiet, links, refs, cwd, mounted>>

(* ... and then the node is renamed, which may fail.                       *)
rename(t) ==
  /\ pc[t] = "rename"
  /\ LET a == arg[t]
     IN  tree' = RenameNode(parent_node_of(a.dir, a.p), a.p.comps, a.dst.comps)
  /\ Answer(t)
  /\ UNCHANGED <<quiet, links, refs, cwd, mounted>>

-----------------------------------------------------------------------------
(* sys_mount: the directory exists and no mount point is a prefix of it ...*)
check_mounted(p) == \E i \in DOMAIN mounted : IsPrefix(mounted[i].dir.comps, p.comps)
sys_mount(t) ==
  /\ Starts(t, "mount") /\ Len(mounted) < 2
  /\ \E dev, p \in load.paths :
     \E d \in handle_file_path(t, dev, FALSE), q \in handle_file_path(t, p, TRUE) :
       IF exists(q) /\ ~check_mounted(q) THEN Ask(t, "mount", [NoArg EXCEPT !.p = d, !.dst = q])
       ELSE UNCHANGED <<pc, arg>>
  /\ UNCHANGED <<quiet, tree, links, refs, cwd, mounted>>

(* ... mount_fat_fs looks again whether it exists and adds it.  A device   *)
(* whose path ends with '/' fails the assertion in MountedFs::new.         *)
mount_fat_fs(t) ==
  /\ pc[t] = "mount"
  /\ LET a == arg[t]
     IN  /\ panicked' = (exists(a.dst) /\ (a.p.slash \/ ~a.dst.slash))
         /\ mounted' = IF exists(a.dst) THEN Append(mounted, [dev |-> a.p, dir |-> a.dst]) ELSE mounted
  /\ Answer(t)
  /\ UNCHANGED <<streams, table, fs, tree, links, refs, file, cwd, dirents, clobbered>>

sys_umount2(t) ==
  /\ Starts(t, "mount")
  /\ \E p \in load.paths : \E q \in handle_file_path(t, p, TRUE) :
       mounted' = IF exists(q) THEN SelectSeq(mounted, LAMBDA m : m.dir # q) ELSE mounted
  /\ UNCHANGED <<quiet, pc, tree, links, refs, cwd, arg>>

-----------------------------------------------------------------------------
(* The entries before the first of length 0: sys_getdents64 counts them to *)
(* find where to go on, and asserts that each says where it ends.          *)
Leading(b) == CHOOSE n \in 0..BufEntries : /\ \A i \in 1..n : b[i].len # 0
                                           /\ n = BufEntries \/ b[n + 1].len = 0
OffsetsMatch(b) == \A i \in 1..Leading(b) : b[i].off = i

(* sys_getdents64 with a fresh buffer or the one of the last call.  The    *)
(* directory is found by its path.  New entries are written to the front   *)
(* of the buffer, then one of length 0 if it fits.                         *)
sys_getdents64(t) ==
  /\ Starts(t, "getdents")
  /\ \E o \in FileObjs, b \in {ZeroBuffer, dirents} : \E d \in {lookup(Cwd(t).dir, file[o].path)} :
       LET all == {q \in DOMAIN tree[d.v] : Len(q) = Len(d.p) + 1 /\ IsPrefix(d.p, q)}
           count == Leading(b)
           left == IF Cardinality(all) > count THEN Cardinality(all) - count ELSE 0
           n == Min({left, BufEntries})
       IN  /\ file[o].ty = "dir" /\ \E fd \in Fds : OfTask(t, fd) = o
           /\ panicked' = ~OffsetsMatch(b)
           /\ dirents' = IF ~OffsetsMatch(b) \/ d.err # "ok" \/ ~IsDir(tree, d.v, d.p) THEN b
                         ELSE [i \in 1..BufEntries |->
                                 IF i <= n THEN [len |-> 1, off |-> count + i]
                                 ELSE IF i = n + 1 /\ count + n > 0 THEN [len |-> 0, off |-> count + n]
                                 ELSE b[i]]
  /\ UNCHANGED <<streams, table, pc, fs, tree, links, refs, file, cwd, arg, mounted, clobbered>>

-----------------------------------------------------------------------------
(* sys_clone with the working directory: a new process has a copy.         *)
fs_clone(t) ==
  /\ sys_clone(t)
  /\ cwd' = [k \in Tables |-> IF \E u \in Tasks : proc[u] = NoTable /\ proc'[u] = k /\ k # proc[t]
                                THEN Cwd(t) ELSE cwd[k]]
  /\ UNCHANGED <<fs, tree, links, refs, file, arg, mounted, dirents, clobbered>>

FsCall(t) ==
  \/ sys_openat(t) \/ sys_lseek(t) \/ sys_chdir(t) \/ sys_mkdirat(t) \/ sys_unlink(t)
  \/ sys_rmdir(t) \/ sys_unlinkat(t) \/ sys_linkat(t) \/ sys_rename(t)
  \/ sys_mount(t) \/ sys_umount2(t) \/ sys_getdents64(t) \/ fs_clone(t)

FsStep(t) ==
  \/ create_file(t) \/ Reopen(t) \/ file_read(t) \/ file_write(t) \/ write_at(t)
  \/ set_current_dir_path(t) \/ create_dir(t) \/ RemoveLink(t) \/ create_link(t)
  \/ rename(t) \/ mount_fat_fs(t)

(* A step of Files; an object that nothing refers to any more is dropped.  *)
Other(A) == A /\ DropFiles /\ UNCHANGED <<fs, links, refs, cwd, arg, mounted, dirents>>

Next ==
  /\ ~panicked
  /\ \/ Other(Type)
     \/ \E t \in Tasks : \/ FsCall(t) \/ FsStep(t)
                         \/ Other(Begin(t)) \/ Other(Step(t)) \/ Other(Timeout(t))

Fairness ==
  \A t \in Tasks : /\ WF_allVars(~panicked /\ Other(Step(t)))
                   /\ SF_allVars(~panicked /\ Other(PollStart(t)))
                   /\ SF_allVars(~panicked /\ Other(Timeout(t)))

Spec == Init /\ [][Next]_allVars
FairSpec == Spec /\ Fairness

-----------------------------------------------------------------------------
(* The types of the variables.                                             *)
TypeOK ==
  /\ table \in [Tables -> [Fds -> Objects \cup {NoObj}]]
  /\ proc \in [Tasks -> Tables \cup {NoTable}]
  /\ \A t \in Tasks : cur[t].obj \in Objects \cup {NoObj} /\ cur[t].rest \subseteq Fds
  /\ ring \in Rings
  /\ interest \in [Fds -> SUBSET Events]
  /\ \A o \in FileObjs : file[o].len \in 0..MaxSize /\ file[o].off \in 0..MaxSize
  /\ \A v \in FileSystems : \A p \in DOMAIN tree[v] : p \in Seq(Names) /\ tree[v][p].len \in 0..MaxSize
  /\ DOMAIN links \subseteq [abs : {TRUE}, comps : Seq(Names), slash : BOOLEAN]
  /\ panicked \in BOOLEAN

(* Every entry lies in a directory, whatever mkdir, unlink, rename and     *)
(* open do at the same time, unless a FAT handle has written back an entry *)
(* that was unlinked.                                                      *)
TreeClosed ==
  ~clobbered => \A v \in FileSystems : \A p \in DOMAIN tree[v] : IsDir(tree, v, Front(p))

(* The count of a target is the number of its links, however linkat and    *)
(* unlinkat of several tasks interleave between the resolution of a path   *)
(* and the update of the maps.                                             *)
LinkCounts ==
  /\ DOMAIN refs = {links[s] : s \in DOMAIN links}
  /\ \A d \in DOMAIN refs : refs[d] = Cardinality({s \in DOMAIN links : links[s] = d})

(* What prepend_cwd asserts and absolute_path relies on: the path of the   *)
(* working directory is absolute, has no "." or ".." and ends with '/'.    *)
CwdWellFormed ==
  \A k \in Tables : LET p == cwd[k].path
                    IN  p.abs /\ p.slash /\ \A i \in DOMAIN p.comps : p.comps[i] \notin {".", ".."}

(* The assertion of sys_getdents64 holds of the buffer it has filled.      *)
DirOffsets == OffsetsMatch(dirents)
=============================================================================
