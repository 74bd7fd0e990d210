-------------------------------- MODULE Vfs --------------------------------
(***************************************************************************)
(* The trees of files and the operations on their nodes: the root with its *)
(* mount table (axfs/src/root.rs), the main file system, which is FAT      *)
(* (fs/fatfs.rs) or ext4 (fs/lwext4_rust.rs) depending on the build, and a *)
(* file system in memory (axfs_ramfs) at each mount point.                 *)
(*                                                                         *)
(* A node of a tree is named by its file system and its path from the root *)
(* there.  One operation on a node is one step.                            *)
(***************************************************************************)
EXTENDS Paths, FiniteSets

CONSTANTS MaxSize,    \* bound on the size of a file
          InitTree    \* the main file system on disk: [paths -> entries]

VARIABLES fs,     \* the kind of the main file system: "fat" or "ext4"
          tree,   \* tree[v]: the entries of file system v by path
          links, refs  \* LinkManagerInner

vfsVars == <<fs, tree, links, refs>>

FileSystems == {Main} \cup {Mounts[m] : m \in DOMAIN Mounts}
Entry(ty, n, w) == [ty |-> ty, len |-> n, w |-> w]
DirEntry == Entry("dir", 0, TRUE)

(* Nodes.  RootDirectory is a node of its own, which sees the mounts.      *)
Node(v, p) == [v |-> v, p |-> p]
ROOT_DIR == Node("root", <<>>)

IsDir(tr, v, p) == p = <<>> \/ (p \in DOMAIN tr[v] /\ tr[v][p].ty = "dir")

(* owner_writable: FAT gives every file the same permissions.              *)
Writable(v, p) == fs = "fat" \/ tree[v][p].w
Exists(v, p) == p = <<>> \/ p \in DOMAIN tree[v]
Below(tr, v, p) == {q \in DOMAIN tr[v] : Len(q) > Len(p) /\ SubSeq(q, 1, Len(p)) = p}
Put(tr, v, p, e) ==
  [tr EXCEPT ![v] = [q \in DOMAIN tr[v] \cup {p} |-> IF q = p THEN e ELSE tr[v][q]]]
Cut(tr, v, gone) == [tr EXCEPT ![v] = [q \in DOMAIN tr[v] \ gone |-> tr[v][q]]]

(* RootDirectory::mount for every mount point at start: the directory is   *)
(* made in the main file system if it is not there.                        *)
init_rootfs ==
  LET points == {<<m>> : m \in DOMAIN Mounts}
  IN  [v \in FileSystems |->
        IF v = Main THEN [q \in DOMAIN InitTree \cup points |->
                            IF q \in points THEN DirEntry ELSE InitTree[q]]
        ELSE <<>>]

-----------------------------------------------------------------------------
(* The way from a node along names.  An entry on the way must be a         *)
(* directory.  Above the root of FAT there is nothing, the root of ext4 is *)
(* its own parent, and above a mounted root is the main one.               *)
Found(v, p) == [err |-> "ok", v |-> v, p |-> p]
NotFound == [err |-> "NotFound", v |-> Main, p |-> <<>>]
Walk(v, base, comps) ==
  FoldLeft(LAMBDA acc, n :
             IF acc.err # "ok" \/ ~IsDir(tree, acc.v, acc.p) THEN NotFound
             ELSE IF n = "." THEN acc
             ELSE IF n = ".." /\ acc.p # <<>> THEN Found(acc.v, Front(acc.p))
             ELSE IF n = ".." /\ acc.v = Main /\ fs = "fat" THEN NotFound
             ELSE IF n = ".." THEN Found(Main, <<>>)
             ELSE IF Exists(acc.v, Append(acc.p, n)) THEN Found(acc.v, Append(acc.p, n))
             ELSE NotFound,
           Found(v, base), comps)

(* The file system, the directory to start from, and the names to follow.  *)
FromRoot(m) == [v |-> m.v, base |-> <<>>, comps |-> m.comps]
Target(n, comps) ==
  IF n = ROOT_DIR THEN FromRoot(lookup_mounted_fs(comps))
  ELSE [v |-> n.v, base |-> n.p, comps |-> comps]
Follow(g) == Walk(g.v, g.base, g.comps)
Find(n, comps) == Follow(Target(n, comps))

(* VfsNodeOps::create of the three file systems: the tree afterwards, and  *)
(* whether the kernel panicked.  e is the entry to make, at name n of      *)
(* directory d.                                                            *)
Result2(tr, panic) == [tree |-> tr, panic |-> panic]
fat_create(d, n, e) ==
  LET p == Append(d.p, n)
  IN  Result2(IF d.err = "ok" /\ IsDir(tree, d.v, d.p) /\ ~Exists(d.v, p)
                THEN Put(tree, d.v, p, e) ELSE tree, FALSE)
ext4_create(d, n, e) ==
  LET p == Append(d.p, n)
      ok == d.err = "ok" /\ IsDir(tree, d.v, d.p)
  IN  IF ok /\ Exists(d.v, p) /\ tree[d.v][p].ty = e.ty THEN Result2(tree, FALSE)
      ELSE IF ok /\ ~Exists(d.v, p) THEN Result2(Put(tree, d.v, p, e), FALSE)
      ELSE Result2(tree, e.ty = "file")
CreateIn(d, n, e) ==
  IF d.v = Main /\ fs = "ext4" THEN ext4_create(d, n, e) ELSE fat_create(d, n, e)
CreateAt(g, e) ==
  IF g.comps = <<>> \/ Last(g.comps) \in {".", ".."} THEN Result2(tree, FALSE)
  ELSE CreateIn(Walk(g.v, g.base, Front(g.comps)), Last(g.comps), e)
create(n, comps, e) == CreateAt(Target(n, comps), e)

(* Faulty variant: a directory may have entries.                           *)
fat_removeAny(d) == Cut(tree, d.v, {d.p})

(* VfsNodeOps::remove: FAT and the memory file system refuse a directory   *)
(* with entries, ext4 removes it with all that is below.                   *)
fat_remove(d) ==
  IF Below(tree, d.v, d.p) = {} THEN Cut(tree, d.v, {d.p}) ELSE tree
ext4_remove(d) == Cut(tree, d.v, {d.p} \cup Below(tree, d.v, d.p))
RemoveNode(d) ==
  IF d.err # "ok" \/ d.p = <<>> THEN tree
  ELSE IF d.v = Main /\ fs = "ext4" THEN ext4_remove(d)
  ELSE fat_remove(d)
remove(n, comps) == RemoveNode(Find(n, comps))

(* VfsNodeOps::rename.  FAT moves the entry and what is below it, unless   *)
(* the new name is taken; the new path is followed in the same file system *)
(* without looking at mounts.  ext4 is given a source without '/' at the   *)
(* front and finds no such file; the memory file system has no rename.     *)
fat_rename(src, dir, name) ==
  LET dst == Append(dir.p, name)
      Move(q) == dst \o SubSeq(q, Len(src.p) + 1, Len(q))
      moved == {src.p} \cup Below(tree, Main, src.p)
      rest == DOMAIN tree[Main] \ moved
  IN  IF \/ src.err # "ok" \/ src.p = <<>> \/ src.v # Main \/ fs = "ext4"
         \/ dir.err # "ok" \/ ~IsDir(tree, Main, dir.p) \/ Exists(Main, dst)
        THEN tree
        ELSE [tree EXCEPT ![Main] =
                [q \in rest \cup {Move(x) : x \in moved} |->
                   IF q \in rest THEN tree[Main][q]
                   ELSE tree[Main][CHOOSE x \in moved : Move(x) = q]]]
RenameNode(n, old, new) ==
  fat_rename(Find(n, old), Walk(Main, IF n = ROOT_DIR THEN <<>> ELSE n.p, Front(new)), Last(new))

-----------------------------------------------------------------------------
(* root.rs.  dir is CURRENT_DIR or the directory of a descriptor.          *)
parent_node_of(dir, p) == IF p.abs THEN ROOT_DIR ELSE dir
Checked(n, p) ==
  IF p = Empty THEN NotFound
  ELSE IF n.err = "ok" /\ p.slash /\ ~IsDir(tree, n.v, n.p) THEN [n EXCEPT !.err = "NotADirectory"]
  ELSE n
lookup(dir, p) == Checked(Find(parent_node_of(dir, p), p.comps), p)

(* remove_file: the tree afterwards.                                       *)
RemovableFile(n) == n.err = "ok" /\ ~IsDir(tree, n.v, n.p) /\ Writable(n.v, n.p)
remove_file(dir, p) ==
  IF RemovableFile(lookup(dir, p)) THEN remove(parent_node_of(dir, p), p.comps) ELSE tree

(* RootDirectory::contains.                                                *)
contains(p) == Len(p.comps) = 1 /\ p.comps[1] \in DOMAIN Mounts

(* remove_dir: the tree afterwards.                                        *)
RemovableDir(n) == n.err = "ok" /\ IsDir(tree, n.v, n.p) /\ (n.p # <<>> => Writable(n.v, n.p))
remove_dir(dir, p, cwd) ==
  IF /\ p.comps # <<>> /\ Last(p.comps) \notin {".", ".."}
     /\ ~contains(absolute_path(p, cwd))
     /\ RemovableDir(lookup(dir, p))
    THEN remove(parent_node_of(dir, p), p.comps) ELSE tree

-----------------------------------------------------------------------------
(* HardlinkManager (path_link.rs).  Both maps are keyed by path.           *)
real_path(p) == IF p \in DOMAIN links THEN links[p] ELSE p
exists(p) == lookup(ROOT_DIR, p).err = "ok"
Bind(f, x, y) == [z \in DOMAIN f \cup {x} |-> IF z = x THEN y ELSE f[z]]
Unbind(f, x) == [z \in DOMAIN f \ {x} |-> f[z]]

(* decrease_ref_count: with the last link the file goes.                   *)
Decreased(rf, p) ==
  IF p \notin DOMAIN rf THEN rf
  ELSE IF rf[p] = 1 THEN Unbind(rf, p) ELSE [rf EXCEPT ![p] = @ - 1]
LastLink(rf, p) == p \in DOMAIN rf /\ rf[p] = 1
AfterDecrease(p) == IF LastLink(refs, p) THEN remove_file(ROOT_DIR, p) ELSE tree

atomic_link_update(src, dst) ==
  IF src \in DOMAIN links /\ links[src] = dst THEN UNCHANGED <<links, refs, tree>>
  ELSE LET old == src \in DOMAIN links
           rf == IF old THEN Decreased(refs, links[src]) ELSE refs
       IN  /\ links' = Bind(links, src, dst)
           /\ refs' = Bind(rf, dst, IF dst \in DOMAIN rf THEN rf[dst] + 1 ELSE 1)
           /\ tree' = IF old THEN AfterDecrease(links[src]) ELSE tree

(* remove_link: the link if there is one, the file otherwise.              *)
remove_link(p) ==
  IF p \in DOMAIN links
    THEN /\ links' = Unbind(links, p) /\ refs' = Decreased(refs, links[p])
         /\ tree' = AfterDecrease(links[p])
    ELSE tree' = remove_file(ROOT_DIR, p) /\ UNCHANGED <<links, refs>>

VfsInit ==
  /\ tree = init_rootfs
  /\ links = <<>> /\ refs = <<>>
=============================================================================
