------------------------------ MODULE MCFiles ------------------------------
(***************************************************************************)
(* FileSystem, with the descriptors of Files, for TLC; and, when programs  *)
(* make no call, the disk the file systems are on (Disk).                  *)
(***************************************************************************)
EXTENDS FileSystem, Disk

MCIoVecs == {<<<<0>>>>, <<<<1>>, <<0, 0>>>>}
MCFdSets == {{<<3, "IN">>, <<4, "OUT">>}, {<<0, "ERR">>, <<3, "IN">>}}
P(n) == Path(TRUE, <<n>>, FALSE)
D(n) == Path(TRUE, <<n>>, TRUE)
MCGlue == (<<"d", "f">> :> "df") @@ (<<"tmp", "f">> :> "tmpf") @@ (<<"f", "f">> :> "ff")
            @@ (<<"df", "f">> :> "dff")
MCInitTree == (<<"d">> :> DirEntry) @@ (<<"df">> :> Entry("file", 1, FALSE))
DF == Path(TRUE, <<"d", "f">>, FALSE)
F == Path(FALSE, <<"f">>, FALSE)
MCMounts == "tmp" :> "ram"
MCRenames == {<<P("d"), P("f")>>}
Up == Path(FALSE, <<"..">>, FALSE)
Calls(c) == Load(c, "fat", {}, {})
NoCalls == Calls({})
MCBuffers == {<<1>>, <<2, 1, 2>>, <<1, 2, 1, 2, 1>>}
MCWorkloads ==
  {NoCalls,
   Calls({"pipe", "read", "write", "fork", "close"}),
   Calls({"pipe", "dup", "dup2", "clone"}),
   Calls({"dup", "dup2", "close"}),
   Calls({"pipe", "read", "dup", "close", "clone"}),
   Calls({"pipe", "read", "close", "fork", "exit"}),
   Calls({"pipe", "select", "write", "fork", "close"}),
   Calls({"pipe", "epoll", "close", "clone"}),
   Calls({"read", "type", "clone", "select"}),
   Load({"open", "write", "close", "clone"}, "fat", {P("df")}, {{"R", "APPEND"}}),
   Load({"open", "write", "close", "unlinkat", "mkdir"}, "fat", {P("f")}, {{"W", "CREAT"}}),
   Load({"open", "write", "read", "seek", "close", "unlinkat"}, "ext4", {F},
        {{"R", "W", "CREAT"}, {"W", "TRUNC"}, {"R", "APPEND"}}),
   Load({"open", "close", "unlinkat", "clone"}, "fat", {D("d"), F},
        {{"R"}, {"R", "TRUNC"}, {"R", "W", "CREAT"}}),
   Load({"open", "close", "dup", "clone"}, "fat", {P("df")}, {{"W", "TRUNC"}}),
   Load({"open", "mkdir", "unlinkat"}, "ext4", {DF, D("d"), F}, {{"R", "DIR"}, {"W", "CREAT"}}),
   Load({"chdir", "mkdir", "unlinkat", "clone", "fork"}, "fat", {D("d"), F, Up}, {}),
   Load({"chdir", "mkdir", "rename", "clone"}, "fat", {D("d"), F, P("tmpf")}, {}),
   Load({"mkdir", "rename", "clone"}, "ext4", {P("f")}, {}),
   Load({"link", "unlinkat", "clone"}, "fat", {D("d"), P("df"), D("tmp")}, {}),
   Load({"mount", "clone"}, "fat", {D("d"), P("df")}, {}),
   Load({"open", "getdents", "unlink", "mkdir"}, "fat", {Root, P("f"), DF}, {{"R"}})}

MCInit == Init /\ disk_new
MCNext ==
  \/ load # NoCalls /\ Next /\ UNCHANGED diskVars
  \/ load = NoCalls /\ DiskNext /\ UNCHANGED allVars
MCSpec == MCInit /\ [][MCNext]_<<allVars, diskVars>> /\ Fairness

(* Names stay sound: an entry lies in a directory, the count of a link     *)
(* target is the number of its links, and the path of a working directory  *)
(* is absolute and normal, however the calls of several tasks interleave.  *)
NamesSound == TypeOK /\ TreeClosed /\ LinkCounts /\ CwdWellFormed
=============================================================================
