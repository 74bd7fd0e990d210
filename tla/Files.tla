------------------------------- MODULE Files -------------------------------
(***************************************************************************)
(* Descriptors and what they stand for (arceos_posix_api: fd_ops.rs, io.rs,*)
(* pipe.rs, stdio.rs, io_mpx/): tables of descriptors that threads share   *)
(* and fork copies, pipes, the console, select and epoll.                  *)
(*                                                                         *)
(* An object lives as long as a table or a call refers to it.  The model   *)
(* has one pipe with its ends "R" and "W" and one epoll instance "E" at a  *)
(* time; a new one is made when the old one is gone.                       *)
(***************************************************************************)
EXTENDS RingBuffer, SequencesExt

CONSTANTS Tasks, First,    \* First is the task that exists at the start
          Tables,          \* descriptor tables
          AX_FILE_LIMIT,
          Counts, IoVecs,  \* bytes asked for by read; lists of bytes to write
          FdSets,          \* what select asks for: sets of <<fd, event>>
          Watched,         \* descriptors epoll_ctl is used on
          FileObjs,        \* open files and directories of a file system
          Workloads        \* what programs do: see Load

ASSUME FilesAssumption ==
  /\ First \in Tasks /\ 1 \in Tables /\ 0 \notin Tables
  /\ AX_FILE_LIMIT \in Nat /\ AX_FILE_LIMIT > 2
  /\ Counts \subseteq Nat /\ IoVecs \subseteq Seq(Seq(Bytes))
  /\ FileObjs \cap {"stdin", "stdout", "R", "W", "E", "none"} = {}

Fds == 0..AX_FILE_LIMIT - 1
Objects == {"stdin", "stdout", "R", "W", "E"} \cup FileObjs
NoObj == "none"
Events == {"IN", "OUT", "ERR"}
NoTable == 0

VARIABLES table,     \* table[k][fd]
          proc,      \* proc[t]: the table of t's process
          pc, cur,   \* the call t makes, its object and its arguments
          ring, got, \* the pipe's buffer; what the last read returned
          console, inbuf,  \* bytes typed; bytes in stdin's BufReader
          interest,  \* interest[fd]: the events of the epoll instance
          panicked,  \* an index was out of bounds: the kernel has stopped
          load       \* the workload of this run; never changes

vars == <<table, proc, pc, cur, ring, got, console, inbuf, interest, panicked, load>>

(* A workload: the calls that programs make, the main file system, and the *)
(* path names and the flags of open that are used.                         *)
Load(calls, fs, paths, flags) ==
  [calls |-> calls, fs |-> fs, paths |-> paths, flags |-> flags]

Call(o) == [obj |-> o, fd |-> 0, n |-> 0, left |-> <<>>, iov |-> <<>>,
            rest |-> {}, asked |-> {}, found |-> 0, timed |-> FALSE]
NoCall == Call(NoObj)
NoneIn == [fd \in Fds |-> {}]

(* What a read of the pipe returns.                                        *)
Result(s, e) == [bytes |-> s, eof |-> e]

(* init_stdio, and the copy run_user_app makes for the program.            *)
init_stdio == [fd \in Fds |-> CASE fd = 0 -> "stdin" [] fd \in {1, 2} -> "stdout"
                                [] OTHER -> NoObj]

FilesInit ==
  /\ table = [k \in Tables |-> IF k = 1 THEN init_stdio ELSE [fd \in Fds |-> NoObj]]
  /\ proc = [t \in Tasks |-> IF t = First THEN 1 ELSE NoTable]
  /\ pc = [t \in Tasks |-> IF t = First THEN "idle" ELSE "unborn"]
  /\ cur = [t \in Tasks |-> NoCall]
  /\ ring = ring_new /\ got = Result(<<>>, FALSE)
  /\ console = <<>> /\ inbuf = <<>>
  /\ interest = NoneIn
  /\ panicked = FALSE
  /\ load \in Workloads

(* Some table or some call refers to object o.  Tables of processes that   *)
(* have ended count: dropping an AxNamespace frees its memory without      *)
(* dropping the tables it refers to.                                       *)
Referenced(o, tbl, c) == \/ \E k \in Tables, fd \in Fds : tbl[k][fd] = o
                         \/ \E t \in Tasks : c[t].obj = o
Alive(o) == Referenced(o, table, cur)

(* Arc::strong_count(&self.buffer) == 1.                                   *)
write_end_close == ~Alive("W")

OfTask(t, fd) == table[proc[t]][fd]
FreeFds(tab) == {fd \in Fds : tab[fd] = NoObj}
Starts(t, op) == pc[t] = "idle" /\ op \in load.calls
Goto(t, l) == pc' = [pc EXCEPT ![t] = l]
Do(t, l, c) == Goto(t, l) /\ cur' = [cur EXCEPT ![t] = c]

(* The call returns and lets go of its object.                             *)
Return(t) == Do(t, "idle", NoCall)

-----------------------------------------------------------------------------
(* FlattenObjects::add takes the lowest free id.                           *)
add(tab, o) == [tab EXCEPT ![Min(FreeFds(tab))] = o]
SetTable(t, tab) == table' = [table EXCEPT ![proc[t]] = tab]
data == <<ring, got, console, inbuf, interest, panicked, load>>

(* sys_pipe: the read end, then the write end.  Without a descriptor for   *)
(* the write end the read end is closed again.                             *)
sys_pipe(t) ==
  /\ Starts(t, "pipe") /\ ~Alive("R") /\ ~Alive("W")
  /\ LET tab == table[proc[t]]
     IN  IF Cardinality(FreeFds(tab)) >= 2
           THEN /\ SetTable(t, add(add(tab, "R"), "W"))
                /\ ring' = ring_new /\ got' = Result(<<>>, FALSE)
           ELSE UNCHANGED <<table, ring, got>>
  /\ UNCHANGED <<proc, pc, cur, console, inbuf, interest, panicked, load>>

(* sys_close: the standard descriptors stay open.                          *)
sys_close(t) ==
  /\ Starts(t, "close")
  /\ \E fd \in Fds :
       table' = IF fd \in 0..2 THEN table ELSE [table EXCEPT ![proc[t]][fd] = NoObj]
  /\ UNCHANGED <<proc, pc, cur, data>>

(* get_file_like of dup_fd (sys_dup, F_DUPFD, F_DUPFD_CLOEXEC) and of      *)
(* sys_dup2, which refuses a number that is too large and has nothing to   *)
(* do when both are the same.  From here on the call refers to the object. *)
DupGet(t) ==
  /\ pc[t] = "idle"
  /\ \E fd \in Fds :
       /\ OfTask(t, fd) # NoObj
       /\ \/ Starts(t, "dup") /\ Do(t, "dup", Call(OfTask(t, fd)))
          \/ /\ Starts(t, "dup2")
             /\ \E new \in Fds \ {fd} : Do(t, "dup2", [Call(OfTask(t, fd)) EXCEPT !.fd = new])
  /\ UNCHANGED <<table, proc, data>>

(* add_file_like; EMFILE if there is no room.                              *)
dup_fd(t) ==
  /\ pc[t] = "dup"
  /\ LET tab == table[proc[t]]
     IN  IF FreeFds(tab) # {} THEN SetTable(t, add(tab, cur[t].obj)) ELSE UNCHANGED table
  /\ Return(t)
  /\ UNCHANGED <<proc, data>>

(* Faulty variant: dup2 replaces what is there.                            *)
sys_dup2Replaces(t) ==
  /\ pc[t] = "dup2"
  /\ table' = [table EXCEPT ![proc[t]][cur[t].fd] = cur[t].obj]
  /\ Return(t)
  /\ UNCHANGED <<proc, data>>

(* FD_TABLE.add_at; EMFILE if the number is taken.                         *)
sys_dup2(t) ==
  /\ pc[t] = "dup2"
  /\ IF OfTask(t, cur[t].fd) = NoObj
       THEN table' = [table EXCEPT ![proc[t]][cur[t].fd] = cur[t].obj]
       ELSE UNCHANGED table
  /\ Return(t)
  /\ UNCHANGED <<proc, data>>

(* sys_clone: a new thread uses its process's table, a new process shares  *)
(* it (CLONE_FILES, init_shared) or gets a copy (copy_inner, init_new).    *)
sys_clone(t) ==
  /\ pc[t] = "idle"
  /\ \E u \in {u \in Tasks : pc[u] = "unborn"} :
       /\ Goto(u, "idle")
       /\ \/ Starts(t, "clone") /\ proc' = [proc EXCEPT ![u] = proc[t]] /\ UNCHANGED table
          \/ \E k \in Tables :
               /\ Starts(t, "fork") /\ \A v \in Tasks : proc[v] # k
               /\ proc' = [proc EXCEPT ![u] = k]
               /\ table' = [table EXCEPT ![k] = table[proc[t]]]
  /\ UNCHANGED <<cur, data>>

(* The thread ends.  No table is dropped, not even with the last thread.   *)
exit(t) ==
  /\ Starts(t, "exit") /\ t # First
  /\ Goto(t, "exited")
  /\ UNCHANGED <<table, proc, cur, data>>

-----------------------------------------------------------------------------
(* sys_read: the read end, stdin and files can be read.                    *)
sys_read(t) ==
  /\ Starts(t, "read")
  /\ \E fd \in Fds, n \in Counts :
       /\ OfTask(t, fd) \in {"R", "stdin"} \cup FileObjs
       /\ Do(t, "read", [Call(OfTask(t, fd)) EXCEPT !.n = n])
  /\ UNCHANGED <<table, proc, data>>

(* n times read_byte: the buffer after it and the bytes.                   *)
ReadBytes(r, n) ==
  LET f == ReadLoop(r, n)
  IN  [ring |-> f[n], out |-> [i \in 1..n |-> f[i - 1].arr[f[i - 1].head]]]

(* Faulty variant: a read that finds nothing always waits.                 *)
PipeReadForgetsEof(t) ==
  /\ pc[t] = "read" /\ cur[t].obj = "R"
  /\ available_read(ring) > 0
  /\ LET res == ReadBytes(ring, Min({cur[t].n, available_read(ring)}))
     IN  ring' = res.ring /\ got' = Result(res.out, FALSE)
  /\ Return(t)
  /\ UNCHANGED <<table, proc, console, inbuf, interest, panicked, load>>

(* One turn of Pipe::read: what there is; end of file if there is nothing  *)
(* and the write end is gone; otherwise yield.                             *)
PipeRead(t) ==
  /\ pc[t] = "read" /\ cur[t].obj = "R"
  /\ \/ /\ available_read(ring) > 0
        /\ LET res == ReadBytes(ring, Min({cur[t].n, available_read(ring)}))
           IN  ring' = res.ring /\ got' = Result(res.out, FALSE)
     \/ /\ available_read(ring) = 0 /\ write_end_close
        /\ got' = Result(<<>>, TRUE) /\ UNCHANGED ring
  /\ Return(t)
  /\ UNCHANGED <<table, proc, console, inbuf, interest, panicked, load>>

(* A byte is typed.                                                        *)
Type ==
  /\ "type" \in load.calls /\ Len(console) = 0
  /\ \E b \in {"\r", "x"} : console' = <<b>>
  /\ UNCHANGED <<table, proc, pc, cur, ring, got, inbuf, interest, panicked, load>>

(* console_read_bytes.                                                     *)
Line(s) == [i \in 1..Len(s) |-> IF s[i] = "\r" THEN "\n" ELSE s[i]]

(* One turn of read_blocked that gets something, or has nothing to get:    *)
(* an empty BufReader is filled from the console first.                    *)
StdinRead(t) ==
  /\ pc[t] = "read" /\ cur[t].obj = "stdin"
  /\ LET buf == IF inbuf = <<>> THEN Line(console) ELSE inbuf
         n == Min({cur[t].n, Len(buf)})
     IN  /\ n > 0 \/ cur[t].n = 0
         /\ console' = IF inbuf = <<>> THEN <<>> ELSE console
         /\ inbuf' = SubSeq(buf, n + 1, Len(buf))
  /\ Return(t)
  /\ UNCHANGED <<table, proc, ring, got, interest, panicked, load>>

(* sys_write and sys_writev.  Elements with a null base are skipped.       *)
sys_writev(t) ==
  /\ Starts(t, "write")
  /\ \E fd \in Fds, iov \in IoVecs :
       /\ OfTask(t, fd) \in {"W", "stdout"} \cup FileObjs
       /\ Do(t, "writev", [NoCall EXCEPT !.fd = fd, !.iov = iov])
  /\ UNCHANGED <<table, proc, data>>

(* write_impl of the next element looks the descriptor up again; the write *)
(* end, stdout and files (FileSystem) can be written.                      *)
write_impl(t) ==
  /\ pc[t] = "writev"
  /\ cur[t].iov # <<>> => OfTask(t, cur[t].fd) \notin FileObjs
  /\ LET c == cur[t]
         o == OfTask(t, c.fd)
     IN  CASE c.iov = <<>> \/ o \notin {"W", "stdout"} -> Return(t)
           [] c.iov # <<>> /\ o = "stdout" -> Do(t, "writev", [c EXCEPT !.iov = Tail(@)])
           [] c.iov # <<>> /\ o = "W" ->
                Do(t, "write", [c EXCEPT !.obj = "W", !.left = Head(c.iov), !.iov = Tail(@)])
  /\ UNCHANGED <<table, proc, data>>

(* One turn of Pipe::write.  It returns when it finds room and has nothing *)
(* left: after a write that just fills the buffer it waits for a reader.   *)
PipeWrite(t) ==
  /\ pc[t] = "write"
  /\ LET c == cur[t]
         room == available_write(ring)
         n == Min({room, Len(c.left)})
     IN  /\ room > 0
         /\ ring' = WriteLoop(ring, SubSeq(c.left, 1, n))[n]
         /\ IF n < room THEN Do(t, "writev", [c EXCEPT !.obj = NoObj, !.left = <<>>])
            ELSE Do(t, "write", [c EXCEPT !.left = SubSeq(@, n + 1, Len(@))])
  /\ UNCHANGED <<table, proc, got, console, inbuf, interest, panicked, load>>

-----------------------------------------------------------------------------
(* FileLike::poll.  An epoll instance answers ENOSYS.                      *)
poll(o) ==
  CASE o \in {"stdin", "stdout"} -> {"IN", "OUT"}
    [] o = "R" -> IF available_read(ring) > 0 THEN {"IN"} ELSE {}
    [] o = "W" -> IF available_write(ring) > 0 THEN {"OUT"} ELSE {}
    [] o = "E" -> {"ERR"}
    [] o \in FileObjs -> {"IN", "OUT"}

Asked(fds, ask) == {fd \in fds : \E e \in Events : <<fd, e>> \in ask}

(* FdSets::from and the first turn of sys_select.  The sets of the caller  *)
(* are copied here; zero_fd_set and set_fd_set write to a temporary copy   *)
(* and leave the caller's sets as they are.                                *)
sys_select(t) ==
  /\ Starts(t, "select")
  /\ \E ask \in FdSets, b \in BOOLEAN :
       Do(t, "scan", [NoCall EXCEPT !.asked = ask, !.rest = Asked(Fds, ask), !.timed = b])
  /\ UNCHANGED <<table, proc, data>>

(* The map of the epoll instance is not locked by a task in poll_all.      *)
EventsUnlocked == \A u \in Tasks : ~(pc[u] = "scan" /\ cur[u].obj = "E")
Registered == {x \in Fds \X Events : x[2] \in interest[x[1]]}

sys_epoll_create(t) ==
  /\ Starts(t, "epoll") /\ ~Alive("E")
  /\ IF FreeFds(table[proc[t]]) # {}
       THEN SetTable(t, add(table[proc[t]], "E")) /\ interest' = NoneIn
       ELSE UNCHANGED <<table, interest>>
  /\ UNCHANGED <<proc, pc, cur, ring, got, console, inbuf, panicked, load>>

(* sys_epoll_ctl: ADD of a descriptor that is not in the map, MOD and DEL  *)
(* of one that is.  The map is keyed by the descriptor's number.           *)
sys_epoll_ctl(t) ==
  /\ Starts(t, "epoll") /\ EventsUnlocked
  /\ \E epfd \in Fds, fd \in Watched, ev \in {{"IN"}, {"IN", "OUT"}} :
       /\ OfTask(t, epfd) = "E" /\ OfTask(t, fd) # NoObj
       /\ \/ interest[fd] = {} /\ interest' = [interest EXCEPT ![fd] = ev]
          \/ interest[fd] # {} /\ interest' = [interest EXCEPT ![fd] = ev]
          \/ interest[fd] # {} /\ interest' = [interest EXCEPT ![fd] = {}]
  /\ UNCHANGED <<table, proc, pc, cur, ring, got, console, inbuf, panicked, load>>

(* sys_epoll_wait up to the loop; n is maxevents.                          *)
sys_epoll_wait(t) ==
  /\ Starts(t, "epoll")
  /\ \E fd \in Fds, n \in 1..2, b \in BOOLEAN :
       /\ OfTask(t, fd) = "E"
       /\ Do(t, "poll", [Call("E") EXCEPT !.n = n, !.timed = b])
  /\ UNCHANGED <<table, proc, data>>

(* poll_all begins: select goes through its copy of the sets, epoll locks  *)
(* the map.                                                                *)
PollStart(t) ==
  /\ pc[t] \in {"poll", "yield"}
  /\ LET c == cur[t]
         ask == IF c.obj = "E" THEN Registered ELSE c.asked
     IN  /\ c.obj = "E" => EventsUnlocked
         /\ IF ask = {} THEN Do(t, "yield", c)
            ELSE Do(t, "scan", [c EXCEPT !.asked = ask, !.rest = Asked(Fds, ask), !.found = 0])
  /\ UNCHANGED <<table, proc, data>>

(* poll_all looks at one descriptor.  One that was closed ends the call    *)
(* with EBADF.  Reported events are counted; epoll writes them to a slice  *)
(* of n places.  After the last descriptor the call returns if there was   *)
(* an event, and yields otherwise.                                         *)
PollOne(t) ==
  /\ pc[t] = "scan"
  /\ LET c == cur[t]
         fd == Min(c.rest)
         o == OfTask(t, fd)
         found == c.found + Cardinality({e \in poll(o) : <<fd, e>> \in c.asked})
     IN  IF o = NoObj THEN Return(t) /\ UNCHANGED panicked
         ELSE /\ panicked' = (c.obj = "E" /\ found > c.n)
              /\ IF c.rest # {fd} THEN Do(t, "scan", [c EXCEPT !.found = found, !.rest = @ \ {fd}])
                 ELSE IF found > 0 THEN Return(t)
                 ELSE Do(t, "yield", [c EXCEPT !.rest = {}, !.found = 0])
  /\ UNCHANGED <<table, proc, ring, got, console, inbuf, interest, load>>

(* The deadline has passed.                                                *)
Timeout(t) ==
  /\ pc[t] = "yield" /\ cur[t].timed
  /\ Return(t)
  /\ UNCHANGED <<table, proc, data>>

-----------------------------------------------------------------------------
Begin(t) ==
  \/ sys_pipe(t) \/ sys_close(t) \/ DupGet(t) \/ exit(t)
  \/ sys_read(t) \/ sys_writev(t) \/ sys_select(t)
  \/ sys_epoll_create(t) \/ sys_epoll_ctl(t) \/ sys_epoll_wait(t)

Step(t) ==
  \/ dup_fd(t) \/ sys_dup2(t)
  \/ PipeRead(t) \/ StdinRead(t) \/ write_impl(t) \/ PipeWrite(t)
  \/ PollStart(t) \/ PollOne(t)

-----------------------------------------------------------------------------
Q == INSTANCE ByteQueue WITH q <- Contents(ring), closed <- write_end_close,
                             Capacity <- RING_BUFFER_SIZE

(* The ring buffer with its readers, writers and descriptors implements a  *)
(* queue of bytes: whatever the order of reads, writes and closes in       *)
(* several threads and processes, bytes keep their order, and a read ends  *)
(* with end of file only when nobody can write any more.                   *)
PipeSpec == Q!Spec

(* An open descriptor keeps its object until it is closed: no dup, pipe or *)
(* fork that races for the same number replaces it.                        *)
NeverReplaced ==
  [][\A k \in Tables, fd \in Fds :
       table[k][fd] # NoObj => table'[k][fd] \in {table[k][fd], NoObj}]_vars

(* A read of a pipe returns once the write end is gone; a select or        *)
(* epoll_wait with a time limit returns.                                   *)
WaitsEnd ==
  \A t \in Tasks :
    (\/ pc[t] = "read" /\ cur[t].obj = "R" /\ write_end_close
     \/ cur[t].timed) ~> (pc[t] = "idle" \/ panicked)
=============================================================================
