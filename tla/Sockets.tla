------------------------------ MODULE Sockets ------------------------------
(***************************************************************************)
(* The socket calls of the posix layer (arceos_posix_api, imp/net.rs) on   *)
(* the TCP and UDP sockets of axnet.                                       *)
(*                                                                         *)
(* A call looks up its descriptor, which keeps the socket object alive     *)
(* until it returns, locks the object's mutex and keeps it locked while it *)
(* waits for the network.  An object that no descriptor and no call refers *)
(* to is dropped by the task that let go of it.  A call whose arguments    *)
(* are refused (a bad descriptor, a null or malformed address) returns an  *)
(* error and changes nothing; such calls are not steps of the model.       *)
(***************************************************************************)
EXTENDS Udp

CONSTANTS NoSock,
          Workloads \* what programs do: records of the kinds of socket
                    \* they make, the calls they use, and how many sockets
                    \* the descriptor table has room for

VARIABLES kind,   \* kind[s]: "none" if there is no such object
          open,   \* the objects that have a descriptor
          owner,  \* owner[s]: the task that holds the object's mutex
          op, on, \* op[t], on[t]: the call task t makes and its object
          drops,  \* drops[t]: the objects t still has to drop
          load    \* the workload; it never changes

objVars == <<kind, open, owner, op, on, drops>>
vars == <<setVars, tcpVars, ucurr, objVars, load>>

Calls == {"bind", "connect", "listen", "accept", "send", "sendto", "recv",
          "shutdown", "poll", "nonblock", "dns", "none"}
PCs == {"idle", "lock", "poll", "try", "remove"}

(* The types of the variables.                                             *)
TypeOK ==
  /\ set \in [Handles -> [st : TcpStates \cup {"free", "udp", "dns", "dnsfail"},
                          port : Ports \cup {0}, rem : Remotes \cup {NoRemote},
                          rx : UNION {[1..n -> Remotes] : n \in 0..BufLen}, tx : 0..BufLen]]
  /\ pc \in [Tasks -> PCs]
  /\ state \in [Socks -> {"CLOSED", "CONNECTING", "CONNECTED", "LISTENING"}]
  /\ handle \in [Socks -> Handles \cup {NoHandle}]
  /\ local \in [Socks -> [addr : Addrs \cup {"eth0"}, port : Ports \cup {0}]]
  /\ peer \in [Socks -> Remotes \cup {NoRemote}]
  /\ nonblock \in [Socks -> BOOLEAN]
  /\ \A p \in Ports : \A i \in 1..Len(table[p].syn_queue) : table[p].syn_queue[i] \in Handles
  /\ curr \in Ephemeral /\ ucurr \in Ephemeral
  /\ lost \subseteq Handles /\ panicked \in BOOLEAN
  /\ kind \in [Socks -> {"tcp", "udp", "dns", "none"}] /\ open \subseteq Socks
  /\ owner \in [Socks -> Tasks \cup {NoTask}]
  /\ op \in [Tasks -> Calls] /\ on \in [Tasks -> Socks \cup {NoSock}]

Init ==
  /\ SetInit /\ TcpInit
  /\ ucurr = PORT_START
  /\ kind = [s \in Socks |-> "none"]
  /\ open = {}
  /\ owner = [s \in Socks |-> NoTask]
  /\ op = [t \in Tasks |-> "none"]
  /\ on = [t \in Tasks |-> NoSock]
  /\ drops = [t \in Tasks |-> <<>>]
  /\ load \in Workloads

Unused == {s \in Socks : kind[s] = "none"}
Unreferenced(s, t) == s \notin open /\ \A u \in Tasks \ {t} : on[u] # s

-----------------------------------------------------------------------------
(* After a step of t's call c on object s: while the call goes on it holds *)
(* the mutex and a reference to s.  When it is over it lets go of both,    *)
(* and has to drop s if that was the last reference.                       *)
Settle(t, s, c) ==
  LET over == pc'[t] = "idle"
  IN  /\ owner' = [owner EXCEPT ![s] = IF over THEN NoTask ELSE t]
      /\ on' = [on EXCEPT ![t] = IF over THEN NoSock ELSE s]
      /\ op' = [op EXCEPT ![t] = IF over THEN "none" ELSE c]
      /\ drops' = IF over /\ Unreferenced(s, t)
                  THEN [drops EXCEPT ![t] = Append(@, s)] ELSE drops

(* A task makes its next call when it has nothing left to drop.            *)
Idle(t) == pc[t] = "idle" /\ drops[t] = <<>>

(* A new object gets a descriptor if there is one.                         *)
HasFd == Cardinality(open) < load.fds

(* sys_socket.                                                             *)
sys_socket(t) ==
  /\ Idle(t)
  /\ HasFd
  /\ \E s \in Unused, k \in load.kinds :
       /\ kind' = [kind EXCEPT ![s] = k]
       /\ open' = open \cup {s}
       /\ IF k = "udp" THEN NewUdp(s) ELSE UNCHANGED <<setVars, tcpVars, ucurr>>
  /\ UNCHANGED <<owner, op, on, drops>>

(* sys_close: the descriptor goes; an object nobody uses is dropped.       *)
sys_close(t) ==
  /\ Idle(t)
  /\ \E s \in open :
       /\ open' = open \ {s}
       /\ drops' = IF \A u \in Tasks : on[u] # s THEN [drops EXCEPT ![t] = <<s>>] ELSE drops
  /\ UNCHANGED <<setVars, tcpVars, ucurr, kind, owner, op, on>>

(* Socket::from_fd, and the mutex is taken by another call: wait for it.   *)
Contend(t) ==
  /\ Idle(t)
  /\ \E s \in open, c \in load.ops \ {"dns"} :
       /\ owner[s] # NoTask
       /\ on' = [on EXCEPT ![t] = s]
       /\ op' = [op EXCEPT ![t] = c]
  /\ Goto(t, "lock")
  /\ UNCHANGED <<set, tcpVars, ucurr, kind, open, owner, drops>>

(* sys_getaddrinfo with a name that is not an address asks the resolver.   *)
sys_getaddrinfo(t) ==
  /\ "dns" \in load.ops
  /\ Idle(t)
  /\ \E s \in Unused :
       /\ kind' = [kind EXCEPT ![s] = "dns"]
       /\ DnsStart(t, s)
       /\ Settle(t, s, "dns")
  /\ UNCHANGED open

(* t's call c on object s gets the mutex, at once or after a wait.         *)
Locks(t, c, s) ==
  /\ c \in load.ops
  /\ \/ Idle(t) /\ s \in open
     \/ pc[t] = "lock" /\ op[t] = c /\ on[t] = s
  /\ owner[s] = NoTask
  /\ UNCHANGED <<kind, open>>

Is(s, k) == kind[s] = k

(* EOPNOTSUPP, EISCONN, or a call that only reads.                         *)
Refuse(t) == Goto(t, "idle") /\ UNCHANGED <<set, tcpVars, ucurr>>

(* sys_bind, with from_sockaddr's address.                                 *)
sys_bind(t, s) ==
  /\ Locks(t, "bind", s)
  /\ \E a \in Addrs, p \in BoundPorts \cup {0} :
       \/ Is(s, "tcp") /\ Bind(t, s, a, p) /\ UNCHANGED ucurr
       \/ Is(s, "udp") /\ UdpBind(t, s, a, p)
  /\ Settle(t, s, "bind")

(* sys_connect.  The remote endpoint may be one nobody can connect to.     *)
sys_connect(t, s) ==
  /\ Locks(t, "connect", s)
  /\ \E r \in Remotes \cup {NoRemote} :
       \/ Is(s, "tcp") /\ ConnectStart(t, s, r) /\ UNCHANGED ucurr
       \/ Is(s, "tcp") /\ ConnectFail(t, s, r) /\ UNCHANGED ucurr
       \/ Is(s, "tcp") /\ ConnectBusy(t, s) /\ UNCHANGED ucurr
       \/ Is(s, "udp") /\ r \in Remotes /\ UdpConnect(t, s, r)
  /\ Settle(t, s, "connect")

sys_listen(t, s) ==
  /\ Locks(t, "listen", s)
  /\ \/ Is(s, "tcp") /\ Listen(t, s) /\ UNCHANGED ucurr
     \/ Is(s, "udp") /\ Refuse(t)
  /\ Settle(t, s, "listen")

(* sys_accept up to the loop.                                              *)
sys_accept(t, s) ==
  /\ Locks(t, "accept", s)
  /\ \/ Is(s, "tcp") /\ AcceptStart(t, s) /\ UNCHANGED ucurr
     \/ Is(s, "udp") /\ Refuse(t)
  /\ Settle(t, s, "accept")

(* sys_send up to the loop.                                                *)
sys_send(t, s) ==
  /\ Locks(t, "send", s)
  /\ \/ Is(s, "tcp") /\ StreamStart(t, s) /\ UNCHANGED ucurr
     \/ Is(s, "udp") /\ UdpStart(t, s, peer[s] # NoRemote)
  /\ Settle(t, s, "send")

(* sys_sendto: TCP answers EISCONN.                                        *)
sys_sendto(t, s) ==
  /\ Locks(t, "sendto", s)
  /\ \/ Is(s, "tcp") /\ Refuse(t)
     \/ Is(s, "udp") /\ UdpStart(t, s, TRUE)
  /\ Settle(t, s, "sendto")

(* sys_recv and sys_recvfrom up to the loop.                               *)
sys_recv(t, s) ==
  /\ Locks(t, "recv", s)
  /\ \/ Is(s, "tcp") /\ StreamStart(t, s) /\ UNCHANGED ucurr
     \/ Is(s, "udp") /\ UdpStart(t, s, TRUE)
  /\ Settle(t, s, "recv")

(* sys_shutdown: peer_addr() must succeed first.                           *)
sys_shutdown(t, s) ==
  /\ Locks(t, "shutdown", s)
  /\ \/ Is(s, "tcp") /\ Shutdown(t, s) /\ UNCHANGED ucurr
     \/ Is(s, "udp") /\ peer[s] # NoRemote /\ UdpShutdown(t, s)
     \/ /\ IF Is(s, "tcp") THEN state[s] \in {"CLOSED", "CONNECTING"}
           ELSE peer[s] = NoRemote
        /\ Refuse(t)
  /\ Settle(t, s, "shutdown")

(* Socket::poll, for select, poll and epoll.                               *)
SocketPoll(t, s) ==
  /\ Locks(t, "poll", s)
  /\ \/ Is(s, "tcp") /\ Poll(t, s) /\ UNCHANGED ucurr
     \/ Is(s, "udp") /\ Refuse(t)
  /\ Settle(t, s, "poll")

(* fcntl(F_SETFL).                                                         *)
set_nonblocking(t, s) ==
  /\ Locks(t, "nonblock", s)
  /\ \E b \in BOOLEAN : SetNonblocking(t, s, b)
  /\ UNCHANGED ucurr
  /\ Settle(t, s, "nonblock")

-----------------------------------------------------------------------------
(* One turn of a waiting call.                                             *)
Try(t) ==
  /\ pc[t] = "try"
  /\ LET s == on[t]
     IN  \/ op[t] = "connect" /\ TryConnect(t, s) /\ UNCHANGED ucurr
         \/ op[t] = "accept" /\ TryAcceptNone(t, s) /\ UNCHANGED ucurr
         \/ op[t] = "recv" /\ Is(s, "tcp") /\ TryRecv(t, s) /\ UNCHANGED ucurr
         \/ op[t] = "recv" /\ Is(s, "udp") /\ UdpTryRecv(t, s)
         \/ op[t] = "send" /\ Is(s, "tcp") /\ TrySend(t, s) /\ UNCHANGED ucurr
         \/ op[t] \in {"send", "sendto"} /\ Is(s, "udp") /\ UdpTrySend(t, s)
         \/ op[t] = "dns" /\ DnsTry(t, s)
  /\ Settle(t, on[t], op[t])
  /\ UNCHANGED <<kind, open>>

(* accept() succeeds.  Without a descriptor the new socket is dropped, as  *)
(* is the listener if it was closed meanwhile.                             *)
Accepted(t) ==
  /\ pc[t] = "try" /\ op[t] = "accept"
  /\ \E n \in Unused :
       /\ TryAccept(t, on[t], n)
       /\ Goto(t, "idle")
       /\ kind' = IF panicked' THEN kind ELSE [kind EXCEPT ![n] = "tcp"]
       /\ open' = IF HasFd /\ ~panicked' THEN open \cup {n} ELSE open
       /\ drops' = [drops EXCEPT ![t] = (IF HasFd THEN <<>> ELSE <<n>>)
                      \o (IF Unreferenced(on[t], t) THEN <<on[t]>> ELSE <<>>)]
  /\ owner' = [owner EXCEPT ![on[t]] = NoTask]
  /\ on' = [on EXCEPT ![t] = NoSock]
  /\ op' = [op EXCEPT ![t] = "none"]
  /\ UNCHANGED ucurr

(* Drop of TcpSocket, UdpSocket and DnsSocket: shut down, poll, and        *)
(* remove the handle.                                                      *)
Drop(t) ==
  /\ pc[t] = "idle" /\ drops[t] # <<>>
  /\ LET s == Head(drops[t])
     IN  \/ kind[s] = "tcp" /\ Shutdown(t, s) /\ UNCHANGED ucurr
         \/ kind[s] = "udp" /\ UdpShutdown(t, s)
         \/ /\ kind[s] = "tcp" => state[s] \in {"CLOSED", "CONNECTING"}
            /\ kind[s] \in {"tcp", "dns"}
            /\ Goto(t, "remove")
            /\ UNCHANGED <<set, tcpVars, ucurr>>
  /\ UNCHANGED objVars

DropRemove(t) ==
  /\ pc[t] = "remove"
  /\ LET s == Head(drops[t])
     IN  /\ Remove(s)
         /\ kind' = [kind EXCEPT ![s] = "none"]
  /\ drops' = [drops EXCEPT ![t] = Tail(@)]
  /\ Goto(t, "idle")
  /\ UNCHANGED <<ucurr, open, owner, op, on>>

(* What the network does while some task polls.                            *)
Network ==
  /\ \/ (Segment \/ Datagram \/ Transmit) /\ UNCHANGED <<tcpVars, ucurr>>
     \/ Syn /\ UNCHANGED ucurr
     \/ DnsAnswer
  /\ UNCHANGED objVars

SysCall(t) == sys_socket(t) \/ sys_close(t) \/ Contend(t) \/ sys_getaddrinfo(t)

Body(t) ==
  \E s \in Socks :
    \/ sys_bind(t, s) \/ sys_connect(t, s) \/ sys_listen(t, s) \/ sys_accept(t, s)
    \/ sys_send(t, s) \/ sys_sendto(t, s) \/ sys_recv(t, s) \/ sys_shutdown(t, s)
    \/ SocketPoll(t, s) \/ set_nonblocking(t, s)

Finish(t) == Try(t) \/ Accepted(t) \/ Drop(t) \/ DropRemove(t)

(* poll_interfaces returns: into drop(), into shutdown(), which is over    *)
(* then, or into the loop of a waiting call.                               *)
Polled(t) ==
  /\ \/ on[t] = NoSock /\ PollEnd(t, "remove") /\ UNCHANGED <<owner, on, op, drops>>
     \/ on[t] # NoSock /\ PollEnd(t, IF op[t] = "shutdown" THEN "idle" ELSE "try")
        /\ Settle(t, on[t], op[t])
  /\ UNCHANGED <<tcpVars, ucurr, kind, open>>

Next ==
  /\ ~panicked
  /\ \/ Network
     \/ \E t \in Tasks : SysCall(t) \/ Body(t) \/ Finish(t) \/ Polled(t)
  /\ UNCHANGED load

Spec == Init /\ [][Next]_vars

(* A task that can go on does.                                             *)
Fairness == \A t \in Tasks : WF_vars(~panicked /\ (Polled(t) \/ Finish(t)) /\ UNCHANGED load)

FairSpec == Spec /\ Fairness

-----------------------------------------------------------------------------
Owners(h) == {s \in Socks : kind[s] # "none" /\ handle[s] = h}
Queued(h) == {<<p, i>> \in Ports \X (1..LISTEN_QUEUE_SIZE) :
                i <= Len(table[p].syn_queue) /\ table[p].syn_queue[i] = h}

(* Every socket in the set belongs to exactly one object or one place in a *)
(* listening queue, or was left behind by a connect() that failed; and no  *)
(* object or queue refers to a slot that is free.  This is what the        *)
(* unwrap()s and SOCKET_SET.remove rely on across accept, close, shutdown  *)
(* and drop.                                                               *)
HandlesOwned ==
  \A h \in Handles :
    Cardinality(Owners(h)) + Cardinality(Queued(h)) + (IF h \in lost THEN 1 ELSE 0)
      = IF set[h].st = "free" THEN 0 ELSE 1

(* LISTEN_TABLE has an entry for a port exactly while one socket listens   *)
(* on it, so that accept() finds its entry and shutdown() removes its own. *)
ListenersMatch ==
  \A p \in Ports :
    Cardinality({s \in Socks : state[s] = "LISTENING" /\ local[s].port = p})
      = IF table[p] = NoEntry THEN 0 ELSE 1

(* A connecting or connected object is backed by a connection that was     *)
(* opened for it: never by a listening or half-open one.                   *)
StreamsBacked ==
  \A s \in Socks :
    state[s] \in {"CONNECTING", "CONNECTED"} =>
      /\ handle[s] # NoHandle
      /\ set[handle[s]].st \in TcpStates \ {"Listen", "SynReceived"}
      /\ set[handle[s]].rem \in {peer[s], NoRemote}

(* A listening object owns the entry of its port and a stream owns its     *)
(* connection, whatever accept, shutdown and resets do at the same time.   *)
SocketsBacked == TypeOK /\ ListenersMatch /\ StreamsBacked

Waiting(t, c) == pc[t] \in {"poll", "try"} /\ op[t] = c

(* A call that waits returns once there is something for it: accept() when *)
(* a connection is ready (and the model has an object left for it), recv() *)
(* when there is data or the stream has ended.                             *)
Served ==
  \A t \in Tasks :
    (\/ Waiting(t, "accept") /\ poll_listener(on[t])
     \/ Waiting(t, "recv") /\ Is(on[t], "tcp") /\ poll_stream(set[handle[on[t]]]).readable)
      ~> (on[t] = NoSock \/ (op[t] = "accept" /\ Unused = {}) \/ panicked)

(* The documentation of UdpSocket::connect says that it "applies filters   *)
(* to only receive data from the specified address".                       *)
ConnectedFilter ==
  [][\A t \in Tasks :
       LET s == on[t]
       IN  (pc[t] = "try" /\ pc'[t] = "idle" /\ op[t] = "recv" /\ Is(s, "udp")
              /\ peer[s] # NoRemote /\ set[handle[s]].rx # <<>>)
           => Head(set[handle[s]].rx) = peer[s]]_vars
=============================================================================
