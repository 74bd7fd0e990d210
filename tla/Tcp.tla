-------------------------------- MODULE Tcp --------------------------------
(***************************************************************************)
(* TCP sockets and the table of listening ports of axnet (smoltcp_impl/    *)
(* tcp.rs and listen_table.rs).                                            *)
(*                                                                         *)
(* The operations below are the bodies of the methods of TcpSocket, as     *)
(* steps of task t on socket s.  A body under update_state is one step:    *)
(* the posix layer calls every method with the socket's mutex held, so     *)
(* that nobody sees the state BUSY or the fields in between.               *)
(***************************************************************************)
EXTENDS SocketSet

CONSTANTS Socks,               \* the socket objects
          Addrs,               \* addresses programs bind to, "any" among them
          BoundPorts,          \* ports programs bind to explicitly
          PORT_START, PORT_END,
          LISTEN_QUEUE_SIZE

ASSUME PortAssumption == /\ PORT_START \in Nat \ {0}
                         /\ PORT_END \in Nat
                         /\ PORT_START <= PORT_END
                         /\ BoundPorts \subseteq Nat \ {0}
                         /\ LISTEN_QUEUE_SIZE \in Nat \ {0}
                         /\ "any" \in Addrs

Ephemeral == PORT_START..PORT_END
Ports == BoundPorts \cup Ephemeral
UNSPECIFIED_ENDPOINT == [addr |-> "any", port |-> 0]
NoEntry == [addr |-> "none", syn_queue |-> <<>>]

VARIABLES state,     \* state[s]: the atomic word of TcpSocket
          handle,    \* handle[s]
          local,     \* local[s]: local_addr
          peer,      \* peer[s]: the peer's endpoint
          nonblock,  \* nonblock[s]
          table,     \* table[p]: the entry of LISTEN_TABLE
          curr,      \* the cursor of get_ephemeral_port
          lost,      \* handles in the set that no object refers to any more
          panicked   \* an unwrap() failed: the kernel has stopped

sockVars == <<state, handle, local, peer, nonblock>>
portVars == <<table, curr>>
tcpVars == <<sockVars, portVars, lost, panicked>>

TcpInit ==
  /\ state = [s \in Socks |-> "CLOSED"]
  /\ handle = [s \in Socks |-> NoHandle]
  /\ local = [s \in Socks |-> UNSPECIFIED_ENDPOINT]
  /\ peer = [s \in Socks |-> NoRemote]
  /\ nonblock = [s \in Socks |-> FALSE]
  /\ table = [p \in Ports |-> NoEntry]
  /\ curr = PORT_START
  /\ lost = {}
  /\ panicked = FALSE

-----------------------------------------------------------------------------
(* get_ephemeral_port tries every port once, from the cursor on.           *)
Tried(i) == PORT_START + ((curr - PORT_START + i) % Cardinality(Ephemeral))
can_listen(p) == table[p] = NoEntry
Usable == {i \in 0..Cardinality(Ephemeral) - 1 : can_listen(Tried(i))}
get_ephemeral_port == Tried(Min(Usable))
CursorAfter == Tried(Min(Usable) + 1)

(* The port bound_endpoint finds: the bound one, else an ephemeral one.    *)
NeedsPort(s) == local[s].port = 0
bound_endpoint(s) == IF NeedsPort(s) THEN get_ephemeral_port ELSE local[s].port
HasEndpoint(s) == NeedsPort(s) => Usable # {}
TakeCursor(needed) == curr' = IF needed THEN CursorAfter ELSE curr

-----------------------------------------------------------------------------
(* bind(): an ephemeral port is drawn before the check for "already bound".*)
Bind(t, s, addr, port) ==
  /\ Goto(t, "idle")
  /\ IF state[s] = "CLOSED" /\ (port = 0 => Usable # {})
       THEN /\ TakeCursor(port = 0)
            /\ local' = IF local[s] # UNSPECIFIED_ENDPOINT THEN local
                        ELSE [local EXCEPT ![s] = [addr |-> addr,
                                port |-> IF port = 0 THEN get_ephemeral_port ELSE port]]
       ELSE UNCHANGED <<curr, local>>
  /\ UNCHANGED <<set, state, handle, peer, nonblock, table, lost, panicked>>

(* Faulty variant: listen() overwrites the entry of another listener.      *)
ListenOverwrites(t, s) ==
  LET p == bound_endpoint(s)
  IN  /\ Goto(t, "idle")
      /\ state[s] = "CLOSED" /\ HasEndpoint(s)
      /\ TakeCursor(NeedsPort(s))
      /\ local' = [local EXCEPT ![s].port = p]
      /\ table' = [table EXCEPT ![p] = [addr |-> local[s].addr, syn_queue |-> <<>>]]
      /\ state' = [state EXCEPT ![s] = "LISTENING"]
      /\ UNCHANGED <<set, handle, peer, nonblock, lost, panicked>>

(* listen(): the port is stored even when it turns out to be in use; in    *)
(* any state but CLOSED the call does nothing and succeeds.                *)
Listen(t, s) ==
  LET p == bound_endpoint(s)
  IN  /\ Goto(t, "idle")
      /\ IF state[s] = "CLOSED" /\ HasEndpoint(s)
           THEN /\ TakeCursor(NeedsPort(s))
                /\ local' = [local EXCEPT ![s].port = p]
                /\ IF can_listen(p)
                     THEN /\ table' = [table EXCEPT ![p] =
                                        [addr |-> local[s].addr, syn_queue |-> <<>>]]
                          /\ state' = [state EXCEPT ![s] = "LISTENING"]
                     ELSE UNCHANGED <<table, state>>
           ELSE UNCHANGED <<portVars, local, state>>
      /\ UNCHANGED <<set, handle, peer, nonblock, lost, panicked>>

-----------------------------------------------------------------------------
(* The handle connect() uses: the socket's own or a new one.               *)
ConnectHandle(s) == IF handle[s] # NoHandle THEN handle[s] ELSE add
ConnectReady(s) == handle[s] # NoHandle \/ FreeHandles # {}

(* smoltcp's connect fails if the socket is open, the remote endpoint is   *)
(* unspecified (NoRemote), or there is no port.                            *)
ConnectOk(s, r) ==
  /\ HasEndpoint(s)
  /\ r # NoRemote
  /\ handle[s] # NoHandle => set[handle[s]].st = "Closed"

(* connect() started the connection.                                       *)
ConnectStart(t, s, r) ==
  /\ state[s] = "CLOSED" /\ ConnectReady(s) /\ ConnectOk(s, r)
  /\ LET h == ConnectHandle(s)
         p == bound_endpoint(s)
     IN  /\ TakeCursor(NeedsPort(s))
         /\ set' = [set EXCEPT ![h] = Slot("SynSent", p, r)]
         /\ handle' = [handle EXCEPT ![s] = h]
         /\ local' = [local EXCEPT ![s] = [addr |-> "eth0", port |-> p]]
         /\ peer' = [peer EXCEPT ![s] = r]
         /\ state' = [state EXCEPT ![s] = "CONNECTING"]
  /\ IF nonblock[s] THEN Goto(t, "idle") ELSE block_on(t, FALSE)
  /\ UNCHANGED <<nonblock, table, lost, panicked>>

(* connect() failed: the state goes back to CLOSED.  A handle that was     *)
(* added for this call has not been stored and is lost.                    *)
ConnectFail(t, s, r) ==
  /\ state[s] = "CLOSED" /\ ConnectReady(s) /\ ~ConnectOk(s, r)
  /\ IF handle[s] = NoHandle
       THEN /\ set' = [set EXCEPT ![add] = new_tcp_socket]
            /\ lost' = lost \cup {add}
       ELSE UNCHANGED <<set, lost>>
  /\ TakeCursor(NeedsPort(s) /\ Usable # {})
  /\ Goto(t, "idle")
  /\ UNCHANGED <<sockVars, table, panicked>>

(* AlreadyExists: the socket is not CLOSED.                                *)
ConnectBusy(t, s) ==
  /\ state[s] # "CLOSED"
  /\ Goto(t, "idle")
  /\ UNCHANGED <<set, tcpVars>>

(* poll_connect: a connection that is established is CONNECTED; one in any *)
(* state but SynSent counts as failed, and the addresses are cleared.      *)
poll_connect(s) ==
  LET st == set[handle[s]].st
  IN  /\ state' = [state EXCEPT ![s] = CASE st = "SynSent" -> "CONNECTING"
                                         [] st = "Established" -> "CONNECTED"
                                         [] OTHER -> "CLOSED"]
      /\ IF st \in {"SynSent", "Established"} THEN UNCHANGED <<local, peer>>
         ELSE /\ local' = [local EXCEPT ![s] = UNSPECIFIED_ENDPOINT]
              /\ peer' = [peer EXCEPT ![s] = NoRemote]
      /\ UNCHANGED <<handle, nonblock>>

(* One turn of the loop in connect().                                      *)
TryConnect(t, s) ==
  /\ poll_connect(s)
  /\ IF state'[s] = "CONNECTING" THEN WouldBlock(t, FALSE) ELSE Goto(t, "idle")
  /\ UNCHANGED <<set, portVars, lost, panicked>>

-----------------------------------------------------------------------------
(* is_connected: every state but Listen and SynReceived.                   *)
is_connected(h) == set[h].st \notin {"Listen", "SynReceived"}

(* accept() of a socket that does not listen fails; else it starts to wait.*)
AcceptStart(t, s) ==
  /\ IF state[s] = "LISTENING" THEN block_on(t, nonblock[s])
     ELSE Goto(t, "idle")
  /\ UNCHANGED <<set, tcpVars>>

(* The first connection in the queue that is ready.                        *)
ReadyIdx(q) == {i \in 1..Len(q) : is_connected(q[i])}

(* Faulty variant: accept() leaves the handle in the queue.                *)
swap_remove_keeps(q, i) == q

(* VecDeque::swap_remove_front: the front takes the place of element i.    *)
swap_remove_front(q, i) == Tail([q EXCEPT ![i] = q[1]])

TryAcceptNone(t, s) ==
  /\ ReadyIdx(table[local[s].port].syn_queue) = {}
  /\ WouldBlock(t, nonblock[s])
  /\ UNCHANGED <<set, tcpVars>>

(* get_addr_tuple unwraps the endpoints; a connection that was reset while *)
(* it was queued has none.  Otherwise n is the new, connected socket.      *)
TryAccept(t, s, n) ==
  LET p == local[s].port
      q == table[p].syn_queue
      i == Min(ReadyIdx(q))
  IN  /\ ReadyIdx(q) # {}
      /\ IF set[q[i]].rem = NoRemote
           THEN panicked' = TRUE /\ UNCHANGED <<sockVars, table>>
           ELSE /\ table' = [table EXCEPT ![p].syn_queue = swap_remove_front(q, i)]
                /\ state' = [state EXCEPT ![n] = "CONNECTED"]
                /\ handle' = [handle EXCEPT ![n] = q[i]]
                /\ local' = [local EXCEPT ![n] = [addr |-> "eth0", port |-> p]]
                /\ peer' = [peer EXCEPT ![n] = set[q[i]].rem]
                /\ nonblock' = [nonblock EXCEPT ![n] = FALSE]
                /\ UNCHANGED panicked
      /\ UNCHANGED <<set, curr, lost>>

(* incoming_tcp_packet, called before smoltcp sees a first SYN: unless the *)
(* queue is full, add a socket that listens for it.                        *)
incoming_tcp_packet(p, dst) ==
  IF /\ p \in Ports /\ table[p] # NoEntry
     /\ table[p].addr \in {"any", dst}
     /\ Len(table[p].syn_queue) < LISTEN_QUEUE_SIZE
    THEN [sets |-> [set EXCEPT ![add] = Slot("Listen", p, NoRemote)],
          tables |-> [table EXCEPT ![p].syn_queue = Append(@, add)]]
    ELSE [sets |-> set, tables |-> table]

(* The sockets of set S that take a SYN from r to port p.                  *)
Takes(S, p, r) ==
  {h \in Handles : /\ S[h].port = p
                   /\ \/ S[h].st = "Listen"
                      \/ S[h].rem = r /\ S[h].st \in TcpStates \ {"Closed"}}

(* A first SYN from r to port p: snoop_tcp_packet looks at every frame,    *)
(* smoltcp only at those to our address.                                   *)
Syn ==
  /\ Polling
  /\ FreeHandles # {}
  /\ \E p \in Ports, r \in Remotes, dst \in {"eth0", "other"} :
       LET in == incoming_tcp_packet(p, dst)
           hs == Takes(in.sets, p, r)
       IN  /\ table' = in.tables
           /\ set' = IF dst = "eth0" /\ hs # {} /\ in.sets[Min(hs)].st = "Listen"
                     THEN [in.sets EXCEPT ![Min(hs)].st = "SynReceived", ![Min(hs)].rem = r]
                     ELSE in.sets
  /\ UNCHANGED <<pc, sockVars, curr, lost, panicked>>

-----------------------------------------------------------------------------
(* What smoltcp's close() does.                                            *)
close(c) == [c EXCEPT !.st = CASE @ \in {"Listen", "SynSent"} -> "Closed"
                               [] @ \in {"SynReceived", "Established"} -> "FinWait"
                               [] @ = "CloseWait" -> "LastAck"
                               [] OTHER -> @]

(* The entry is dropped with the sockets of its queue.                     *)
unlisten(p) ==
  LET q == table[p].syn_queue
  IN  /\ table' = [table EXCEPT ![p] = NoEntry]
      /\ set' = [h \in Handles |-> IF \E i \in 1..Len(q) : q[i] = h THEN Free ELSE set[h]]

(* shutdown() of a connected or listening socket, up to poll_interfaces.   *)
(* Other states are ignored.                                               *)
Shutdown(t, s) ==
  /\ \/ /\ state[s] = "CONNECTED"
        /\ set' = [set EXCEPT ![handle[s]] = close(@)]
        /\ UNCHANGED table
     \/ /\ state[s] = "LISTENING"
        /\ unlisten(local[s].port)
  /\ local' = [local EXCEPT ![s] = UNSPECIFIED_ENDPOINT]
  /\ state' = [state EXCEPT ![s] = "CLOSED"]
  /\ Goto(t, "poll")
  /\ UNCHANGED <<handle, peer, nonblock, curr, lost, panicked>>

(* The last step of Drop: the handle leaves the set.                       *)
Remove(s) ==
  /\ set' = IF handle[s] = NoHandle THEN set ELSE [set EXCEPT ![handle[s]] = Free]
  /\ handle' = [handle EXCEPT ![s] = NoHandle]
  /\ state' = [state EXCEPT ![s] = "CLOSED"]
  /\ local' = [local EXCEPT ![s] = UNSPECIFIED_ENDPOINT]
  /\ peer' = [peer EXCEPT ![s] = NoRemote]
  /\ nonblock' = [nonblock EXCEPT ![s] = FALSE]
  /\ UNCHANGED <<portVars, lost, panicked>>

-----------------------------------------------------------------------------
(* recv() and send() of a socket that is not connected fail at once.       *)
StreamStart(t, s) ==
  /\ IF state[s] = "CONNECTED" THEN block_on(t, nonblock[s])
     ELSE Goto(t, "idle")
  /\ UNCHANGED <<set, tcpVars>>

is_active(c) == c.st \notin {"Closed", "Listen"}
may_recv(c) == c.st \in {"Established", "FinWait"} \/ c.rx # <<>>
may_send(c) == c.st \in {"Established", "CloseWait"}

(* Faulty variant: recv() goes on waiting when the peer has closed.        *)
TryRecvIgnoresFin(t, s) ==
  LET c == set[handle[s]]
  IN  /\ IF is_active(c) /\ c.rx = <<>> THEN WouldBlock(t, nonblock[s]) ELSE Goto(t, "idle")
      /\ set' = IF is_active(c) THEN [set EXCEPT ![handle[s]].rx = <<>>] ELSE set
      /\ UNCHANGED <<tcpVars>>

(* One turn of recv(): an error, end of stream, data, or nothing yet.      *)
TryRecv(t, s) ==
  LET c == set[handle[s]]
  IN  /\ IF is_active(c) /\ may_recv(c) /\ c.rx = <<>>
           THEN WouldBlock(t, nonblock[s]) ELSE Goto(t, "idle")
      /\ set' = IF is_active(c) /\ c.rx # <<>>
                THEN [set EXCEPT ![handle[s]].rx = <<>>] ELSE set
      /\ UNCHANGED <<tcpVars>>

(* One turn of send().                                                     *)
TrySend(t, s) ==
  LET c == set[handle[s]]
      open == is_active(c) /\ may_send(c)
  IN  /\ IF open /\ c.tx = BufLen THEN WouldBlock(t, nonblock[s]) ELSE Goto(t, "idle")
      /\ set' = IF open /\ c.tx < BufLen THEN [set EXCEPT ![handle[s]].tx = @ + 1] ELSE set
      /\ UNCHANGED <<tcpVars>>

(* What poll() reports of a connection and of a listener.                  *)
poll_stream(c) == [readable |-> ~may_recv(c) \/ c.rx # <<>>,
                   writable |-> ~may_send(c) \/ c.tx < BufLen]
poll_listener(s) == ReadyIdx(table[local[s].port].syn_queue) # {}

(* poll(): a connecting socket moves on as in connect().                   *)
Poll(t, s) ==
  /\ IF state[s] = "CONNECTING" THEN poll_connect(s) ELSE UNCHANGED sockVars
  /\ Goto(t, "idle")
  /\ UNCHANGED <<set, portVars, lost, panicked>>

SetNonblocking(t, s, b) ==
  /\ nonblock' = [nonblock EXCEPT ![s] = b]
  /\ Goto(t, "idle")
  /\ UNCHANGED <<set, state, handle, local, peer, portVars, lost, panicked>>
=============================================================================
