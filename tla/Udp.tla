-------------------------------- MODULE Udp --------------------------------
(***************************************************************************)
(* UDP sockets of axnet (smoltcp_impl/udp.rs) and the resolver built on    *)
(* the same socket set (dns.rs).  As in Tcp, an operation is a step of     *)
(* task t on socket s with the posix layer's mutex held.                   *)
(*                                                                         *)
(* A UDP socket uses the fields handle, local, peer and nonblock of the    *)
(* socket object.  local.port = 0 stands for None; every bound socket has  *)
(* a port.                                                                 *)
(***************************************************************************)
EXTENDS Tcp

VARIABLES ucurr   \* the cursor of UDP's own get_ephemeral_port

(* UDP's ephemeral ports are handed out in turn, whoever uses them.        *)
NextPort(c) == IF c = PORT_END THEN PORT_START ELSE c + 1

(* UdpSocket::new adds its socket to the set.                              *)
NewUdp(s) ==
  /\ FreeHandles # {}
  /\ set' = [set EXCEPT ![add] = new_udp_socket]
  /\ handle' = [handle EXCEPT ![s] = add]
  /\ UNCHANGED <<pc, state, local, peer, nonblock, portVars, lost, panicked, ucurr>>

(* What bind() does to the object and the set, given an address and a port *)
(* (0 for any).  A port is drawn first; a bound socket stays as it is, and *)
(* so does one that shutdown() closed.                                     *)
BindTo(s, addr, port) ==
  LET p == IF port = 0 THEN ucurr ELSE port
  IN  /\ ucurr' = IF port = 0 THEN NextPort(ucurr) ELSE ucurr
      /\ IF local[s].port = 0
           THEN /\ local' = [local EXCEPT ![s] = [addr |-> addr, port |-> p]]
                /\ set' = [set EXCEPT ![handle[s]].port = p]
           ELSE UNCHANGED <<local, set>>

UdpBind(t, s, addr, port) ==
  /\ BindTo(s, addr, port)
  /\ Goto(t, "idle")
  /\ UNCHANGED <<state, handle, peer, nonblock, portVars, lost, panicked>>

(* connect() binds an unbound socket and stores the peer.                  *)
UdpConnect(t, s, r) ==
  /\ IF local[s].port = 0 THEN BindTo(s, "any", 0) ELSE UNCHANGED <<local, set, ucurr>>
  /\ peer' = [peer EXCEPT ![s] = r]
  /\ Goto(t, "idle")
  /\ UNCHANGED <<state, handle, nonblock, portVars, lost, panicked>>

(* send() needs a peer, send_to() an address with a port, and both a bound *)
(* socket; recv_from() needs a bound socket only.                          *)
UdpStart(t, s, ready) ==
  /\ IF ready /\ local[s].port # 0 THEN block_on(t, nonblock[s])
     ELSE Goto(t, "idle")
  /\ UNCHANGED <<set, tcpVars, ucurr>>

(* One turn of send_impl: a socket that was shut down has no port and is   *)
(* refused.                                                                *)
UdpTrySend(t, s) ==
  LET c == set[handle[s]]
  IN  /\ IF c.tx = BufLen THEN WouldBlock(t, nonblock[s]) ELSE Goto(t, "idle")
      /\ set' = IF c.tx < BufLen /\ c.port # 0
                THEN [set EXCEPT ![handle[s]].tx = @ + 1] ELSE set
      /\ UNCHANGED <<tcpVars, ucurr>>

(* One turn of recv_impl with recv_from(), which the posix layer uses for  *)
(* recv too: the first datagram, whoever sent it.                          *)
UdpTryRecv(t, s) ==
  LET c == set[handle[s]]
  IN  /\ IF c.rx = <<>> THEN WouldBlock(t, nonblock[s]) ELSE Goto(t, "idle")
      /\ set' = IF c.rx = <<>> THEN set ELSE [set EXCEPT ![handle[s]].rx = Tail(@)]
      /\ UNCHANGED <<tcpVars, ucurr>>

(* shutdown(): smoltcp's socket loses its port and its buffers.            *)
UdpShutdown(t, s) ==
  /\ set' = [set EXCEPT ![handle[s]] = new_udp_socket]
  /\ Goto(t, "poll")
  /\ UNCHANGED <<tcpVars, ucurr>>

-----------------------------------------------------------------------------
(* dns_query: a socket of its own, dropped at the end.  start_query fails  *)
(* at once if the name is not valid.  Later, an answer fills rx and a      *)
(* failure changes the state.                                              *)
DnsStart(t, s) ==
  /\ FreeHandles # {}
  /\ set' = [set EXCEPT ![add] = new_dns_socket]
  /\ handle' = [handle EXCEPT ![s] = add]
  /\ block_on(t, FALSE) \/ Goto(t, "idle")
  /\ UNCHANGED <<state, local, peer, nonblock, portVars, lost, panicked, ucurr>>

(* The server answers, or the query fails.                                 *)
DnsAnswer ==
  /\ Polling
  /\ \E h \in Handles :
       /\ set[h].st = "dns" /\ set[h].rx = <<>>
       /\ \/ \E r \in Remotes : set' = [set EXCEPT ![h].rx = <<r>>]
          \/ set' = [set EXCEPT ![h].st = "dnsfail"]
  /\ UNCHANGED <<pc, tcpVars, ucurr>>

DnsTry(t, s) ==
  /\ IF set[handle[s]].st = "dns" /\ set[handle[s]].rx = <<>>
       THEN WouldBlock(t, FALSE) ELSE Goto(t, "idle")
  /\ UNCHANGED <<set, tcpVars, ucurr>>
=============================================================================
