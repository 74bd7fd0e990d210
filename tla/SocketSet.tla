----------------------------- MODULE SocketSet -----------------------------
(***************************************************************************)
(* The set of network sockets of axnet (smoltcp_impl/mod.rs), the polling  *)
(* of the interface, and the loop in which a blocking socket call waits.   *)
(*                                                                         *)
(* A handle names a socket of the protocol library smoltcp, which is       *)
(* external: Segment and Datagram say what packets do to such a socket.    *)
(* Its buffers are counted in units.  While a task is in poll_interfaces   *)
(* any number of packets may be processed (Segment, Datagram, Transmit);   *)
(* each of them, and each access through with_socket, is one step under    *)
(* the lock of the set.                                                    *)
(***************************************************************************)
EXTENDS Naturals, Sequences, FiniteSets, FiniteSetsExt

CONSTANTS Tasks, NoTask,
          MaxHandle,          \* bound on the sockets in the set
          Remotes, NoRemote,  \* remote endpoints
          BufLen              \* units a receive or transmit buffer holds

ASSUME SetAssumption == /\ MaxHandle \in Nat \ {0}
                        /\ BufLen \in Nat \ {0}
                        /\ NoTask \notin Tasks
                        /\ NoRemote \notin Remotes

Handles == 1..MaxHandle
NoHandle == 0

VARIABLES set,   \* set[h]: the socket of handle h
          pc     \* pc[t]: where task t is in a socket call

setVars == <<set, pc>>

TcpStates == {"Closed", "Listen", "SynSent", "SynReceived", "Established",
              "FinWait", "CloseWait", "LastAck"}

(* An unused slot, and what Socket::new makes.                             *)
Slot(s, p, r) == [st |-> s, port |-> p, rem |-> r, rx |-> <<>>, tx |-> 0]
Free == Slot("free", 0, NoRemote)
new_tcp_socket == Slot("Closed", 0, NoRemote)
new_udp_socket == Slot("udp", 0, NoRemote)
new_dns_socket == Slot("dns", 0, NoRemote)

FreeHandles == {h \in Handles : set[h].st = "free"}

(* The lowest free slot is taken.                                          *)
add == Min(FreeHandles)

SetInit ==
  /\ set = [h \in Handles |-> Free]
  /\ pc = [t \in Tasks |-> "idle"]

Goto(t, l) == pc' = [pc EXCEPT ![t] = l]

(* The loop of block_on: poll first, then try, unless nonblocking.         *)
block_on(t, nonblock) == Goto(t, IF nonblock THEN "try" ELSE "poll")

(* f() returned WouldBlock: yield and poll again, or return it.            *)
WouldBlock(t, nonblock) == Goto(t, IF nonblock THEN "idle" ELSE "poll")

-----------------------------------------------------------------------------
(* InterfaceWrapper::poll is over: receive() has no packet, or the device  *)
(* cannot transmit.  The task goes on at l.                                *)
PollEnd(t, l) ==
  /\ pc[t] = "poll"
  /\ Goto(t, l)
  /\ UNCHANGED set

(* Some task is polling the interface.                                     *)
Polling == \E t \in Tasks : pc[t] = "poll"

IsTcp(h) == set[h].st \in TcpStates

(* What smoltcp does to a TCP socket on a segment that is for it.          *)
Received(c, seg) ==
  CASE seg = "RST" /\ c.st = "SynReceived" -> [c EXCEPT !.st = "Listen", !.rem = NoRemote]
    [] seg = "RST" /\ c.st # "SynReceived" -> [c EXCEPT !.st = "Closed", !.rem = NoRemote]
    [] seg = "ACK" /\ c.st \in {"SynSent", "SynReceived"} -> [c EXCEPT !.st = "Established"]
    [] seg = "ACK" /\ c.st = "LastAck" -> [c EXCEPT !.st = "Closed"]
    [] seg = "FIN" /\ c.st = "Established" -> [c EXCEPT !.st = "CloseWait"]
    [] seg = "FIN" /\ c.st = "FinWait" -> [c EXCEPT !.st = "Closed"]
    [] seg = "DATA" /\ c.st \in {"Established", "FinWait"} /\ Len(c.rx) < BufLen ->
         [c EXCEPT !.rx = Append(@, c.rem)]
    [] OTHER -> c

(* A segment of a connection that is open or being opened.                 *)
Segment ==
  /\ Polling
  /\ \E h \in Handles, seg \in {"ACK", "RST", "FIN", "DATA"} :
       /\ IsTcp(h) /\ set[h].rem # NoRemote /\ set[h].st # "Closed"
       /\ set' = [set EXCEPT ![h] = Received(@, seg)]
  /\ UNCHANGED pc

(* A datagram arrives for a bound UDP socket.                              *)
Datagram ==
  /\ Polling
  /\ \E h \in Handles, r \in Remotes :
       /\ set[h].st = "udp" /\ set[h].port # 0 /\ Len(set[h].rx) < BufLen
       /\ set' = [set EXCEPT ![h].rx = Append(@, r)]
  /\ UNCHANGED pc

(* The interface sends what a socket has queued; for TCP, the peer has     *)
(* acknowledged it.                                                        *)
Transmit ==
  /\ Polling
  /\ \E h \in Handles :
       /\ set[h].tx > 0
       /\ set' = [set EXCEPT ![h].tx = @ - 1]
  /\ UNCHANGED pc
=============================================================================
