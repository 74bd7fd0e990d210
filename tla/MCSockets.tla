----------------------------- MODULE MCSockets -----------------------------
(* Sockets for TLC: servers that receive and send, clients that do or do   *)
(* not block, a listener that is shut down, and datagrams with the         *)
(* resolver.                                                               *)
EXTENDS Sockets

Uses(k, o, n) == [kinds |-> k, ops |-> o, fds |-> n]

MCWorkloads ==
  {Uses({"tcp"}, {"listen", "accept", "recv"}, 2),
   Uses({"tcp"}, {"listen", "accept", "send"}, 2),
   Uses({"tcp"}, {"connect", "poll", "nonblock"}, 1),
   Uses({"tcp"}, {"connect", "shutdown"}, 1),
   Uses({"tcp", "udp"}, {"bind", "listen", "shutdown", "sendto"}, 2),
   Uses({"udp"}, {"bind", "connect", "recv", "accept", "listen", "shutdown"}, 2),
   Uses({"udp"}, {"connect", "send", "sendto", "poll", "dns"}, 2)}
=============================================================================
