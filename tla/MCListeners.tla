----------------------------- MODULE MCListeners -----------------------------
(***************************************************************************)
(* Model values for checking Listeners with TLC: a TCP and a UDP listener, *)
(* two clients of their own address.                                       *)
(***************************************************************************)
EXTENDS Listeners

CONSTANTS tcp, udp, f1, f2, f3, c1, c2
BothNetworks == {tcp, udp}
OnlyUdp == {udp}
TwoFlows == {f1, f2}
ThreeFlows == {f1, f2, f3}
TwoClients == {c1, c2}
OneClient == {c1}
OwnIP == [c \in TwoClients |-> c]
ClientIP == [c \in OneClient |-> c]
NoLimit == {[conns |-> 0, ips |-> 0]}
OneAddress == {[conns |-> 2, ips |-> 1]}
SomeLimits == {[conns |-> 2, ips |-> 1], [conns |-> 0, ips |-> 2]}
OneConnection == [conns |-> 1, ips |-> 0]
TwoConnections == [conns |-> 2, ips |-> 0]
=============================================================================
