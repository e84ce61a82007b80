------------------------------ MODULE MCPipeline ------------------------------
(***************************************************************************)
(* Model-checking instance of Pipeline: the interfaces n0 and n1 lib.rs   *)
(* sets up, with 4-bit addresses.  192.168.0.10/24 becomes 10 (1010b)     *)
(* with prefix 2, so the subnet is 8..11; the peer 192.168.0.99 becomes   *)
(* 9.  192.168.10.10/24 becomes 6, in 4..7, with the peer 5.  The v6      *)
(* link-local and solicited-node addresses are 12 and 13 (n0), 11 and 15  *)
(* (n1); all-nodes is 14 on both; the echo source [0x02; 16] is 2.       *)
(***************************************************************************)
EXTENDS Pipeline, TLC

CONSTANTS n0, n1, M0, M1, SNM0, SNM1, ALLN, P1, P2, BCAST, KEY0

MCNetifs == {n0, n1}
MCNetifOrder == <<n0, n1>>
MCConf == (n0 :> [mac |-> M0, ip4 |-> 10, prefix |-> 2, lla |-> 12,
                  snm |-> 13, snm_mac |-> SNM0, alln |-> 14, alln_mac |-> ALLN])
          @@ (n1 :> [mac |-> M1, ip4 |-> 6, prefix |-> 2, lla |-> 11,
                     snm |-> 15, snm_mac |-> SNM1, alln |-> 14, alln_mac |-> ALLN])
MCMacs == {M0, M1, SNM0, SNM1, ALLN, P1, P2, BCAST}

(* the features a QEMU virtio-net-device offers by default (VERSION_1 is  *)
(* bit 32, SPEED_DUPLEX bit 63); window 209 as with csum=off, window 210   *)
(* as with event_idx=off,indirect_desc=off.  QEMU requires no feature      *)
(* before FEATURES_OK, and sizes rx and tx at 256, the control queue at 64.*)
QemuNetFeatures == {0, 1, 2, 5, 7, 8, 9, 10, 11, 12, 13, 14, 15, 16, 17, 18, 19,
                    20, 21, 23, 27, 28, 29, 32, 63}

\* three virtio-net windows, as QEMU maps them (addresses scaled to 0xd0..0xd2),
\* wired to IOAPIC pins 5, 12 and 10
MCMmioWindows == [a \in {208, 209, 210} |->
                   [magic |-> 1953655158, version |-> 2, type |-> 1,
                    irq |-> CASE a = 208 -> 5 [] a = 209 -> 12 [] OTHER -> 10,
                    features |-> CASE a = 208 -> QemuNetFeatures
                                   [] a = 209 -> QemuNetFeatures \ {0, 11, 12, 13, 14}
                                   [] OTHER   -> QemuNetFeatures \ {28, 29},
                    required |-> {},
                    qmax |-> [q \in 0 .. 2 |-> IF q = 2 THEN 64 ELSE 256]]]

\* device entries: 4k@0xd0:5, 512@0xd1:12, 1M@0xd2:10
DevA == [dev |-> [size |-> 4, unit |-> "k", addr |-> 208, irq |-> 5]]
DevB == [dev |-> [size |-> 512, unit |-> "", addr |-> 209, irq |-> 12]]
DevC == [dev |-> [size |-> 1, unit |-> "M", addr |-> 210, irq |-> 10]]
\* other parameters: one with a digit, one with ':', one with "@0x"
Console == [other |-> <<"c", "=", "0">>]
IpParam == [other |-> <<"i", "=", "1", ":", "2">>]
MemParam == [other |-> <<"m", "=", "1", "@", "0", "x", "2">>]

\* every order of the three devices, alone or among other parameters
MCCmdlines ==
  UNION {{<<x, y>>, <<Console, x, y>>, <<x, IpParam, y>>, <<MemParam, x, y, IpParam>>,
          <<x, y, z>>} : <<x, y, z>> \in {<<DevA, DevB, DevC>>, <<DevC, DevA, DevB>>,
                                           <<DevB, DevC, DevA>>}}
\* QEMU's line for two devices
MCCmdlineQemu == {<<Console, DevA, DevB>>}

\* a frame of the given kind with the fields the other kinds read left blank
Frame(dmac, smac, type) ==
  [netif |-> n0, dmac |-> dmac, smac |-> smac, ethertype |-> type, oper |-> "none",
   sha |-> smac, spa |-> 0, tpa |-> 0, version_ok |-> TRUE, src |-> 0, dst |-> 0,
   proto |-> "none", icmp_type |-> "none"]
Arp(smac, oper, spa, tpa) ==
  [Frame(BCAST, smac, "arp") EXCEPT !.oper = oper, !.spa = spa, !.tpa = tpa]
Ip(type, dmac, ok, src, dst, proto, icmp) ==
  [Frame(dmac, P1, type) EXCEPT !.version_ok = ok, !.src = src, !.dst = dst,
                                !.proto = proto, !.icmp_type = icmp]

ArpAskOwn == Arp(P1, "request", 9, 10)      \* scenario 1: who has .10, tell .99
ArpAskOther == Arp(P1, "request", 9, 11)    \* a request for a non-local address
ArpAnswer == Arp(P2, "reply", 9, 10)        \* .99 answers from another MAC
ArpClaimOwn == Arp(P2, "request", 10, 11)   \* a host that also claims .10
EchoOwn == Ip("ipv4", M0, TRUE, 9, 10, "icmp", "echo_request")    \* scenario 2
EchoSubnet == Ip("ipv4", M0, TRUE, 9, 9, "icmp", "echo_request")  \* for a neighbour
EchoNotUs == Ip("ipv4", P2, TRUE, 9, 10, "icmp", "echo_request")  \* unicast to P2
EchoBadVersion == Ip("ipv4", M0, FALSE, 9, 10, "icmp", "echo_request")
Echo6Own == Ip("ipv6", M0, TRUE, 9, 12, "icmp", "echo_request")
Na6 == Ip("ipv6", SNM0, TRUE, 9, 13, "icmp", "neighbor_advertisement")

\* frames on the second interface
On1(f) == [f EXCEPT !.netif = n1]
ArpAskOwn1 == On1(Arp(P1, "request", 5, 6))
EchoOwn1 == On1(Ip("ipv4", M1, TRUE, 5, 6, "icmp", "echo_request"))
\* a request on n1 for n0's address
ArpAskCross == On1(Arp(P1, "request", 5, 10))

MCFramesV4 == {ArpAskOwn, ArpAskOther, ArpAnswer, ArpClaimOwn, EchoOwn, EchoSubnet,
               EchoNotUs, EchoBadVersion, ArpAskOwn1, EchoOwn1, ArpAskCross}
MCFramesClaim == {ArpClaimOwn, EchoOwn}
MCFramesNa == {Na6, Echo6Own}

=============================================================================
