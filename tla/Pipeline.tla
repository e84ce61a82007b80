------------------------------ MODULE Pipeline ------------------------------
(***************************************************************************)
(* The packet-processing graph of src/net: ethernet-in, arp-in, ipv4-in,   *)
(* icmpv4-in-local, ipv6-in and icmpv6-in-local, over the tables of Fib    *)
(* as lib.rs configures them at boot.                                      *)
(*                                                                         *)
(* One step is one call of ethernet-in's process with the batch the        *)
(* virtio-net interrupt handler popped.  The handler runs with interrupts  *)
(* disabled and nothing else touches the tables, so the whole call is one  *)
(* atomic step; inside it the frames are folded over in the code's order.  *)
(* Boot is the two setup_virtio_net calls: the probe of VirtioMmio, then  *)
(* the interface's registrations.  Frames are records of the header       *)
(* fields the stages read; replies are                                     *)
(* the frames handed to Netif::xmit, recorded in `sent` with the batch     *)
(* position of the frame they answer.                                      *)
(***************************************************************************)
EXTENDS Fib, SequencesExt, VirtioMmio, IrqDispatch, VirtioNetInit

CONSTANTS
  Netifs,          \* the configured interfaces
  NetifOrder,      \* the interface lib.rs configures with each index 0, 1, ...
  Cmdlines,        \* the command lines the boot loader may pass, as entries
  Conf,            \* per interface: mac, ip4, prefix, and the v6 addresses
  Bcast,           \* FF:FF:FF:FF:FF:FF
  Macs,            \* every MAC address a frame or the configuration names
  SubnetBits,      \* the `masked(24)` lib.rs applies whatever the prefix
  Ipv6EchoSource,  \* the fixed source [0x02; 16] of ICMPv6 echo replies
  Frames,          \* the frames a peer may send
  MaxBatch,        \* frames per received batch
  MaxBatches       \* batches per behaviour

ASSUME /\ NetifOrder \in Seq(Netifs)
       /\ MaxBatch \in Nat \ {0}
       /\ MaxBatches \in Nat

VARIABLES
  tables,   \* MAC_ADDR_TABLE, IPV4_ADJACENT, IPV4_FIB_INDEX, IPV6_ADJACENT, IPV6_FIB_INDEX
  batch,    \* the frames of the last batch
  sent,     \* the frames transmitted while processing it
  halted,   \* the kernel panicked
  batches,  \* batches processed so far
  cmdline,  \* the entries of the kernel command line
  ifaces,   \* NET_IFACES: the index and the VirtioMMIO of each interface
  irqs      \* IRQ_HANDLERS and the IOAPIC redirection entries (IrqDispatch)

vars == <<tables, batch, sent, halted, batches, cmdline, ifaces, irqs>>

\* AdjacentInformation::new and ForwardInformationBaseIpv4/6::new
Adjacency(mac, n, local) == [mac_address |-> mac, netif |-> n, is_local |-> local,
                             expire_time |-> NoEntry]
FibEntry(mac, addr, n, type) == [nexthop_macaddress |-> mac, nexthop_address |-> addr,
                                 netif |-> n, fib_type |-> type]

-----------------------------------------------------------------------------
(***************************************************************************)
(* setup_virtio_net(index, ipv4addr, prefix) after the device is up: the  *)
(* registrations of the interface's MAC, v4 address and subnet, link-     *)
(* local, solicited-node and all-nodes v6 addresses, in the code's order. *)
(***************************************************************************)
SetupNetif(t, n) ==
  LET c == Conf[n]
      mt1 == RegisterAdjacent(t.mactable, c.mac, Adjacency(c.mac, n, TRUE))
      adj4 == RegisterAdjacent(t.adj4, c.ip4, Adjacency(c.mac, n, TRUE))
      fib4a == RegisterIpv4Fib(t.fib4, c.ip4, AllOnes, FibEntry(c.mac, c.ip4, n, "Local"))
      fib4 == RegisterIpv4Fib(fib4a, Masked(c.ip4, SubnetBits), ShlAllOnes(AddrBits - c.prefix),
                              FibEntry(c.mac, c.ip4, n, "Adjacent"))
      adj6a == RegisterAdjacent(t.adj6, c.lla, Adjacency(c.mac, n, TRUE))
      fib6a == RegisterIpv6Fib(t.fib6, c.lla, AddrBits, FibEntry(c.mac, c.lla, n, "Local"))
      mt2 == RegisterAdjacent(mt1, c.snm_mac, Adjacency(c.snm_mac, n, TRUE))
      adj6b == RegisterAdjacent(adj6a, c.snm, Adjacency(c.snm_mac, n, TRUE))
      fib6b == RegisterIpv6Fib(fib6a, c.snm, AddrBits, FibEntry(c.snm_mac, c.snm, n, "Local"))
      mt3 == RegisterAdjacent(mt2, c.alln_mac, Adjacency(c.alln_mac, n, TRUE))
      adj6 == RegisterAdjacent(adj6b, c.alln, Adjacency(c.alln_mac, n, TRUE))
      fib6 == RegisterIpv6Fib(fib6b, c.alln, AddrBits, FibEntry(c.alln_mac, c.alln, n, "Local"))
  IN [mactable |-> mt3, adj4 |-> adj4, fib4 |-> fib4, adj6 |-> adj6, fib6 |-> fib6]

EmptyTables == [mactable |-> EmptyMap(Macs), adj4 |-> EmptyMap(Addr), fib4 |-> EmptyFib,
                adj6 |-> EmptyMap(Addr), fib6 |-> EmptyFib]

(***************************************************************************)
(* setup_virtio_net(index, ...): VirtioMMIO::new(cmd, index), whose Err    *)
(* panics, as does its u8 irq overflow in a debug build;                  *)
(* VirtioNet::new, which returns None for a device that is not           *)
(* virtio-net and otherwise drives the device's status handshake, whose   *)
(* FEATURES_OK and QueueReady asserts panic; IRQ_HANDLERS.set_handler for the device's irq (whose       *)
(* enable_irq panics in a debug build past irq 119);                      *)
(* then the interface is pushed on NET_IFACES with id = index and its     *)
(* addresses are registered.                                               *)
(***************************************************************************)
SetupVirtioNet(acc, i) ==
  LET m == MmioNew(acc.cmd, i - 1)
      net == NetNew(Window(m.addr))
  IN CASE acc.panic       -> acc
       [] ~m.ok \/ (m.irq_overflows /\ BuildProfile = "debug") -> [acc EXCEPT !.panic = TRUE]
       [] GetType(m) # 1  -> acc
       [] net.panic -> [acc EXCEPT !.panic = TRUE]
       [] RegLowOverflows(m.irq) /\ BuildProfile = "debug" -> [acc EXCEPT !.panic = TRUE]
       [] OTHER -> [acc EXCEPT !.irqs = SetHandler(@, NetHandler(i - 1), m.irq),
                               !.tables = SetupNetif(@, NetifOrder[i]),
                               !.ifaces = Append(@, [id |-> i - 1, mmio |-> m,
                                                     dev |-> net.dev])]

(* start_rust: apic::init ends with ioapic_init, the timer handler is set *)
(* for irq 0, then setup_virtio_net(0, ...) and setup_virtio_net(1, ...)  *)
BootIrqs == SetHandler([handlers |-> [irq \in {} |-> NoHandler], redir |-> IoapicInit],
                       TimerHandler, 0)

Boot(entries) ==
  FoldLeft(SetupVirtioNet,
           [cmd |-> CmdlineOf(entries), tables |-> EmptyTables, ifaces |-> <<>>,
            irqs |-> BootIrqs, panic |-> FALSE],
           [i \in DOMAIN NetifOrder |-> i])

Init ==
  /\ cmdline \in Cmdlines
  /\ \E b \in {Boot(cmdline)} :
       /\ tables = b.tables
       /\ ifaces = b.ifaces
       /\ irqs = b.irqs
       /\ halted = b.panic
  /\ batch = <<>>
  /\ sent = <<>>
  /\ batches = 0

-----------------------------------------------------------------------------
(***************************************************************************)
(* EthernetIn::process, the loop: learn the source MAC (as a permanent,   *)
(* non-local entry), then, if the destination is broadcast or a local MAC *)
(* of the table, put the frame in the bin of its EtherType.  Bins hold    *)
(* batch positions.                                                        *)
(***************************************************************************)
EthernetInLoop(mt, b) ==
  LET step(acc, i) ==
        LET f == b[i]
            mt1 == RegisterAdjacent(acc.mactable, f.smac, Adjacency(f.smac, f.netif, FALSE))
            accepted == \/ f.dmac = Bcast
                        \/ mt1[f.dmac] # NoEntry /\ mt1[f.dmac].is_local
        IN [acc EXCEPT !.mactable = mt1,
                       !.arp = IF accepted /\ f.ethertype = "arp" THEN Append(@, i) ELSE @,
                       !.ipv4 = IF accepted /\ f.ethertype = "ipv4" THEN Append(@, i) ELSE @,
                       !.ipv6 = IF accepted /\ f.ethertype = "ipv6" THEN Append(@, i) ELSE @]
  IN FoldLeftDomain(step, [mactable |-> mt, arp |-> <<>>, ipv4 |-> <<>>, ipv6 |-> <<>>], b)

(***************************************************************************)
(* ArpIn::process: for every frame learn SPA -> SHA into the v4 FIB (/32, *)
(* AdjacentResolved) and the adjacency table; then, if TPA has a local    *)
(* adjacency and the operation is a request, send a reply on that         *)
(* adjacency's interface.                                                  *)
(***************************************************************************)
\* Mutant: the reply sent whatever the ARP operation.
ArpInAnyOper(t, out, b, idxs) ==
  LET step(acc, i) ==
        LET f == b[i]
            fib4 == RegisterIpv4Fib(acc.t.fib4, f.spa, AllOnes,
                                    FibEntry(f.sha, f.spa, f.netif, "AdjacentResolved"))
            adj4 == RegisterAdjacent(acc.t.adj4, f.spa, Adjacency(f.sha, f.netif, FALSE))
            a == adj4[f.tpa]
            reply == [kind |-> "arp_reply", netif |-> a.netif, smac |-> Conf[a.netif].mac,
                      dmac |-> f.sha, src |-> f.tpa, dst |-> f.spa, req |-> i]
        IN [t |-> [acc.t EXCEPT !.fib4 = fib4, !.adj4 = adj4],
            out |-> IF a # NoEntry /\ a.is_local THEN Append(acc.out, reply) ELSE acc.out]
  IN FoldLeft(step, [t |-> t, out |-> out], idxs)

ArpIn(t, out, b, idxs) ==
  LET step(acc, i) ==
        LET f == b[i]
            fib4 == RegisterIpv4Fib(acc.t.fib4, f.spa, AllOnes,
                                    FibEntry(f.sha, f.spa, f.netif, "AdjacentResolved"))
            adj4 == RegisterAdjacent(acc.t.adj4, f.spa, Adjacency(f.sha, f.netif, FALSE))
            a == adj4[f.tpa]
            reply == [kind |-> "arp_reply", netif |-> a.netif, smac |-> Conf[a.netif].mac,
                      dmac |-> f.sha, src |-> f.tpa, dst |-> f.spa, req |-> i]
        IN [t |-> [acc.t EXCEPT !.fib4 = fib4, !.adj4 = adj4],
            out |-> IF a # NoEntry /\ a.is_local /\ f.oper = "request"
                    THEN Append(acc.out, reply) ELSE acc.out]
  IN FoldLeft(step, [t |-> t, out |-> out], idxs)

(* Icmpv4InLocal::process: an echo reply for every echo request, from the *)
(* receiving interface back to the sender, addresses swapped.              *)
Icmpv4InLocal(b, idxs) ==
  LET reply(i) == [kind |-> "echo_reply", netif |-> b[i].netif, smac |-> Conf[b[i].netif].mac,
                   dmac |-> b[i].smac, src |-> b[i].dst, dst |-> b[i].src, req |-> i]
      echoes == SelectSeq(idxs, LAMBDA i : b[i].icmp_type = "echo_request")
  IN [k \in DOMAIN echoes |-> reply(echoes[k])]

(***************************************************************************)
(* Ipv4In::process: drop a frame whose version is not 4 (`continue`);     *)
(* look the destination up with find_ipv4_fib(dst, 0xffffffff); a Local   *)
(* hit with protocol ICMP joins icmp_pkts; and, still inside the loop,    *)
(* icmpv4-in-local processes icmp_pkts whenever it is not empty.           *)
(***************************************************************************)
\* Mutant: ICMP handed to icmpv4-in-local on any FIB hit, not only Local.
Ipv4InAnyRoute(t, out, b, idxs) ==
  LET step(acc, i) ==
        LET f == b[i]
            r == FindIpv4Fib(t.fib4, f.dst, AllOnes)
            icmp == IF r.entry # NoEntry /\ f.proto = "icmp"
                    THEN Append(acc.icmp, i) ELSE acc.icmp
        IN IF acc.panic \/ ~f.version_ok THEN acc
           ELSE IF r.panic THEN [acc EXCEPT !.panic = TRUE]
           ELSE [out |-> IF icmp # <<>> THEN acc.out \o Icmpv4InLocal(b, icmp) ELSE acc.out,
                 icmp |-> icmp, panic |-> FALSE]
  IN FoldLeft(step, [out |-> out, icmp |-> <<>>, panic |-> FALSE], idxs)

Ipv4In(t, out, b, idxs) ==
  LET step(acc, i) ==
        LET f == b[i]
            r == FindIpv4Fib(t.fib4, f.dst, AllOnes)
            icmp == IF r.entry # NoEntry /\ r.entry.fib_type = "Local" /\ f.proto = "icmp"
                    THEN Append(acc.icmp, i) ELSE acc.icmp
        IN IF acc.panic \/ ~f.version_ok THEN acc
           ELSE IF r.panic THEN [acc EXCEPT !.panic = TRUE]
           ELSE [out |-> IF icmp # <<>> THEN acc.out \o Icmpv4InLocal(b, icmp) ELSE acc.out,
                 icmp |-> icmp, panic |-> FALSE]
  IN FoldLeft(step, [out |-> out, icmp |-> <<>>, panic |-> FALSE], idxs)

(***************************************************************************)
(* Icmpv6InLocal::process: an echo reply from the fixed source            *)
(* [0x02; 16]; for a neighbor advertisement, register_ipv6_fib(src_ip,     *)
(* 0xffffffff, ...) indexes IPV6_FIB_INDEX out of bounds and panics before *)
(* the adjacency is registered.                                            *)
(***************************************************************************)
\* the prefix 0xffffffff the NA branch passes; TLC's integers stop below
\* 2^31, and any value past the last table index behaves the same
NaFibPrefix == 2^30

Icmpv6InLocal(out, b, idxs) ==
  LET step(acc, i) ==
        LET f == b[i]
        IN IF acc.panic THEN acc
           ELSE IF f.icmp_type = "echo_request"
           THEN [acc EXCEPT !.out = Append(@, [kind |-> "echo6_reply", netif |-> f.netif,
                                               smac |-> Conf[f.netif].mac, dmac |-> f.smac,
                                               src |-> Ipv6EchoSource, dst |-> f.src, req |-> i])]
           ELSE IF f.icmp_type = "neighbor_advertisement" /\ Ipv6FibIndexPanics(NaFibPrefix)
           THEN [acc EXCEPT !.panic = TRUE]
           ELSE acc
  IN FoldLeft(step, [out |-> out, panic |-> FALSE], idxs)

(* Ipv6In::process: as Ipv4In, with find_ipv6_fib(dst, 128) and next      *)
(* header 58, and icmpv6-in-local also called inside the loop.             *)
Ipv6In(t, out, b, idxs) ==
  LET step(acc, i) ==
        LET f == b[i]
            r == FindIpv6Fib(t.fib6, f.dst, AddrBits)
            icmp == IF r.entry # NoEntry /\ r.entry.fib_type = "Local" /\ f.proto = "icmp"
                    THEN Append(acc.icmp, i) ELSE acc.icmp
            local == Icmpv6InLocal(acc.out, b, icmp)
        IN IF acc.panic \/ ~f.version_ok THEN acc
           ELSE IF r.panic THEN [acc EXCEPT !.panic = TRUE]
           ELSE IF icmp = <<>> THEN [acc EXCEPT !.icmp = icmp]
           ELSE [out |-> local.out, icmp |-> icmp, panic |-> local.panic]
  IN FoldLeft(step, [out |-> out, icmp |-> <<>>, panic |-> FALSE], idxs)

-----------------------------------------------------------------------------
(* a batch is popped by one interface's handler: its frames share a netif *)
Batches(n) == {s \in SeqOf({f \in Frames : f.netif = n}, MaxBatch) : s # <<>>}

(***************************************************************************)
(* VirtioNet::interrupt_handler of the interface at NET_IFACES position   *)
(* k hands its batch on with NET_IFACES.get(self.get_id()) as the         *)
(* receiving interface; when that position is empty the batch never      *)
(* reaches ethernet-in.                                                    *)
(***************************************************************************)
Attached(k) == ifaces[k].id + 1 \in DOMAIN ifaces

(* The device raises the IOAPIC pin its window is wired to; its frames    *)
(* are popped only when that pin runs its own interface's handler.        *)
Serviced(k) == PinHandler(irqs, Window(ifaces[k].mmio.addr).irq) = NetHandler(ifaces[k].id)

Device(k) == NetifOrder[ifaces[k].id + 1]

Receiver(k) == Device(ifaces[k].id + 1)

\* DataFromNetif::new(NET_IFACES[id], pkt) for each popped frame
Deliver(b, n) == [i \in DOMAIN b |-> [b[i] EXCEPT !.netif = n]]

(***************************************************************************)
(* EthernetIn::process, whole: the loop, then arp-in, ipv4-in and ipv6-in *)
(* on their non-empty bins, in that order.  A panic stops the kernel.      *)
(***************************************************************************)
EthernetIn ==
  /\ ~halted
  /\ batches < MaxBatches
  /\ \E k \in DOMAIN ifaces : Serviced(k) /\ Attached(k) /\ \E popped \in Batches(Device(k)) :
       LET b == Deliver(popped, Receiver(k))
           eth == EthernetInLoop(tables.mactable, b)
           arp == ArpIn([tables EXCEPT !.mactable = eth.mactable], <<>>, b, eth.arp)
           v4 == Ipv4In(arp.t, arp.out, b, eth.ipv4)
           v6 == Ipv6In(arp.t, v4.out, b, eth.ipv6)
       IN /\ tables' = arp.t
          /\ batch' = b
          /\ sent' = IF v4.panic THEN v4.out ELSE v6.out
          /\ halted' = (v4.panic \/ v6.panic)
          /\ batches' = batches + 1
          /\ UNCHANGED <<cmdline, ifaces, irqs>>

Next == EthernetIn

Spec == Init /\ [][Next]_vars

-----------------------------------------------------------------------------
LocalIpv4 == {Conf[n].ip4 : n \in Netifs}
LocalMacs == {Conf[n].mac : n \in Netifs} \cup {Conf[n].snm_mac : n \in Netifs}
             \cup {Conf[n].alln_mac : n \in Netifs}

\* a frame ethernet-in must take in: broadcast or one of our MACs
ForUs(f) == f.dmac = Bcast \/ f.dmac \in LocalMacs

RepliesOfKind(k) == SelectSeq(sent, LAMBDA r : r.kind = k)

(* Spec section 9: the core answers broadcast ARP requests for locally    *)
(* owned v4 addresses, whichever interface they arrive on.  The ARP       *)
(* replies sent for a batch are, in order, exactly one for each request   *)
(* in it that is for us and asks for a local address: from the MAC that   *)
(* owns the address to the requester's MAC, with the addresses swapped.   *)
(* Which interface the reply leaves on is not part of it: arp-in sends on *)
(* the interface of the address's adjacency, not the receiving one.       *)
OwnerMac(ip) == Conf[CHOOSE n \in Netifs : Conf[n].ip4 = ip].mac

ArpReplyView(r) == [kind |-> r.kind, smac |-> r.smac, dmac |-> r.dmac,
                    src |-> r.src, dst |-> r.dst, req |-> r.req]

ArpRepliesAnswerLocalRequests ==
  LET asks == SelectSeq([i \in DOMAIN batch |-> i],
                        LAMBDA i : /\ ForUs(batch[i]) /\ batch[i].ethertype = "arp"
                                   /\ batch[i].oper = "request" /\ batch[i].tpa \in LocalIpv4)
      expected(i) == [kind |-> "arp_reply", smac |-> OwnerMac(batch[i].tpa),
                      dmac |-> batch[i].sha, src |-> batch[i].tpa,
                      dst |-> batch[i].spa, req |-> i]
      replies == RepliesOfKind("arp_reply")
  IN [k \in DOMAIN replies |-> ArpReplyView(replies[k])]
       = [k \in DOMAIN asks |-> expected(asks[k])]

EchoRequestTo(f, locals) ==
  /\ ForUs(f) /\ f.ethertype = "ipv4" /\ f.version_ok /\ f.dst \in locals
  /\ f.proto = "icmp" /\ f.icmp_type = "echo_request"

(* Every ICMPv4 echo reply answers an echo request of the batch that was  *)
(* addressed to one of our v4 addresses, back to its sender: no reply to  *)
(* a request for an address that is merely on our subnet.                  *)
EchoRepliesAnswerRequests ==
  \A k \in DOMAIN RepliesOfKind("echo_reply") :
    LET r == RepliesOfKind("echo_reply")[k]
    IN /\ r.req \in DOMAIN batch
       /\ EchoRequestTo(batch[r.req], LocalIpv4)
       /\ r.dst = batch[r.req].src /\ r.src = batch[r.req].dst
       /\ r.dmac = batch[r.req].smac /\ r.netif = batch[r.req].netif

(* The /32 Local route lib.rs registers for each interface address stays *)
(* Local, so that ipv4-in keeps handing echo requests for it to            *)
(* icmpv4-in-local whatever ARP traffic arrives.                           *)
LocalRouteStaysLocal ==
  \A n \in Netifs : tables.fib4[AddrBits][Conf[n].ip4].fib_type = "Local"

(* Spec section 6: the nth virtio_mmio.device= entry of the command line *)
(* binds to the nth network interface.  For a command line naming at     *)
(* least as many devices as lib.rs sets up, among any other parameters,  *)
(* boot binds an interface for every index, NET_IFACES[k] has id k - 1   *)
(* (the interrupt handler finds itself by it) and its VirtioMMIO has the *)
(* size, address and irq the k-th entry gives.                            *)
NetifsBindNthDevice ==
  /\ Len(ifaces) = Len(NetifOrder)
  /\ \A k \in DOMAIN ifaces :
       /\ ifaces[k].id = k - 1
       /\ ifaces[k].mmio = Expected(DevicesOf(cmdline)[k])

(* Every device boot binds went through virtio 1.x's driver              *)
(* initialisation in order, as the device saw it:                         *)
(*   - status writes 0, ACKNOWLEDGE, +DRIVER, +FEATURES_OK, +DRIVER_OK,   *)
(*     each a read-modify-write of the one before;                        *)
(*   - the features were written at DRIVER, before FEATURES_OK, and are  *)
(*     only features the device offers;                                   *)
(*   - all three queues were made ready after FEATURES_OK and before      *)
(*     DRIVER_OK.                                                         *)
(* A status write that loses the bits already set, features written late, *)
(* or a 64-bit feature word reassembled wrongly would break it.           *)
VirtioInitOrder ==
  \A k \in DOMAIN ifaces :
    LET d == ifaces[k].dev
    IN /\ d.statuses = <<0, 1, 3, 11, 15>>
       /\ d.featuresAt = 3
       /\ d.features \subseteq Window(ifaces[k].mmio.addr).features
       /\ \A q \in NetQueues : d.ready[q] /\ d.readyAt[q] = 11

(* Every interface boot binds is reached by its device's interrupt: the   *)
(* IOAPIC entry of the pin its window is wired to is unmasked, with a     *)
(* vector that interrupt_handler turns back into an irq whose             *)
(* IRQ_HANDLERS entry is that interface; and the APIC timer's vector 48   *)
(* still runs the timer handler.  Two devices on one irq, a device on irq *)
(* 0, a wrapped irq or a pin past the IOAPIC's last entry would leave a   *)
(* device's frames, or the timer, unserviced for good.                     *)
IrqReachesEveryInterface ==
  /\ HandlerOf(irqs, VECTOR_IRQ_BASE) = TimerHandler
  /\ \A k \in DOMAIN ifaces : Serviced(k)

(* Spec section 7: the pipeline is drop-tolerant and the only fatal       *)
(* errors are bring-up failures; no received frame panics the kernel.      *)
NoPanic == ~halted

=============================================================================
