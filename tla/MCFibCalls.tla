------------------------------ MODULE MCFibCalls ------------------------------
(***************************************************************************)
(* Model-checking instance of FibCalls: 4-bit addresses (prefix lengths   *)
(* 0..4 stand for 0..32 and 0..128), two distinguishable FIB entries, two *)
(* adjacency keys and two calls per behaviour, enough for a shorter and a *)
(* longer route covering the same address.                                 *)
(***************************************************************************)
EXTENDS FibCalls

CONSTANTS e1, e2, k1, k2, m1, m2

MCEntries == {e1, e2}
MCKeys == {k1, k2}
\* an adjacency: its MAC and whether it expires (code: always None)
MCAdjInfos == [mac : {m1, m2}, expire_time : {NoEntry, 5}]
\* masks of length 1..W, as 0xffffffff << (32 - p) gives them
MCMasksNonZero == {ShlAllOnes(AddrBits - p) : p \in 1 .. AddrBits}
\* register_ipv6_fib is called with 128 at boot
MCIpv6HostPrefix == {AddrBits}

=============================================================================
