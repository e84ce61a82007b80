------------------------------ MODULE FibCalls ------------------------------
(***************************************************************************)
(* Any sequence of calls of the registration functions of src/net/fib.rs, *)
(* with arguments from small sets, and the lookups find_ipv4_fib and      *)
(* find_ipv6_fib checked after every call against the longest-prefix      *)
(* match defined directly from the routes.                                 *)
(***************************************************************************)
EXTENDS Fib

CONSTANTS
  Ipv4Masks,    \* masks callers pass to register_ipv4_fib
  Ipv6Prefixes, \* prefixes callers pass to register_ipv6_fib
  Entries,      \* FIB entries (next hop, netif, type) told apart by name
  Keys,         \* keys of the adjacency table
  AdjInfos,     \* adjacency records a caller registers
  MaxCalls      \* bound on the number of calls

ASSUME MaxCalls \in Nat

VARIABLES fib4, fib6, adj, calls

vars == <<fib4, fib6, adj, calls>>

Init ==
  /\ fib4 = EmptyFib
  /\ fib6 = EmptyFib
  /\ adj = EmptyMap(Keys)
  /\ calls = 0

CallRegisterIpv4Fib ==
  /\ calls < MaxCalls
  /\ \E ip \in Addr, mask \in Ipv4Masks, e \in Entries :
       fib4' = RegisterIpv4Fib(fib4, ip, mask, e)
  /\ calls' = calls + 1
  /\ UNCHANGED <<fib6, adj>>

CallRegisterIpv6Fib ==
  /\ calls < MaxCalls
  /\ \E ip \in Addr, prefix \in Ipv6Prefixes, e \in Entries :
       fib6' = RegisterIpv6Fib(fib6, ip, prefix, e)
  /\ calls' = calls + 1
  /\ UNCHANGED <<fib4, adj>>

\* register_ipv4_adjacent, register_ipv6_adjacent and register_macaddress
\* share one body; one table stands for the three.
CallRegisterAdjacent ==
  /\ calls < MaxCalls
  /\ \E k \in Keys, info \in AdjInfos : adj' = RegisterAdjacent(adj, k, info)
  /\ calls' = calls + 1
  /\ UNCHANGED <<fib4, fib6>>

Next == CallRegisterIpv4Fib \/ CallRegisterIpv6Fib \/ CallRegisterAdjacent

Spec == Init /\ [][Next]_vars

-----------------------------------------------------------------------------
(* The route of prefix length p and key k covers ip when the first p bits *)
(* agree: the mask of length p is 2^W - 2^(W-p), which is 0 for p = 0.    *)
Covers(p, k, ip) == ip & (2^AddrBits - 2^(AddrBits - p)) = k

(* The longest-prefix match over the routes of a table. *)
LongestMatch(fib, ip) ==
  LET hits == {p \in PrefixLens : \E k \in Addr : fib[p][k] # NoEntry /\ Covers(p, k, ip)}
      best == CHOOSE p \in hits : \A q \in hits : q <= p
  IN IF hits = {} THEN NoEntry
     ELSE fib[best][CHOOSE k \in Addr : fib[best][k] # NoEntry /\ Covers(best, k, ip)]

(* Spec, FIB longest-match: for every destination, find_ipv4_fib called   *)
(* with the host mask (as ipv4-in calls it) returns the entry of the      *)
(* longest registered prefix covering the address, or nothing (when it    *)
(* returns at all: a debug build's panic on a miss is Pipeline's concern). *)
Ipv4LongestMatch ==
  \A ip \in Addr :
    LET r == FindIpv4Fib(fib4, ip, AllOnes)
    IN ~r.panic => r.entry = LongestMatch(fib4, ip)

=============================================================================
