-------------------------------- MODULE Fib ---------------------------------
(***************************************************************************)
(* The forwarding tables of src/net/fib.rs: the prefix-indexed FIBs        *)
(* IPV4_FIB_INDEX and IPV6_FIB_INDEX, the adjacency tables IPV4_ADJACENT   *)
(* and IPV6_ADJACENT, and MAC_ADDR_TABLE, with the address masking of      *)
(* Ipv4Address::masked / Ipv6Address::masked they rely on.                 *)
(*                                                                         *)
(* Addresses are AddrBits wide instead of 32 or 128; a table index runs    *)
(* over 0..AddrBits as it runs over 0..32 or 0..128.  A BTreeMap is a      *)
(* function from keys to an entry or NoEntry.  The Rust shift             *)
(* `0xff..ff << (W - p)` panics for p = 0 in a debug build and shifts by  *)
(* (W - p) mod W, i.e. not at all, in a release build.                    *)
(*                                                                         *)
(* The state machine at the end calls the registration functions with     *)
(* arbitrary arguments and checks the lookups against the longest-prefix  *)
(* match they are meant to compute.                                       *)
(***************************************************************************)
EXTENDS Naturals, Bitwise

CONSTANTS
  AddrBits,      \* width of an address (32 / 128 in the code), a power of 2
  BuildProfile,  \* "debug" or "release"
  NoEntry        \* a map has no entry for the key

ASSUME /\ AddrBits \in {2, 4, 8}
       /\ BuildProfile \in {"debug", "release"}

Addr == 0 .. 2^AddrBits - 1
PrefixLens == 0 .. AddrBits
AllOnes == 2^AddrBits - 1

(* `all-ones << n` on a W-bit integer; the amount is reduced mod W as the *)
(* release build's wrapping shift does.                                   *)
ShlAllOnes(n) == (AllOnes * 2^(n % AddrBits)) % 2^AddrBits

(* the shift amount is the full width: a debug build panics *)
ShlPanics(n) == BuildProfile = "debug" /\ n >= AddrBits

(* Ipv4Address::masked and Ipv6Address::masked *)
Masked(a, p) == a & ShlAllOnes(AddrBits - p)

MaskedPanics(p) == ShlPanics(AddrBits - p)

(* ipv4_mask_to_prefixlen: a contiguous mask gives its length, anything   *)
(* else 0.                                                                 *)
Ipv4MaskToPrefixlen(mask) ==
  IF \E p \in 1 .. AddrBits : ShlAllOnes(AddrBits - p) = mask
  THEN CHOOSE p \in 1 .. AddrBits : ShlAllOnes(AddrBits - p) = mask
  ELSE 0

EmptyMap(Keys) == [k \in Keys |-> NoEntry]

EmptyFib == [p \in PrefixLens |-> EmptyMap(Addr)]

-----------------------------------------------------------------------------
(* register_ipv4_fib: insert the key unmasked into the table of the mask's *)
(* length, replacing whatever was there.                                   *)
RegisterIpv4Fib(fib, ip, mask, e) == [fib EXCEPT ![Ipv4MaskToPrefixlen(mask)][ip] = e]

(* register_ipv6_fib: IPV6_FIB_INDEX[prefix]; an index past the last      *)
(* table panics (in every build: slice indexing is bounds-checked).       *)
RegisterIpv6Fib(fib, ip, prefix, e) == [fib EXCEPT ![prefix][ip] = e]

Ipv6FibIndexPanics(prefix) == prefix \notin PrefixLens

(***************************************************************************)
(* find_ipv4_fib: from the mask's length down to 0, look up the address   *)
(* masked to the current length; the first hit is returned.  Computing    *)
(* masked(0) is the panic of a debug build.                                *)
(***************************************************************************)
\* Mutant: every table probed with the unmasked address.
RECURSIVE Ipv4DescendUnmasked(_, _, _)
Ipv4DescendUnmasked(fib, ip, i) ==
  IF MaskedPanics(i) THEN [entry |-> NoEntry, panic |-> TRUE]
  ELSE IF fib[i][ip] # NoEntry THEN [entry |-> fib[i][ip], panic |-> FALSE]
  ELSE IF i = 0 THEN [entry |-> NoEntry, panic |-> FALSE]
  ELSE Ipv4DescendUnmasked(fib, ip, i - 1)

RECURSIVE Ipv4Descend(_, _, _)
Ipv4Descend(fib, ip, i) ==
  IF MaskedPanics(i) THEN [entry |-> NoEntry, panic |-> TRUE]
  ELSE IF fib[i][Masked(ip, i)] # NoEntry
       THEN [entry |-> fib[i][Masked(ip, i)], panic |-> FALSE]
  ELSE IF i = 0 THEN [entry |-> NoEntry, panic |-> FALSE]
  ELSE Ipv4Descend(fib, ip, i - 1)

FindIpv4Fib(fib, ip, mask) == Ipv4Descend(fib, ip, Ipv4MaskToPrefixlen(mask))

(* find_ipv6_fib: the same descent, but every table is probed with the    *)
(* address masked to the starting `prefix`, not to the current index.     *)
RECURSIVE Ipv6Descend(_, _, _, _)
Ipv6Descend(fib, ip, prefix, i) ==
  IF MaskedPanics(prefix) THEN [entry |-> NoEntry, panic |-> TRUE]
  ELSE IF fib[i][Masked(ip, prefix)] # NoEntry
       THEN [entry |-> fib[i][Masked(ip, prefix)], panic |-> FALSE]
  ELSE IF i = 0 THEN [entry |-> NoEntry, panic |-> FALSE]
  ELSE Ipv6Descend(fib, ip, prefix, i - 1)

FindIpv6Fib(fib, ip, prefix) == Ipv6Descend(fib, ip, prefix, prefix)

-----------------------------------------------------------------------------
(***************************************************************************)
(* register_ipv4_adjacent, register_ipv6_adjacent, register_macaddress:   *)
(* insert when the key is absent or its entry has an expiry; keep an      *)
(* entry whose expire_time is None (permanent).  An adjacency is          *)
(* [mac, netif, is_local, expire_time].                                    *)
(***************************************************************************)
Permanent(adj, k) == adj[k] # NoEntry /\ adj[k].expire_time = NoEntry

RegisterAdjacent(adj, k, info) == IF Permanent(adj, k) THEN adj ELSE [adj EXCEPT ![k] = info]

=============================================================================
