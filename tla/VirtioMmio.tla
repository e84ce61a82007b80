----------------------------- MODULE VirtioMmio -----------------------------
(***************************************************************************)
(* VirtioMMIO::new of src/devices/virtio/mmio.rs: the scan of the kernel  *)
(* command line for the idx-th "virtio_mmio.device=<size>@0x<addr>:<irq>"  *)
(* and the probe of the magic value and version in the window it names,   *)
(* and get_type, which VirtioNet::new tests before it drives the device.  *)
(*                                                                         *)
(* A command line is a sequence of characters, one-character strings,    *)
(* except KEY, one symbol for the whole key phrase "virtio_mmio.device=". *)
(* The phrase does not overlap itself, so it occurs exactly where KEY     *)
(* does; its length is 1 here.  Offsets are 0-based, as in the code:      *)
(* s[a..b] is SubSeq(s, a + 1, b).                                         *)
(***************************************************************************)
EXTENDS Integers, Sequences, SequencesExt

CONSTANTS
  KEY,          \* the key phrase
  MmioWindows   \* the MMIO windows present: address -> magic, version, device id

KeyLen == 1
AtHex == <<"@", "0", "x">>

(* what a read returns where no device is mapped *)
OpenBus == [magic |-> 2147483647, version |-> 2147483647, type |-> 2147483647]

Window(addr) == IF addr \in DOMAIN MmioWindows THEN MmioWindows[addr] ELSE OpenBus

(* str::find on s[from..]: the offset of the first occurrence of pat, or -1 *)
Find(s, from, pat) ==
  LET hits == {j \in 0 .. Len(s) - from - Len(pat) :
                 SubSeq(s, from + j + 1, from + j + Len(pat)) = pat}
  IN IF hits = {} THEN -1 ELSE Min(hits)

(***************************************************************************)
(* The loop over 0..=idx: find the key phrase in the rest of the line and *)
(* move keyidx just past it.  The offset of the size field, or -1 when    *)
(* there are fewer than idx + 1 phrases.                                   *)
(***************************************************************************)
\* Mutant: keyidx set to the offset inside the rest, not advanced by it.
KeyIdxNotAdvanced(s, idx) ==
  LET step(keyidx, i) ==
        IF keyidx < 0 THEN keyidx
        ELSE LET j == Find(s, keyidx, <<KEY>>)
             IN IF j < 0 THEN -1 ELSE j + KeyLen
  IN FoldLeft(step, 0, [i \in 1 .. idx + 1 |-> i])

KeyIdx(s, idx) ==
  LET step(keyidx, i) ==
        IF keyidx < 0 THEN keyidx
        ELSE LET j == Find(s, keyidx, <<KEY>>)
             IN IF j < 0 THEN -1 ELSE keyidx + j + KeyLen
  IN FoldLeft(step, 0, [i \in 1 .. idx + 1 |-> i])

DecChars == {"0", "1", "2", "3", "4", "5", "6", "7", "8", "9"}
HexDigits == <<"0", "1", "2", "3", "4", "5", "6", "7", "8", "9",
               "a", "b", "c", "d", "e", "f">>
HexUpper == <<"A", "B", "C", "D", "E", "F">>

\* the value of a digit character ('a'..'f' and 'A'..'F' in base 16)
DigitValue(c) ==
  IF c \in {HexUpper[i] : i \in 1 .. 6}
  THEN 9 + CHOOSE i \in 1 .. 6 : HexUpper[i] = c
  ELSE (CHOOSE i \in 1 .. 16 : HexDigits[i] = c) - 1

(* the three match loops: a character either folds in or is skipped *)
SizeStep(v, c) ==
  CASE c \in DecChars   -> v * 10 + DigitValue(c)
    [] c \in {"k", "K"} -> v * 1024
    [] c \in {"m", "M"} -> v * 1024 * 1024
    [] OTHER            -> v

AddrStep(v, c) ==
  IF c \in {HexDigits[i] : i \in 1 .. 16} \cup {HexUpper[i] : i \in 1 .. 6}
  THEN v * 16 + DigitValue(c) ELSE v

(* irq_val is a u8.  The digits only ever raise it, so its arithmetic    *)
(* overflows (a debug-build panic) exactly when the unbounded value       *)
(* passes 255, and the release build's wrapping steps leave it mod 256.  *)
IrqStep(v, c) == IF c \in DecChars THEN v * 10 + DigitValue(c) ELSE v

NotFound == [ok |-> FALSE, why |-> "virtio-mmio is not found", addr |-> 0, size |-> 0, irq |-> 0,
             irq_overflows |-> FALSE]
Invalid == [NotFound EXCEPT !.why = "Invalid virtio-mmio device"]

(***************************************************************************)
(* VirtioMMIO::new(cmdline, idx): the key loop, then "@0x", ':' and the   *)
(* next ' ' (or the end) searched from the field before, the three digit  *)
(* loops, and the magic and version read from the window.                 *)
(***************************************************************************)
MmioNew(s, idx) ==
  LET size_idx == KeyIdx(s, idx)
      a == Find(s, size_idx, AtHex)
      addr_idx == size_idx + a + Len(AtHex)
      q == Find(s, addr_idx, <<":">>)
      irq_idx == addr_idx + q + 1
      t == Find(s, irq_idx, <<" ">>)
      tail_idx == IF t < 0 THEN Len(s) ELSE irq_idx + t
      size == FoldLeft(SizeStep, 0, SubSeq(s, size_idx + 1, addr_idx - Len(AtHex)))
      addr == FoldLeft(AddrStep, 0, SubSeq(s, addr_idx + 1, irq_idx - 1))
      irq == FoldLeft(IrqStep, 0, SubSeq(s, irq_idx + 1, tail_idx))
  IN CASE size_idx < 0 \/ a < 0 \/ q < 0            -> NotFound
       [] Window(addr).magic # 1953655158             -> Invalid   \* 0x74726976
       [] Window(addr).version # 2                    -> Invalid
       [] OTHER -> [ok |-> TRUE, why |-> "", addr |-> addr, size |-> size, irq |-> irq % 256,
                    irq_overflows |-> irq > 255]

(* VirtioDevice::get_type: the device id register *)
GetType(m) == Window(m.addr).type

-----------------------------------------------------------------------------
(***************************************************************************)
(* The reference: a command line of the spec's form (section 6), written  *)
(* out from its entries.  An entry is [dev |-> d], a device entry with     *)
(* d.size, d.unit ("", "k", "K", "m" or "M"), d.addr and d.irq, or         *)
(* [other |-> chars], any other parameter.                                 *)
(***************************************************************************)
RECURSIVE Digits(_, _)
Digits(n, base) ==
  IF n < base THEN <<HexDigits[n + 1]>>
  ELSE Digits(n \div base, base) \o <<HexDigits[(n % base) + 1]>>

UnitChars(u) == IF u = "" THEN <<>> ELSE <<u>>

UnitFactor(u) == CASE u = ""         -> 1
                   [] u \in {"k", "K"} -> 1024
                   [] OTHER            -> 1024 * 1024

DeviceParam(d) ==
  <<KEY>> \o Digits(d.size, 10) \o UnitChars(d.unit) \o AtHex \o Digits(d.addr, 16)
          \o <<":">> \o Digits(d.irq, 10)

Param(e) == IF "dev" \in DOMAIN e THEN DeviceParam(e.dev) ELSE e.other

\* the parameters separated by single spaces
CmdlineOf(entries) ==
  IF entries = <<>> THEN <<>>
  ELSE FoldLeft(LAMBDA acc, e : acc \o <<" ">> \o Param(e), Param(Head(entries)), Tail(entries))

DevicesOf(entries) ==
  LET devs == SelectSeq(entries, LAMBDA e : "dev" \in DOMAIN e)
  IN [k \in DOMAIN devs |-> devs[k].dev]

\* what VirtioMMIO::new should make of device entry d
Expected(d) == [ok |-> TRUE, why |-> "", addr |-> d.addr,
                size |-> d.size * UnitFactor(d.unit), irq |-> d.irq, irq_overflows |-> FALSE]

=============================================================================
