# TLA+ models of the Urchin kernel

Urchin is a single-CPU x86_64 kernel written in Rust. It drives a virtio-net NIC
and runs a small packet-processing graph (Ethernet, ARP, IPv4/ICMPv4, IPv6/ICMPv6)
over forwarding tables. A cooperative executor runs async tasks that sleep on
timer futures. Time comes from the KVM paravirtual clock (kvmclock).

This directory models those parts in TLA+. Every definition is translated from
the Rust source under `src/`; `PROJECT.json` maps each definition to the lines it
models.

## The system and how its parts interact

```
 virtio device (host)  ──used ring / IRQ──▶  VirtioNet::interrupt_handler
        ▲                                        │ fill_rx_queue, pop
        │ avail ring, kick                       ▼
  Virtqueue::push  ◀── Netif::xmit ◀── ethernet-in ─▶ arp-in / ipv4-in / ipv6-in
                                           │           └▶ icmpv4/6-in-local
                                           ▼
                                 FIB / adjacency / MAC tables (fib.rs)

 main loop: cli; Executor::run; sti; hlt      timer IRQ: check_timerfutures_from_interrupt
            └─ polls tasks ─▶ TimerFuture::new/poll ◀── completes, wakes ──┘

 host (KVM) ──rewrites pvclock struct──▶ get_monotonic_time ◀── get_calendar,
                                                             apic::init calibration,
                                                             TimerFuture::new, timer IRQ
```

- **One CPU.** IDT entries are interrupt gates, and `irq_handler` executes `cli`,
  so handlers never nest.
- **The executor.** The main loop runs the executor with interrupts disabled, then
  executes `sti` and `hlt` as two separate calls.
- **The real concurrency:**
  - the virtio device, which the host runs alongside the guest;
  - the host's updates of the kvmclock structure, which fall between any two
    instructions of the guest;
  - interrupts arriving between the main-loop steps where they are enabled.

## Modules

| Module | Models | Source |
|---|---|---|
| `Virtqueue` | Split virtqueue operators: `NewQueue`, `GetAvailFreeSize`, `PushMany` (k pushes, in closed form), `Pop`, and the device side (`DeviceFetch`, `DeviceComplete*`) | `src/devices/virtio.rs` |
| `VirtioNet` | The driver and the device as concurrent actors | `src/devices/virtio/net.rs` |
| `Fib` | Masks, `ipv4_mask_to_prefixlen`, the registration functions, `find_ipv4_fib`, `find_ipv6_fib` (RECURSIVE descent), adjacency permanence | `src/net/fib.rs`, `masked` in `ipv4.rs`/`ipv6.rs` |
| `FibCalls` | Any sequence of registration calls, checked against a reference longest-prefix match `LongestMatch` | `src/net/fib.rs` |
| `VirtioMmio` | `VirtioMMIO::new` (the command-line scan, the digit loops, the magic/version probe) and `get_type`, with a reference command line built from its entries | `src/devices/virtio/mmio.rs` |
| `IrqDispatch` | `IRQ_HANDLERS` (`set_handler`, `get_handler`, `irq_handler`), the IOAPIC redirection entries (`ioapic_init`, `enable_irq`, `ioapic_reg_low` with its u8 arithmetic) and `interrupt_handler`'s vector dispatch, as operators over a boot-time value | `src/interrupt.rs`, `src/arch/x86_64/apic.rs`, `src/lib.rs` |
| `VirtioNetInit` | `VirtioNet::new`'s register handshake over the `VirtioMMIO` accessors: reset, status bits by read-modify-write, the two-half feature words, `FEATURES_OK` and its assert, queue select/setup/activate, the kick, `DRIVER_OK`; the device answers as virtio 1.x says and records the status it saw at each step | `src/devices/virtio/net.rs`, `src/devices/virtio/mmio.rs` |
| `Pipeline` | Boot (both `setup_virtio_net` calls, each probing the command line through `VirtioMmio`), then one `EthernetIn` action per received batch, running the whole graph in code order | `src/lib.rs`, `src/net/*.rs`, `net.rs` |
| `Executor` | The executor, the timer futures, the timer interrupt and the run/sti/hlt main loop | `src/asynchronous/*.rs`, `src/interrupt.rs`, `src/lib.rs` |
| `Pvclock` | The host side of kvmclock: the TSC, the `PVClockVcpuTimeInfo` structure and its updates, `init_kvmclock`, and the TSC-to-ns conversion | `src/arch/x86_64/kvmclock.rs` |
| `ClockCallers` | The calls of `get_monotonic_time` in boot order: `get_calendar`, the APIC timer calibration and its assert, then the timer code | `src/lib.rs`, `src/arch/x86_64/apic.rs`, `kvmclock.rs` |
| `KvmclockAtomic` | Abstract spec: each call reads the structure in one atomic step | `kvmclock.rs` |
| `Kvmclock` | `get_monotonic_time` load by load with its version retry, shown to implement `KvmclockAtomic`; `get_calendar_from_epoch` | `kvmclock.rs` |
| `MC*` | Instances giving the constants concrete values | |

### VirtioNet

State:

- `rxq` and `txq`: the driver's queue records;
- `rxdev` and `txdev`: the device's `last_avail` and the descriptors it holds, each
  with a `live` flag that turns FALSE when the driver drops that buffer;
- `isr`, the handler position `hpc`, a packet bound `received`, and `panicked`.

Feature negotiation is kept as far as it changes behaviour: `EventIdxCap` is
the AND of the device's features with the driver's `0x30000000 | 0x1AEA3`. With
EVENT_IDX accepted, the device notifies only when the used index passes
`used_event`. `used_event` is the word after the avail ring, and nothing ever
writes it. `signalled` is QEMU's "notified once" flag.

Actions:

- **Device:** `DeviceRxFetch`, `DeviceRxComplete` (raises the interrupt, subject
  to EVENT_IDX),
  `DeviceTxFetch`, `DeviceTxComplete`.
- **Handler**, split where the device can observe a difference:
  - `InterruptAckFill`: `read_and_ack_isr` then `fill_rx_queue`;
  - `InterruptPopDeliver`: `pop`, delivery to the graph, and up to `MaxTxPerIrq`
    `xmit` calls; `pre_xmit` plus `xmit` push onto TX without a space check.

Buffers are not named. A slot is `Some`/`None`, and dropping a slot's `Arc` frees
the buffer the device may hold. In a debug build, u16 overflow in push, pop or
`get_avail_free_size` is a panic branch.

### Pipeline

- Frames are records of the header fields the stages read. Replies are the
  frames passed to `xmit`.
- Boot folds `SetupVirtioNet` over the indices lib.rs passes (0, then 1).
  Each call runs `MmioNew` on the command line, whose `Err` panics, as does
  the u8 irq overflow of a debug build. A device whose `get_type` is not 1 is
  skipped (`VirtioNet::new` returns `None`). Otherwise `NetNew` drives the
  device through the status handshake; its assert panics if the device
  refuses `FEATURES_OK`. Then `SetHandler` records the interface at its irq
  and unmasks that IOAPIC entry, which panics in a debug build past irq 119.
  Boot starts from `BootIrqs`: every entry masked by `ioapic_init`, then the
  timer on irq 0. Finally the interface is pushed
  on `ifaces` (NET_IFACES) with its index, and `SetupNetif` makes its
  registrations. The command line is the variable `cmdline`, fixed at boot.
- In `MmioNew` a command line is a sequence of one-character strings. The key
  phrase `virtio_mmio.device=` is the single symbol `KEY`, which is sound
  because the phrase cannot overlap itself. `Find` is `str::find`, and each
  loop of the code is a `FoldLeft` over the characters of its field.
- `EthernetIn` draws a batch from the device at NET_IFACES position k, only
  when `Serviced(k)` holds. That is, the pin its window is wired to delivers a
  vector whose `IRQ_HANDLERS` entry is that interface. Like
  `interrupt_handler`, it labels the frames with `NET_IFACES[id]`
  (`Receiver`), and it drops the batch when that position is empty.
- Each stage is a fold over its bin in code order. Each stage keeps its `continue`
  and early exits, its panics (debug `masked(0)`, and the out-of-bounds index in
  the NA branch), and the place where `ipv4-in`/`ipv6-in` call the ICMP node:
  inside the loop.

### Executor

State:

- `runq`: the task ArrayQueue;
- `registry`: `REGISTERED_TIMER_STATES`, by owning task;
- `timer[t]`: the task's current `SharedState`, with the expiry relative to the
  clock so that time can run forever;
- `fut`: whether the task is at the top of its loop;
- `pc`: `run`, `sti` or `hlt`;
- `since`: a ghost count of ticks since the task's timer last fired.

Actions:

- `ExecutorPoll`: one iteration of `Executor::run`, which creates and polls a new
  `TimerFuture` when the old one completed;
- `RunDone`;
- `Halt`;
- `TimerTick`: `check_timerfutures_from_interrupt`, allowed only at `sti`/`hlt`.
  A tick at `sti` leads into `hlt`.
- `OtherIrq`: any other interrupt ends `hlt`.

### Kvmclock

- **Host (`Pvclock`).** The host writes the structure in one step: a VM entry
  happens while the single vCPU is outside guest mode. Each write adds 2 to
  `version` and stamps `tsc_timestamp` and `system_time` with the current TSC.
  The scale is one ns per tick.
- **Callers (`ClockCallers`).** `pc` follows `lib.rs`:
  - `Boot` runs `init_kvmclock` and ignores its `Err`;
  - `ReadWallClock` is `get_calendar`'s copy;
  - then the calls at `Sites`: two in `get_calendar`, then `apic_before`, the
    busy wait `ApicWait`, `apic_after`, then `MaxCalls` timer readings;
  - `Return` appends the result and applies `assert!(after > before)`.
- **A call, load by load (`Kvmclock`).** `Kvmclock` declares its own
  `pc`, `nowtsc` and `returned` and takes the callers' actions from
  `Caller == INSTANCE ClockCallers`. `Caller!Rdtsc("old_version")` reads the TSC once.
  `ReadOldVersion` loads the version, the first field `read_volatile` copies.
  `ReadOldData` copies the rest and converts; a debug build panics when
  `nowtsc < tsc_timestamp`. `ReadNewVersion` retries on an odd or changed
  version, else returns through `Caller!Return`. `pc` takes the values
  `"old_version"`, `"old_data"` and `"new_version"` inside a call.
- **Refinement.** `Atomic == INSTANCE KvmclockAtomic WITH pc <- AbstractPc`
  maps the three inner positions of a call to the abstract `"read"`. Every
  other variable maps to itself. `oldv` and `old` are hidden. Only
  `ReadNewVersion`'s exiting step is a step of the abstract spec; every other
  step of a call is a stuttering step. `AtomicRead == Atomic!Spec` is checked
  as a PROPERTY, fairness included.
- **Calendar.** `CalendarFromDays` is the code's 400/100/4/1-year
  decomposition. `CalendarCorrect` compares it for every day 0..47541
  (1970-01-01 to 2100-03-01) with a reference successor-date function.

## Runs

| Run | Expect | Checks |
|---|---|---|
| `VirtioNetRelease` | pass | `RxRingBound` (outstanding ≤ ring size) and `RxRefilled` (a starved RX ring is eventually refilled), from boot, release build |
| `VirtioNetRxUaf` | violation | `RxNoDmaIntoFreed`: fill runs before pop and counts unpopped completions as free, so it replaces a buffer the device is writing |
| `VirtioNetRxWrap` | violation | `RxRingBound` at the u16 wrap: `get_avail_free_size` returns `used - avail` and the refill posts ~65 532 buffers |
| `VirtioNetTxOverrun` | violation | `TxRingBound`: xmit never checks space and TX is never popped (the spec expects `TransmitError`) |
| `FibCalls` | pass | `Ipv4LongestMatch` for non-zero masks, with /128 v6 routes and adjacencies registered alongside. The v6 lookup is not checked: with only /128 routes, which is all the kernel registers, it is an exact-match lookup. Adjacency permanence is not checked either: it would restate the guard in `register_*_adjacent` |
| `PipelineV4` | pass | `NetifsBindNthDevice` (over 15 command lines, the nth device entry binds to the nth interface, which the handler finds by its id), `ArpRepliesAnswerLocalRequests` (exactly one reply, in order, per request for a local address, from the MAC owning it, including a request on n1 for n0's address; the outgoing interface is not checked) and `EchoRepliesAnswerRequests`, on two interfaces, debug build; `IrqReachesEveryInterface` (each bound device's pin is unmasked with a vector that dispatches to that interface, and vector 48 still runs the timer); `VirtioInitOrder` (each device saw the status writes 0, 1, 3, 11, 15, the features at status 3 and only offered ones, and all three queues made ready at status 11) |
| `PipelineClaimOwn` | violation | `LocalRouteStaysLocal`: an ARP frame claiming our address replaces our Local /32 route |
| `PipelineNaPanic` | violation | `NoPanic`: a neighbor advertisement indexes `IPV6_FIB_INDEX[0xffffffff]` |
| `Executor` | pass | `TypeOK`; `TaskNeverLost` (each task is queued once, or waits on a registered timer holding its waker); `TasksRunForever`; `TimerLatencyBounded` (a timer fires Duration+1 or Duration+2 ticks after the last firing, never after Duration as spec scenario 6 says) |
| `VirtioNetEventIdx` | violation | `RxRefilled` with a device offering EVENT_IDX (QEMU's default): `used_event` is never written, so the RX interrupt fires once and then stops, and the ring starves |
| `Kvmclock` | pass | `AtomicRead` (`Atomic!Spec`: the versioned copy implements an atomic read, under every placement of host updates) and `CalendarCorrect`, release build, every feature set |
| `KvmclockMonotonic` | violation | `ApicCalibrationHolds`: a host update between the two calibration readings makes `after` ≤ `before`, because `system_time` is never added; `assert!(after > before)` fails |

Every property of a pass run has a mutant in `PROJECT.json`, a plausible bug in
the mapped code that TLC shows breaks it. Examples:

- free size computed with swapped operands;
- threshold test inverted;
- v4 descent probing unmasked;
- key index not advanced past the earlier parameters;
- ARP reply for any operation;
- ICMP on any route;
- waker not stored;
- timer not registered;
- expiry one tick late;
- only an odd version retried;
- the inner leap year dropped from the calendar;
- the IOAPIC entry index not doubled in `ioapic_reg_low`;
- the high feature half not shifted back into place.

The modelling also showed these, which no run checks:

- Pop then hands the graph the fresh, never-written buffer.
- A debug build panics on the u16 increment when the indices reach 65 536.
- `find_ipv6_fib` probes every table with the address masked to the starting
  prefix, so routes shorter than /128 never match. No code registers one.
- The ICMPv6 echo reply comes from the fixed source `[0x02;16]`.
- A debug build panics on any IPv4 FIB miss, because of `masked(0)`.
- In a release build, `masked(0)` shifts by 32 mod 32, so a default route
  (mask 0) would match only 0.0.0.0. No caller registers one.
- `ipv4-in` calls `icmpv4-in-local` inside its per-frame loop on the growing
  list. Two echo requests in one batch get three replies.
- `get_monotonic_time` reads the TSC once, before its retry loop. A host update
  after that read stamps a later `tsc_timestamp`: a debug build panics on the
  subtraction, and a release build wraps to a huge time. In a release build
  this also breaks the calibration assert.
- A command line with one device entry panics in the second
  `setup_virtio_net`, although the spec makes only the first device fatal.
- A non-net device listed before a net device shifts NET_IFACES. The net
  device's handler then looks up `NET_IFACES[id]` and hands its frames on as
  another interface's, or drops them. `NetifsBindNthDevice` fails.
- An ARP request on n1 for n0's address is answered on n0, the adjacency's
  interface, not on n1 where the request arrived. PipelineV4 includes that
  request. A version of `ArpRepliesAnswerLocalRequests` that requires the
  receiving interface, as spec scenario 1 describes, fails there.
- ARP from two MACs for one address leaves the /32 route on the second MAC and
  the permanent adjacency on the first.
- `set_handler` overwrites whatever handler the irq had. Two devices on one
  irq, or a device on irq 0, silently steal the line, and
  `IrqReachesEveryInterface` fails in the initial state.
- `VirtioNet::new` kicks queue 0 at status 11, before `DRIVER_OK`, which
  virtio 1.x forbids. An invariant that no notify comes before `DRIVER_OK` fails
  at boot. QEMU tolerates it.
- The driver never accepts `VIRTIO_F_VERSION_1` (bit 32), although virtio 1.x
  requires a driver to accept it when offered and the driver sets
  `FEATURES_OK`, a 1.x-only step. QEMU accepts this and treats the device as
  transitional.
- A device that needs a feature the driver never accepts, for example
  `ACCESS_PLATFORM`, refuses `FEATURES_OK`. The `assert_eq!` then panics the
  kernel, instead of failing only that device.
- With no clocksource feature, `init_kvmclock`'s `Err` is ignored and every
  reading is 0. The calibration assert then fails at every boot.

## Bounds and why they suffice

- **Virtqueue.**
  - **Ring size:** 4 instead of 256; the refill threshold is 1 instead of 32. The
    refill still needs free - 1 > threshold, and still leaves a slot unposted.
  - **Indices:** full u16 (`IdxMod = 65536`). `StartIdx` places a run next to the
    wrap.
  - **Traffic:** up to 6 packets and 1 reply per batch. This is enough to fill
    the ring, refill it, and reuse every slot.
- **Addresses:** 4 bits. A prefix index runs over 0..4 as it runs over 0..32 or
  0..128. Shifts are reduced mod the width as a release build does, and debug
  builds panic on a full-width shift.
  - 192.168.0.10/24 becomes 10 with prefix 2.
  - The peer becomes 9.
  - The v6 local, solicited-node and all-nodes addresses become 12, 13 and 14.
- **FibCalls:** two calls over two entries, two keys and every 4-bit address.
  This is enough to have a route shadow another.
- **Pipeline:** two batches of up to two frames from a set chosen per run.
  - Interfaces: `n0` and `n1`, as lib.rs configures them.
    - 192.168.10.10/24 becomes 6, with the peer 5.
    - n1's v6 link-local and solicited-node addresses are 11 and 15.
    - All-nodes (14) is shared, so the second registration is kept out by
      permanence, as in the code.
  - Windows: three virtio-net windows, at 0xd0, 0xd1 and 0xd2. They are
    wired to IOAPIC pins 5, 12 and 10 of 24 (QEMU's IOAPIC), as the device
    entries say.
    - Features: 0xd0 offers QEMU's default virtio-net set, including bits 32
      and 63. 0xd1 is as with `csum=off`, so it offers bit 32 but not bit 0.
      0xd2 is as with `event_idx=off,indirect_desc=off`.
    - The devices require no feature, and their queue sizes are 256, 256 and
      64, as QEMU's are.
    - The MC keeps the irqs distinct and below 120, so the booted state is the
      one the code is meant to reach. Shared lines and large irqs break
      `IrqReachesEveryInterface`, as listed above.
  - Command lines: `PipelineV4` takes 15. They place the three devices in
    three orders, two or three at a time. The other parameters come before,
    between and after the devices; they hold a digit, a `:` and an `@0x`.
    A size unit appears as none, `k` and `M`.
  - The violation runs use QEMU's line alone.
- **Executor:**
  - **Durations:** 5 s and 8 s become 2 and 3 ticks. They are distinct, so the two
    timers expire both apart and in the same tick.
  - **Ghost:** `since` is capped at `SinceCap`, which the correct code never
    reaches.
- **Kvmclock:**
  - The TSC is 4 bits and the fixed-point shift is 2. A wrapped delta is still
    larger than any real one.
  - The TSC runs to 5, with up to 3 host writes. That is enough for an update
    between any two loads of one call, between the two calibration readings,
    and inside a retry.
  - One timer reading after boot.
  - The calendar is checked for all 47 542 days it can print before 2100-03-01.
- **Deadlock:** the VirtioNet, FibCalls and Pipeline runs disable deadlock
  checking because the environment (packets, calls, batches) is bounded, and
  the Kvmclock runs disable it because the calls end. The
  Executor runs check it.

## Fairness

- **VirtioNet.**
  - The handler halves are weakly fair: the main loop re-enables interrupts on
    every iteration.
  - The device completes what it fetched and processes kicked TX.
  - Packet arrival is not fair.
- **Executor.**
  - The executor steps are weakly fair.
  - The timer tick is strongly fair. The APIC timer keeps interrupting, and a
    tick that arrives while interrupts are disabled stays pending in the IRR
    until the next `sti`. With weak fairness, a stream of other interrupts could
    keep the tick disabled at every `run` step.

- **Kvmclock.**
  - The guest's steps are weakly fair.
  - `Tick` is weakly fair, because the TSC is hardware and always counts.
    `ApicWait` needs it.
  - Host updates are not fair; KVM may never update again.

## Not modelled

- `read_and_ack_isr` is taken by `VirtioNet` as its effect on the device.
  `read_config` (the MAC) and the TSC-derived MAC are replaced by the
  configured MAC. Of the negotiated features only EVENT_IDX changes driver
  behaviour that is modelled; the other accepted bits choose buffer sizes.
- The local APIC register setup and the PV EOI of `ack_irq` are not modelled.
  Neither are the IDT and its entry stubs, which live outside `src/`.
  `unset_handler` and `disable_irq` have no caller. `IrqDispatch` keeps the
  low words of the redirection entries, because the code writes 0 to every
  high word.
- In `Executor`, time is a count of ticks. The kvmclock modules model the clock
  itself, but they are not composed with the executor.
- `get_calendar`'s wall-clock value and the printed date. The conversion is
  checked on its own.
- serial and console output, boot parameters and the MP table.
- buffer allocation: `Buffer::new` is assumed never to fail, as the code does.
- header encoding and checksums.
- the unused `RingBuffer` and `Task`.
- memory routines.
- The spinlock is not modelled. It no longer disables interrupts (those lines are
  commented out), so it is safe only because every lock taker runs with
  interrupts disabled. That holds in the main loop and in the handlers. The
  interrupt state during boot is set outside `src/`.
