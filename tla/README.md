# A TLA+ development of the USB device and its simulated host

This directory holds a formal model of the `usbdev` full-speed USB device
(`src/rtl/usbdev`) and of the USB host that the simulations attach to it
(`src/dv/cip_infra/usbdpi`): TLA+ modules, TLC configurations that check them on
small instances, and TLAPS proofs that hold for all values of the constants.

- [The system](#the-system): components, state, operations, interaction
- [What is hard about it](#what-is-hard-about-it)
- [The modules](#the-modules): how state and actions correspond to the code
- [The runs](#the-runs): questions, bounds, fairness, results
- [The proofs](#the-proofs)
- [Only model-checked, and not modelled](#only-model-checked-and-not-modelled)
- [Plan](#plan)

To check a module: `tlc -workers 2 -config MCUsbInPath_safe.cfg MCUsbInPath`; to
check proofs: `tlapm UsbInPathProofs.tla`.

## The system

```
   driver software ── registers, packet memory (32 buffers of 64 bytes)
        │
   usbdev.sv  registers, AV-SETUP / AV-OUT / RX FIFOs, rxenable_out, configin,
        │     in_sent, stalls, interrupts, event counters
   usbdev_usbif.sv   bytes <-> words of packet memory, FIFO selection, frame, address
        │
   usb_fs_nb_pe.sv   usb_fs_nb_out_pe.sv   OUT and SETUP transactions
        │            usb_fs_nb_in_pe.sv    IN transactions
        │            usb_fs_rx.sv usb_fs_tx.sv usb_fs_tx_mux.sv   bits and packets
   usbdev_linkstate.sv  reset, suspend, resume      usbdev_aon_wake.sv  wake while asleep
        │
   ═════╪═══════════ USB ═══════════════
        │
   usbdpi.c   bits on the bus, frame timer, control transfers
   usb_monitor.c  finds packets      usbdpi_test.c  order of the test steps
   usbdpi_stream.c  streaming test   usb_transfer.c  pool of transfer descriptors
```

| Component | State | Operations | Correct when |
|---|---|---|---|
| OUT/SETUP reception (`usb_fs_nb_out_pe`, part of `usbdev_usbif`, `usbdev`) | transaction FSM, latched endpoint, SETUP flags, toggles, two Available Buffer FIFOs, RX FIFO, `rxenable_out`, `out_stall` | token, data byte, end of data, decision, delayed pop, bus reset; software provides buffers, reads and resets FIFOs, writes enables, stalls and toggles | a buffer has one owner; a packet lies whole in the buffer reported for it; SETUP always finds an RX entry; a `set_nak_out` endpoint takes one packet per enable |
| IN transmission (`usb_fs_nb_in_pe`, rest of `usbdev_usbif`, `usbdev`) | transaction FSM, captured `configin`, toggles, `rdy`/`sending`/`pend`, `in_sent`, `in_stall` | token, response, bytes, end, handshake or timeout, cancellation by SETUP and bus reset; software arms, retracts, handles `in_sent` and `pend` | the packet armed is the packet sent; it is reported only when the host took it; repetitions can be told; cancelled packets are not sent |
| Link state (`usbdev_linkstate`) | link, reset and inactivity FSMs, missed-SOF counter | line state changes, SOF, microsecond ticks | every reset, suspend and resume is seen once |
| Wake (`usbdev_aon_wake`) | detector FSM, filters, sticky events, held pull-up | suspend request, acknowledgement, ticks of the always-on clock | the pull-up does not glitch at a hand-over; a sleeping device is woken |
| Event counters (`usbdev_counter`) | count, previous event inputs, enables | event, software reset | each event counted once, saturating |
| Registers, memory, interrupts (`usbdev`, `usbdev_reg_top`) | registers, packet memory | bus accesses | |
| DPI host: bus and frames (`usbdpi.c`) | `state`, `hostSt`, `bus_state`, frame timer, retries, `sending`, `recving` | one call per bit in each direction | |
| DPI host: control transfers, test sequence (`usbdpi.c`, `usbdpi_test.c`) | `step`, `hostSt`, `bus_state`, last PID, attempts, address and toggles | one state of `hostSt` per call; end of frame; bus reset; disconnection | a step is passed only when the device has heard it; attempts are counted; the test the device asks for is run |
| DPI host: streaming test (`usbdpi_stream.c`) and descriptor pool (`usb_transfer.c`) | per stream: list of received packets, two LFSRs, toggles, refusals left; free list | poll, check, accept or refuse, scramble, send back | every packet of the device comes back once, in order; descriptors are neither shared nor lost |
| Monitor, CRC, bit-level receiver and transmitter | | | packets are the unit of the models |
| UVM environment, vendored primitives and top level | | | stimulus, third-party code |

Interaction: the packet engines call nothing; they exchange one-cycle strobes with
`usbdev_usbif` and the registers (`in_ep_xact_end`, `setup_received`, `rx_wvalid`,
`set_sending`). Software sees registers only, between any two cycles. The host
model is a polled coroutine: each bit, `usbdpi_host_to_device` runs one step of
`hostSt`, and `usbdpi_device_to_host` feeds the monitor, which calls back with bytes
and packet ends that change `bus_state` under the waiting step.

## What is hard about it

`PROJECT.json` lists every hazard at its line. They come in five groups:

1. *Software and hardware own the same thing by turns*: buffers (three FIFOs and
   software), `rxenable_out`, `configin`. Register accesses fall between any two
   cycles of a transaction.
2. *One fact is kept twice*: the kind of the OUT transaction in three places, the
   properties of the IN packet in `configin` and in the captured copy, the read
   address cleared only in one FSM state.
3. *The bus loses things*: tokens, data, handshakes; the repetition protocol rests on two
   toggles that may disagree for a while.
4. *Priorities*: bus reset, SETUP, end of transaction and software in the same cycle.
5. *The host feigns errors*: it refuses packets it received and must restore toggle,
   LFSR, list and descriptor, on top of two round robins and a frame timer.

## The modules

### `UsbOutPath` - reception

One step is one event of the 48 MHz domain that changes state, or one register access.

| In the model | In the code |
|---|---|
| `xact`, `current`, `xactSetup`, `nakXact` | `out_xact_state`, `out_ep_current_o`, `current_xact_setup_q`, `nak_out_transaction` |
| `rxEndp`, `epSetup`, `toggle` | endpoint of the latest token, `out_ep_setup_o`, `data_toggle_q` |
| `av`, `pop`, `rx`, `rxen`, `stall` | Available Buffer FIFOs and their pending `rready`, RX FIFO, `rxenable_out`, `out_stall` |
| `TokenEnd` ... `DecideIso`, `LinkReset` | every transition of the FSM, and a bus reset, which clears toggles and state but neither FIFOs nor `epSetup` |
| `PopBuffer` | the pop one cycle after the write (`usbdev_usbif.sv:247`) |
| `SwProvide`, `SwReadRx`, `SwReset...`, `SwWrite...` | one register access each |
| `homes`, `torn`, `taken`, `resp` | history: buffers the bytes of this packet went to; FIFO reset under the packet; OUT packets since software enabled reception; last handshake |

Bytes are abstracted to the buffer they are written to. `TokenEnd("OTHER", e)` is any
packet that is not a token for this device and direction; it leaves its endpoint number behind, as
`rx_endp_i` does. Bus and software actions wait for `pop = "none"`: the pop takes
one cycle, and no packet event can follow within it. A software access in that very
cycle has the outcome of one just after it.

### `UsbInPath` - transmission

| In the model | In the code |
|---|---|
| `state`, `cur`, `hasData`, `addr`, `toggle` | `in_xact_state`, `in_ep_current_o`, `has_data_q`, `in_ep_get_addr_o`, `data_toggle_q` |
| `capt` | `in_buf_q`, `in_size_q` |
| `cfg`, `rdy`, `sending`, `pend`, `sent`, `stall` | `configin`, `in_sent`, `in_stall` |
| `RxEnd` with `InToken`, `SetupToken`, `AckReceived`, `OtherEnd` | the end of each kind of host packet in each state |
| `Respond`, `TxByte`, `NoMoreData`, `TxEnd`, `AckTimeout` | the other FSM transitions |
| `Cancel` | `clear_rdybit`, `update_pend`, `sending` on SETUP or bus reset |
| `SetupAccepted`, `SetupRefused` | what the OUT side makes of the SETUP packet |
| `pkt`, `await`, `ackDue`, `hTog`, `hLast`, `hSetup` | the host (external): its packet, what it waits for, its toggles, the packet it accepted last, the SETUP it has to repeat |
| `memory`, `next`, `armed`, `retract` | the driver (external): buffer contents, the buffer given to each endpoint, retraction in progress |

A packet is a serial number, and so is each of its bytes: the model can tell a packet that
was sent whole from one mixed of two. `addr` has the width of the code (it wraps at
`MaxPkt`), because that width and the place where it is cleared decide when a
packet is at its end.

### `UsbdpiStream` - the host's streaming test

| In the model | In the code |
|---|---|
| `hostSt`, `bus`, `lastPid`, `numTries`, `streamIn`, `streamOut` | fields of `usbdpi_ctx_t`; the per-type bus states are merged, since a stream only compares those of its own type |
| `free`, `sending`, `recving`, `received` | the free list, `ctx->sending`, `ctx->recving`, the list of each stream |
| `tst`, `dpi`, `dpiRewind` | the LFSRs, as the number of packets they have been advanced over |
| `StreamOut`, `WaitAck`, `StreamIn`, `WaitPkt`, `AckIfData`, `Error` | the cases of `streams_service` |
| `NextFrame`, `FrameEndsEarly`, `TooLate` | the frame timer of `usbdpi_host_to_device` and the 800-bit-time test |
| `Configure`, `Disconnect`, `Exhausted` | `streams_init` after enumeration, `bus_reset` after a lost pull-up, `assert(tr)` without a free descriptor |
| `Reply...` | the monitor callback, `usbdpi_data_callback` |
| `dev`, `devIn`, `devInTog`, `devOutTog`, `got` | the device (external): what it owes, its packets and toggles, what it has accepted back |
| `mode` | the test configuration and the kind of device, chosen at the start and never changed |

Two things the code does are allowed and not judged: with enough packets in the lists the pool runs
out (`Exhausted`; `usbdpi.h:147` says so), and streams initialised again after a
restart forget the descriptors still in their lists (`NoLeak` exempts `Configure`).

### `UsbLink` - link state

One step is one cycle of the 48 MHz clock, in which the FSMs move in lockstep, or a
change of the line, of VBUS or of `usbctrl.enable`.

| In the model | In the code |
|---|---|
| `link`, `rst`, `rstTimer`, `inac`, `inacTimer` | `link_state_q`, `link_rst_state_q`, `link_rst_timer_q`, `link_inac_state_q`, `link_inac_timer_q` |
| `sofTimer`, `sofCount` | `missing_sof_timer`, `missed_sof_count` (`host_lost_o` is its third bit) |
| `se0`, `idle`, `sense` | `see_se0`, `rx_idle_det_i`, `see_pwr_sense`: the filtered inputs |
| `line`, `vbus`, `connect` | the inputs: line, `usb_sense_i`, `usbctrl.enable` |
| `Cycle(tick, sof, j, jump)` | one clock edge, with `us_tick_i`, `sof_detected_i`, `rx_j_det_i`, `resume_link_active_i` |
| `late` | no filter takes as long as a microsecond: a tick waits for the filters to have caught up since the last |
| `low`, `quiet`, `sofAge`, `told`, `drove` | history: durations in ticks, the last event given to software, whether the host has driven SE0 |

`Filters` lets each filtered input follow its input in any cycle, so that all orders
in which the three can notice one change of the line are covered. During a bus
reset the receiver samples no bits, so that `idle` keeps its value. The line of the model
keeps J long enough for `filter_se0` after an SE0, as USB does; with noise shorter than
this filter, but long enough for the receiver, `idle` could stay true for a whole
bus reset.

### `UsbWake` - wake detection

One step is a cycle of the always-on clock (`Tick`), a change of the bus or of VBUS, or an
access of software, whose clock is some 200 times faster.

| In the model | In the code |
|---|---|
| `active`, `reported` (and `WakeReq`) | `wake_detect_active_q`; `bus_not_idle_q`, `bus_reset_q`, `sense_lost_q` (and `wake_req_q`, which is set with the first and cleared with all) |
| `puSync`, `aonPullup`, `Pullup` | `u_pullup_en_cdc`, `aon_dppullup_en_q`, what the host sees |
| `past`, `lasting` | one record of the samples for the three filters (two flops of synchroniser and up to four samples), and their outputs |
| `control` | the write to `wake_control` in its synchroniser; the next write waits for it |
| `shown`, `relay` | `wake_events` as software reads it: relayed one change at a time |
| `sw`, `want` | software and power manager (external): request, sleep when `module_active` is seen, wake with registers reset, restore the pull-up unless the host has gone, acknowledge, wait |

`UsbWake` shares `usb_sense_i` and `connect_en_i` with `UsbLink`, but a tick of it is 240
cycles of the other; the two are not composed. Whether the link was suspended before the
request does not matter to the properties, so that software may ask at any time.

### `UsbdpiHost` - control transfers and test sequence

| In the model | In the code |
|---|---|
| `step`, `hostSt`, `bus`, `lastpid`, `tries`, `addr`, `out`, `test` | `step`, `hostSt`, `bus_state`, `lastrxpid`, `num_tries`, `dev_address`, `ep_out[].next_data`, `test_number` |
| `NoDataTransfer`, `SetDeviceAddress`, `SetDeviceConfiguration`, `GetDescriptor`, `GetTestConfig`, `ReadBaud`, `SetBaud`, `TryTX`, `PollRX`, `TestUnimplEp` | the functions of these names; one disjunct per `HS_` state |
| `Sends` | `transfer_setup`, `transfer_token`, `transfer_data_*`, `transfer_status`, and `transfer_send` |
| `NextStep`, `Retry`, `FrameEnd`, `SeqNext` | the frame timer, `num_tries`, `usbdpi_test_seq_next` |
| `BusReset`, `ResetStep`, `Attach`, `Detach` | `bus_reset`, `STEP_BUS_RESET`, the pull-up and the recovery time |
| `EndOfPacket`, `Collect`, `PidSeen` | the end of packet in `usbdpi_device_to_host`, `usbdpi_data_callback`, the PID that `usb_monitor` stores, the host's own included |
| `failed` | the assertion that ended the simulation |
| `air`, `device`, `asks`, `dAddr`, `dOut`, `dReq`, `dData` | the packet in flight and the device (external) |

Time. The host acts only in `ST_IDLE`, and every wait of it is at least 24 bit times, while a
device answers within 18 or not at all; a transfer takes far less than the 12000 bit
times of a frame. So a wait ends when the answer is in or will not come
(`air = NoPkt`), and a frame ends when the host has finished (`NEXTFRAME`) or can no longer
go on (`Stuck`). Two kinds of device: a prompt one, which answers every request of the
enumeration in time, and any other, which may refuse, stall or stay silent whenever it is
asked. No answer comes late, and no packet is damaged: the simulation's bus does neither.

`SET_TEST_STATUS` and `BUS_DISCONNECT`, which are the successor of no step, are left out. The steps after
`ENDPT_UNIMPL_SETUP` are modelled with their packets and successors, although the sequence does not reach
them: `ENDPT_UNIMPL_SETUP` names itself as its successor (`usbdpi_test.c:184`, run `host_rest`). So a
correction there is a change of one entry of `SmokeNext`. `STREAM_SERVICE` is where `UsbdpiStream` begins.

### `UsbChannel` - what an IN endpoint promises

The abstract specification: a channel that holds one packet, which the host takes at most once and
in order, and which is reported only when taken. `UsbInPath` instantiates it
with `offered` as the packet in the armed buffer, `taken` as the packet the host accepted last and
`reported` as the last one in `in_sent`, for the endpoints with handshakes; `IsChannel` says that
every step of the device, the driver, the host and the lossy bus is a step of the
channel or none.

### MC modules and proof modules

`MCUsbOutPath`, `MCUsbInPath`, `MCUsbdpiStream`, `MCUsbLink` and `MCUsbdpiHost` give constants
their values and state symmetries; `UsbWake` needs only numbers. `UsbOutPathProofs`, `UsbInPathProofs`,
`UsbdpiStreamProofs`, `UsbLinkProofs`, `UsbdpiHostProofs`, `UsbWakeProofs` and `UsbChannelProofs` hold
the theorems, each of its own module; `UsbInOrderProofs` builds on `UsbInPathProofs` and has those about
the order of IN packets.

The components share no variable: reception and transmission meet in
`setup_received` (an action of each model: `DecideSetup` there, `SetupAccepted` or
`SetupRefused` here) and in the bus reset; the host model has a device of its own, the
most general one that keeps the protocol. `UsbdpiHost` ends where
`UsbdpiStream` begins, and hands over only `dev_address` and reset toggles.

## The runs

| Run | Question | Bounds |
|---|---|---|
| `out_safe` | Do buffers keep one owner and packets stay whole, is SETUP always given room, and does `set_nak_out` hold, under all interleavings of bus and software? | a control endpoint with `set_nak_out`, an isochronous one (`out_iso` is also set on the control endpoint, which the hardware ignores), 3 buffers, FIFOs of 1, 2 and 2 |
| `in_safe` | Do packets stay whole and marked, and is the endpoint a channel, on a lossy bus with SETUP, reset, suspension, retraction and stall? | a control and an isochronous endpoint, 2 buffers, 2 packets, 2 bytes at most |
| `in_live` | Is every armed packet collected or cancelled in the end? | one control endpoint, 2 packets, lossy |
| `stream_safe` | Do packets go round once and in order, are descriptors neither shared nor lost, does the host raise no false alarm? | 2 streams, 5 descriptors, 2 to 4 packets per stream, one refusal per packet, one restart; five kinds of test |
| `stream_live` | Does every packet come back, whatever is refused? | 2 streams, 4 descriptors, 2 packets each |
| `link_safe` | Are resets, suspensions and resumptions told apart by duration, and is none lost to another event of its cycle? | timeouts of 2 (reset), 3 (suspension) and 2 (SOF) ticks instead of 3, 3000 and 1005 |
| `wake_safe` | Does the host see the device vanish or appear at a hand-over, and is every sleeping device woken? | 3 changes of bus or VBUS, a round trip of 3 ticks for `wake_events` |
| `host_safe` | Does the host pass a step only when the device has heard it, count attempts, keep its toggles, end every transfer, and reach the test a prompt device asks for? | `USBDPI_MAX_TRIES` as in the code (3), one disconnection at any moment, both kinds of device, four tests |
| `in_window`, `stream_rewind`, `link_attach`, `host_rest` | Do four statements of comments and documents hold? They do not. | as small as shows it |

Why the bounds are enough. *OUT*: FIFO depth 2 has an empty, a partial and a full
FIFO, with the last RX entry distinct from the first; the AV-SETUP FIFO of 1 has its full and empty state only one
step apart; three buffers is fewer than the entries, so that every FIFO starves as
well. *IN*: packet lengths 1 and 2 with a greatest length of 2 have the short packet
(where the address is not back at zero by itself) and the full one (where it is); a
second packet is what a first can be confused with, since toggles have two values. *Host*: two
streams are what round robin can go wrong on; five descriptors are enough
for two lists, the one in flight and the one being received, and few enough to run
out. The five kinds of test are: packets that go round; the same with an isochronous
stream; packets made up by the host (`retrieve` off); packets collected but
not returned (`send` off); a device that leaves packets unanswered or stalls. *Link*: the
suspension timeout is longer than the reset timeout, as in the code, and both are longer than the
filters take; further ticks of waiting would repeat the same states.

*Wake*: three changes are power, an event that may lie on either side of a
hand-over, and its end or the loss of power; four changes (1.9 million states) and round trips of
up to 5 ticks were checked once and showed nothing else. *Host*: the bound on attempts is the code's
own; one disconnection can fall into any state of the first run through the sequence, and all
state but the descriptor pool starts anew with it.

`SYMMETRY` is used for buffers and descriptors, which are only compared and stored, and never
in a liveness run. `CHECK_DEADLOCK FALSE` is set in `stream_safe` and
`stream_rewind`, where an assertion of the host (`failed`) ends the simulation, and in `host_safe`,
where one does as well, or the streams begin. Every other run
checks deadlock as well.

Fairness. *`in_live`*: the device's own steps are weakly fair, because the FSM leaves
its states by clock and timers. The host polls each endpoint and repeats a
lost SETUP again and again (a host must), and not every repetition is lost: those
steps are strongly fair, one condition per packet of a transaction, so that nothing
is assumed about an order of losses. Software handles `in_sent` and `pend` (weak)
and does not keep the endpoint stalled. *`stream_live`*: host steps are weakly fair (they
run on each bit); the poll is strongly fair, because a frame has room for more than ten
transactions and `TooLate` cannot always come first; per stream, the device
supplies and accepts again and again. Nothing is assumed about the order in which
streams are served: that is what the run checks. *`host_safe`*: the host's steps are weakly fair
(they run on each bit), the device's answer comes or is missing, its software sets the
address it was given and the pull-up; what the device answers is free. *`wake_safe`*: the clock runs,
and the power manager obeys a wake request that stays. Software is not assumed to do anything.

### What does not hold

- `in_window`: an IN token within the response time of the previous IN packet
  starts a transaction without the read address being cleared, so that a short packet is
  repeated as an empty one. The testplan (`src/doc/testplan.md:990`) lists an IN token in
  this place among the cases in which "that packet is collected". A host that waits for
  the device's response time does not meet it, and `in_safe` shows that all is well then
  (`EarlyToken = FALSE`).
- `stream_rewind`: the host keeps `dpi_rewind_lfsr` "in the event of a delivery
  failure", but when the frame ends before the handshake of an OUT packet was seen, it starts
  over without rewinding.
- `link_attach`: the environment of the testbench describes `LinkPowered` as "waiting for
  bus reset" and `LinkActiveNoSOF` as "active after the bus reset"
  (`src/dv/env/usbdev_env_pkg.sv:26`, `:29`). The reset FSM also runs while the link is
  disconnected, and the line of a detached device is low. When the pull-up
  raises the line, the end of that SE0 is taken for the end of a bus reset, some cycles after the link became
  powered: it goes on to `LinkActiveNoSOF` by itself. It also means that
  software that wants `resume_link_active`, which only `LinkPowered` heeds, has to meet those few cycles.
- `host_rest`: the smoke test does not come to its "Final resting state", `STEP_IDLE_END`
  (`usbdpi_test.c:196`), even with a prompt device. `ENDPT_UNIMPL_SETUP` is followed by itself, so
  that OUT and IN to an unimplemented endpoint, which `usbdpi.c:1328` says are tested too, the SETUP for
  another device and the idle frames never come, although lines 186 to 194 name their successors.
  `PromptReachesTest` claims no more than that the first of these tests is reached.
  A second defect hides behind this one: no handler takes the steps `IDLE_START` to
  `IDLE_3` to `HS_NEXTFRAME`, so each of their frames counts as a failed attempt. In a copy of the model with
  the successor corrected, TLC finds `PromptNeverFails` violated at the third idle frame; with both
  corrected, all properties of `host_safe` and `SmokeComesToRest` hold. `PromptNeverFails` and its theorem
  therefore speak of the sequence as it is.

Six more disagreements have no run of their own:

- `src/doc/testplan.md:1123`: when VBUS is lost during sleep the pull-up "shall be dropped by the
  usbdev_aon_wake module to protect against spurious reconnection". The module holds it
  until the acknowledgement (`usbdev_aon_wake.sv:186`). In the model, VBUS lost within three ticks before the
  detector becomes active even turns the pull-up on again, which is why `PullupAsWanted` exempts that time.
- `usbdev_aon_wake.sv:71` speaks of detectors held in reset while the module is idle; the filters
  are reset with the domain only, and an event just before the hand-over is reported after it.
- `usb_fs_nb_out_pe.sv:224`: "SETUP transactions are also ignored for non-control EPs." The FSM does
  ignore them; the data toggle of the endpoint is cleared nevertheless (line 348, which `TokenEnd` follows), so
  that a DATA1 that comes next is acknowledged and dropped.
- `usbdpi_test.c:123`, "At this point we have discovered which test we are to perform", and
  `usbdpi.c:1203`, where a missing response in the data stage leads to a retry: a silent data stage of
  `GET_TEST_CONFIG` ends in `HS_NEXTFRAME` instead (line 713), and the smoke test, number 0, is performed.
- `usbdpi.h:282` has the toggle of endpoint zero reset after a SETUP; the code resets it in
  `bus_reset` only, and sends the constant DATA1 where it matters.
- `usbdpi.c:1072` expects a STALL for OUT and IN packets to an unimplemented endpoint; the device does not
  answer them (`usb_fs_nb_in_pe.sv:210`), and the host does not look.

## The proofs

Every safety property that a passing run checks is also a theorem, which TLAPS proves for every value of the
constants that satisfies the assumptions named in the modules. The assumptions say no more than
that subsets are subsets, that `NoBuf`, `NoEp` and `NoTr` are none of the others, that depths, timeouts and
limits are numbers, positive where zero makes no sense, and that the suspension timeout is longer than one
microsecond (it is 3000).

Each proof module states its invariant as a conjunction of named parts, has one lemma per part, one step per
action under it, and ends with the temporal step. TLC has checked the strengthened invariants on the
instances of the runs before.

**`UsbOutPathProofs`**: `TypeCorrect`, `SetupCoherentHolds`, `RxReserveHolds`,
`SetupOnlyToControlHolds`, `PacketWholeHolds`, `OnePacketPerEnableHolds`, `OneOwnerHolds`. The invariant is a chain.
`SetupCoherent` is inductive with types alone; it makes "the FIFO chosen now" the same
throughout a packet. `RxReserve` needs it, because the
reserve depends on the SETUP flag of the current endpoint. `PacketWhole` needs that the
buffers in `homes` are the head of that FIFO until the packet is reported, and so that
nothing is popped meanwhile (`PopsReported`) and that an endpoint found full once keeps `nakXact`.
`OneOwner` counts the places of a buffer. The proof says the same without numbers (`Owned`: no two
places hold the same buffer, and some place holds each), shows that each of the five moves of a buffer
keeps it so, and that a buffer in one place is counted once. It needs `PopSound`: what is about to be popped is there.

**`UsbInPathProofs`**: `TypeCorrect`, `InFlightMarkedHolds`, `PacketWholeHolds`. What makes the invariant
inductive is `OneAtATime` (who may transmit in which state), `ReadyIntact` (a ready packet lies in
its buffer, with its size), `CollectedIntact` (so does the captured one, and
its endpoint shows `sending`) and `RetractHeld` (software that is retracting still holds the
buffer). `PacketWholeHolds` needs in addition that the address is zero when a
packet begins, which holds unless `EarlyToken`: the hypothesis of the theorem is exactly what
the run `in_window` violates.

**`UsbInOrderProofs`**: `ToggleInSyncHolds`, `NoneStaleHolds`, `IsChannelHolds`, `ReportedWasTaken`,
`TakenNeverBack`, with or without `EarlyToken`. The heart of the invariant is `Synced`: but for a SETUP
that is owed, either both sides have the same toggle and what is armed the host has not taken (`InSync`), or the device is
one behind and what is armed the host has taken (`Ahead`). Only then does an ACK mean the packet the device
believes it means (`AckTrue`), and only then is a repetition recognised as one. `SetupTrue` says what a SETUP
under way keeps out, `Fresh` that what is armed is newer than what was cancelled. From this
follows the refinement `IsChannel`, one lemma per step of the channel: what the host takes is what is
offered, what is reported is what it took last. The two last theorems are those of `UsbChannelProofs`, brought back through the
refinement.

**`UsbChannelProofs`**: `InOrderHolds` and `NeverBackHolds`, about every channel: with the types and
`OfferedBelow` (nothing offered is newer than the newest packet), `InOrder` is inductive.

**`UsbdpiStreamProofs`**: `TypeCorrect`, which includes that the source of an OUT packet is
in its list while the handshake is awaited (`assert(rx)` in `streams_service` cannot fail),
`PoolExclusiveHolds`, the action property `NoLeakHolds`, `ReceivedInOrderHolds`, `LoopbackInOrderHolds`,
`IsoInOrderHolds` and `NoFalseAlarmHolds`. `PoolExclusive` is inductive with types:
each step moves a descriptor between two places. The others rest on the conversation: `Turns` says who may
speak in which state of the host, `Answers` what a device that answers has left to be waited for. With them,
`Looped` describes each stream as at rest, as sent and not taken, or as taken and not yet known to be, with
the toggles, the LFSR, its copy for rewinding and the oldest listed packet in each case; `Rising` is what is left
of it for an isochronous stream, where nothing is acknowledged.

**`UsbLinkProofs`**: `TypeCorrect`, `SilenceHeededHolds`, `ResetByDurationHolds`, `ResumeToldHolds`,
`HostLostTimelyHolds`, `SuspendedWhenSilentHolds`, `ResetMeansDefaultHolds`, `NoDirectExitHolds`.
`TimersTrue` and `SofCounted` tie the timers to the time that has passed. That no event is lost to
another one of its cycle rests on `Overlap` and `NoSilenceInReset`: SE0 and idle are both seen only while one
filter is late, so there is no more than one tick in which both timers run, and
silence is never completed within a bus reset. This is where a suspension timeout of one tick would fail.

**`UsbdpiHostProofs`**: `TypeCorrect`, `TriesCountedHolds`, `SerialToggleAgreedHolds`,
`PromptNeverFailsHolds`, `SetupAnsweredHolds`. `Reached` confines the sequence to the steps it comes to. The host decides by the state of the bus and the PID of the last packet of
either party; `AirTrue`, `Answered` and `SerialTrue` say what these can be in each stage of a transfer, `Counted` relates the
host's count to the number of attempts. For `PromptNeverFails`, `PromptTrue` follows a prompt
device through each transfer, and `AddressFirst` keeps the two addresses together.

**`UsbWakeProofs`**: `TypeCorrect`, `PullupAsWantedHolds`, for any round trip between the domains. `Phases` says that what
software asks for is done or on its way, `ConnectWanted` that `connect_en` is what it wants but after a sleep without
power, and `Sampled` that the pull-up which the detector takes over was sampled after the
request was written, when nothing changes it but VBUS.

## Only model-checked, and not modelled

With TLC only: `AllCollected`, `AllReturned`, `WakesUp`, `PromptReachesTest` and `EveryTransferEnds`, because the
proof system does not reason about liveness under fairness. `PacketWhole` of the IN path is
proved for `EarlyToken = FALSE`, since it is false otherwise. The properties of the four runs that
find a violation are false of the code, and so have no theorem.

Not modelled: bits, CRCs and clock recovery (a damaged packet is one the receiver
reports as not valid); pins and pin flips; the generated register block and interrupts; packet
memory arbitration; the UVM environment and vendored code. In `UsbInPath`, writes of
the IN toggles by software. In `UsbOutPath`, packet contents. In
`UsbdpiStream`, the bytes of a packet: its position in the stream stands for them, and a
device of the model never sends wrong data. In `UsbdpiHost`, the bytes of descriptors, `setTestStatus`
(empty in the code), and the serialisation of a packet into bits (`ST_SYNC` to `ST_EOP`). In `UsbWake`, a
reset of the always-on domain, and a crossing between the domains that the loss of power
interrupts. `usbdev_counter` is left out: one counter and one cycle, on which nothing depends.
`IsChannel` is about endpoints with handshakes: of an isochronous one it would only say that
packets go out in order.

## Plan

The modules planned are done, but for the event counters, see above, and every safety property of the
passing runs is proved. What is left is to say more about what has been modelled:

1. An abstract specification of the loopback (`UsbdpiStream`): per stream a queue from the device to itself through
   the host, with a refinement as for `UsbChannel`. `Looped` is the invariant it needs.
2. The same for reception: what software reads from the RX FIFO is what the host sent, once and in the order
   sent, for endpoints with handshakes; `UsbOutPath` has no packet contents yet.
