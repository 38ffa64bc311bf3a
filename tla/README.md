# FASEC prototype: verification project

The repository is the Vivado/SDK project of the CERN FASEC card prototype: a
Zynq device whose programmable logic (PL) holds two I2C masters and a hardware
test core, and whose processor (PS) runs bare-metal test programs: one reads
FMC and FASEC EEPROMs over those masters, others exercise the peripherals of the
processor with the drivers of the board support package. This directory holds
TLA+ models of the logic that belongs to this project and of the two drivers
that share data structures with hardware, the TLC configurations that check
them, and theorems proved with TLAPS.

Paths below are relative to
`src/FASEC_prototype.srcs/sources_1/bd/system_design/ipshared/user.org/` unless
they start with `src/`. (`src/FASEC_prototype.ip_user_files` holds an identical
copy of the same VHDL.)

## 1. Inventory

| Component | Source | State | Operations | Hard behaviour |
|---|---|---|---|---|
| I2C test program | `src/FASEC_prototype.sdk/I2C_tests_FASEC/src/i2c_tests.c` | position in a bus procedure, poll counter, selected core and EEPROM | `OCI2C_init`, `readReg_24AA64`, `readReg_mcp23017`, `writeReg_mcp23017`, `waitTransfer`, `waitAck`, menu | polls a status bit of hardware that runs concurrently; gives up after a number of polls; aborts with a command it does not wait for |
| AXI-Lite to Wishbone bridge | `axi_wb_i2c_master_v2_3/src/axis_wbm_bridge.vhd` | handshake registers of one transaction, read data | AXI write, AXI read | read and write channels share one Wishbone port; address and data of a write come apart; responses wait for the master |
| I2C wrapper | `axi_wb_i2c_master_v2_3/src/axis_to_i2c_wbs_v1_0.vhd` | none | wires the bridge to the core, open-drain pads | - |
| I2C register file | `axi_wb_i2c_master_v2_3/src/i2c_master_top.vhd` | PRER, CTR, TXR, CR, status bits, interrupt | Wishbone write of each register, clearing of CR, status update, reset | the host and the core both write CR; the status lags the core by a clock |
| I2C byte controller | `axi_wb_i2c_master_v2_3/src/i2c_master_byte_ctrl.vhd` | state machine, shift register, bit counter | one transition per state, data path | strobes act a clock later than the state that raises them; CR may change under a command |
| I2C bit controller | `axi_wb_i2c_master_v2_3/src/i2c_master_bit_ctrl.vhd` | 18-state machine, clock divider, input filters, bus status | START, STOP, READ, WRITE in quarter phases, arbitration, clock stretching | the inputs are seen late, by a delay that depends on the prescale |
| AXI-Lite register slave | `libraries/xil_pvtmisc/axi4lite_slave.vhd` | handshake registers, 8 writable registers | write, read, error response, reset | address and data arrive independently; both directions at once; the decode of addresses out of range |
| Hardware test top | `fasec_hwtest_v2_2_1/FASEC_hwtest.srcs/sources_1/new/top_mod.vhd` | tick counter, LED shift register, button register | `p_tick`, `p_leds`, FMC read-back | a rotation that depends on a counter length modulo 8 |
| FMC sampling | `fasec_hwtest_v2_2_1/FASEC_hwtest.srcs/sources_1/new/general_fmc.vhd` | sampled pins | two register copies per clock | staleness of what a program reads |
| Utility package | `libraries/xil_pvtmisc/myPackage.vhd` | none | `clogb2`, `to_bcd`, `xadc_to_axi` | boundary values |
| Ethernet BD ring | `LIB/emacps_v3_2/src/xemacps_bdring.c`, used by `src/FASEC_prototype.sdk/Periph-Test_FASEC/src/xemacps_example_intr_dma.c` | five pointers, four counters, the descriptors in memory | `Create`, `Clone`, `Alloc`, `UnAlloc`, `ToHw`, `FromHwTx`, `FromHwRx`, `Free` | the controller reads and writes descriptors while a call walks through them; wrap-around |
| DMA driver | `LIB/dmaps_v2_1/src/xdmaps.c`, used by `src/FASEC_prototype.sdk/Periph-Test_FASEC/src/xdmaps_example_w_intr.c` | program buffers, the command of each channel | `Start`, `GenDmaProg`, `FreeDmaProg`, `ResetChannel`, `ResetManager`, done and fault service routines | interrupts between any two steps of a call; one set of debug registers; waits that time out |
| Interconnect | `axi_crossbar` (`src/FASEC_prototype.srcs/sources_1/bd/system_design/ipshared/xilinx.com/axi_crossbar_v2_1`), protocol converter, `processing_system7`, `proc_sys_reset`, `fifo_generator` (Xilinx, vendored) | the crossbar's grant and the channels its splitters have open | grant, open, close; W, B and R passed through | it carries one transaction at a time, but keeps no data |
| Other drivers, start-up code, templates | the rest of `src/FASEC_prototype.sdk` (Xilinx, vendored or generated) | - | - | - |

`LIB` is `src/FASEC_prototype.sdk/standalone_bsp_0/ps7_cortexa9_0/libsrc`.

How they interact. The program runs on the PS and reaches every register by a
load or a store (`Xil_In32`, `Xil_Out32`). The store becomes an AXI4-Lite
transaction, is granted by the crossbar when no other is under way, becomes a
Wishbone access in the bridge, and takes effect in the register file in the
clock in which the Wishbone acknowledge is high. The crossbar latches the
address; the data of a write and the handshakes of W, B and R go through it in
the same clock. The register file hands the command bits of CR to
the byte controller, which hands one bit command at a time to the bit
controller, which moves SCL and SDA by quarter phases of a prescaled clock.
Results come back the same way: `cmd_ack` of the bit controller, `cmd_ack` of
the byte controller (which clears CR), the status register, and the polling
loop of the program. Nothing uses the interrupt.

The hardware test core is a register bank behind an AXI4-Lite port of its own:
input registers filled from the FMC pins, registers to write, and, on another
clock and without a signal in common, the LEDs. The two drivers are called by
test programs; they share memory with the Ethernet controller (descriptors) and
with the DMA controller (programs), and the DMA driver is entered by interrupts
as well.

What makes each of them correct:

* program: a value it returns as data is the byte the slave sent; a refusal of
  the slave is reported; after an abort the bus is released; every call returns;
* bridge: one Wishbone access and one AXI response per AXI transaction, with the
  data of that transaction; no access touches another register;
* register file: a command is executed once, and TIP says when it is over;
* byte controller: a finished command has put exactly one frame on the bus; the
  bit on SDA does not change under a clock pulse;
* bit controller: each command produces its waveform, is acknowledged once,
  arbitration is lost only when it is;
* register slave: a request takes effect once and as a whole, whatever else is
  in progress, errors are answered and harmless, a reset leaves nothing behind;
* test top: the lamps light one after the other; what is read of a pin is what
  the pin was a moment ago;
* descriptor ring: no descriptor is lost, doubled or overtaken, and only whole
  packets that hardware has processed come back, all of them in the end;
* DMA driver: a program buffer has one owner and is neither freed nor written
  under the channel that runs it, success means that the data have been moved, and every command
  comes back.

## 2. Plan

The order followed the path of a command: first the core that every transfer
passes through, then the program on top of it, then the ways in (bridge) and
out (bit controller); after them the other core of the PL and the two drivers.

| Stage | Modules | State |
|---|---|---|
| 1. Core | `I2cBitPromise` (abstract bit controller) <- `I2cByteCtrl` <- `I2cMasterTop` <- `I2cCore` | modelled, checked, all its safety properties proved |
| 2. Program | `I2cDriver` (over `I2cMasterTop`) | modelled, checked, all its safety properties proved |
| 3. Bridge | `RegisterAccess` (abstract), `AxiWbBridge`, `BridgeSystem` (with the crossbar) | modelled, checked, the refinement proved; what it does not promise is a finding |
| 4. Bit controller | `I2cBitCtrl`, `I2cBitSystem` | modelled, checked, all its safety properties and the refinement of `I2cBitPromise` proved |
| 5. Hardware test core | `MyPackage`, `RegisterBank` (abstract), `Axi4LiteSlave`, `HwtestLeds`, `FasecHwtest` | modelled, checked, all its safety properties and the refinement proved |
| 6. Descriptor ring | `BdQueues` (abstract), `BdRing` | modelled, checked, consistency and, for a user that clears its descriptors, the refinement proved |
| 7. DMA driver | `DmaDriver` | modelled, checked, all its safety properties proved |
| 8. Composition | byte controller and bit controller in one module, shown to implement `I2cCore` (now argued from `KeepsPromise`, see Composition) | open |

The number of runs is kept small on purpose: a run asks all questions that one
instance can answer. Where a constant changed in a cfg shows something more, the
observations of section 5 name it.

## 3. Modules

`X <- Y` below means that `Y` extends `X`.

```
I2cBitPromise <- I2cByteCtrl <- I2cMasterTop <- I2cCore   <- MCI2cCore
      ^                                      <- I2cDriver <- MCI2cDriver
      | implements                           <- I2cMasterTop_proofs
I2cBitCtrl <- I2cBitSystem <- MCI2cBitSystem
                           <- I2cBitSystem_proofs

I2cCore,   I2cMasterTop_proofs <- I2cCore_proofs
I2cDriver, I2cMasterTop_proofs <- I2cDriver_proofs

RegisterAccess
      ^ implements
AxiWbBridge <- BridgeSystem <- MCBridgeSystem
                            <- BridgeSystem_proofs

RegisterBank
      ^ implements
MyPackage <- Axi4LiteSlave <- FasecHwtest <- MCFasecHwtest
             HwtestLeds    <-             <- FasecHwtest_proofs

BdQueues
      ^ implements
BdRing <- MCBdRing                DmaDriver <- MCDmaDriver
       <- BdRing_proofs                     <- DmaDriver_proofs
```

In every module of the PL one step is one rising edge of the clock, on which all clocked
processes move; a definition of a process bears the name the VHDL gives the
process or block (`gen_clken`, `p_stb_we`, `nxt_state_decoder`). Definitions
with a comment "Mutant" are plausible mistakes; no specification uses them.

**I2cBitPromise** is the bit controller as the byte controller sees it: it
accepts a command, takes stages 0 (phase a), 1 (phase b) and 2 (the phases after
it) for as many clocks as it likes, and raises `core_ack` for one clock. With
`MultiMaster`, arbitration may be lost in stage 2 of a WRITE and while no command
runs. `core_rxd` is free when SCL may rise.

**I2cByteCtrl** has the byte controller's state (`c_state`, `core_cmd`,
`core_txd`, `shift`, `ld`, `host_ack`, `ack_out`), shift register `sr` and
counter `dcnt`; one action per state of the machine, and `ByteShift` for the two
data path processes. A byte has `Width` bits instead of 8, a number the proofs
leave open.

**I2cMasterTop** adds CTR, TXR, CR, the status bits, the interrupt and the
Wishbone acknowledge. `Clock` is everything that moves without a host;
`NoWrite`, `WriteCR`, `WriteTXR`, `WriteCTR` and `WritePRER` are the exclusive
branches of `gen_regs` and `gen_cr`. `nbits` is a history variable: the bit
commands completed for the byte command in progress. The module ends with the
invariant of the core, `CoreInv`, which both modules that close it rely on.

**I2cCore** closes the core with a host that may write CR and TXR at any time, or
that is `polite`, a choice made once: it writes only after it has seen TIP = 0,
which is what `waitTransfer` does, and commands no STOP alone, which TIP does
not tell of. A reset comes at any time.

**I2cDriver** closes it with the program. `pc` is the program's next register
access, `proc` the procedure it is in, as a list with one entry per byte on the
bus, `k` the entry, `polls` the loop counter of `waitTransfer`, `result` what the
last procedure returned (with the error codes kept apart from data). Any number
of clocks (`Idle`) may pass between two accesses. `wire` is a history variable:
the bits, START and STOP that the bus has carried since the last command.
`readReg_mcp23017` and `writeReg_mcp23017` are part of the program although their
calls in `main` are commented out.

**AxiWbBridge** has one operator per clocked process of the bridge;
**BridgeSystem** puts it between the crossbar and registers that behave like the
register file's (acknowledge and read data a clock late). `Grant`, `Open` and
`Transfer` are the crossbar's arbiter and splitter: one transaction at a time,
its address latched, each of its channels closed by its own handshake. The
crossbar passes W, B and R straight through (`axi_crossbar_v2_1_crossbar_sasd.v:764-766`),
and so does the protocol converter, so the other end of `WriteData` is the
processor: WVALID may come with the address or any number of clocks later, WDATA
stay as long as WVALID waits for WREADY, and are anything before and after. BREADY
and RREADY come and go.
**RegisterAccess** is the abstract specification: request, effects, answer. A
read has one effect, between its start and its answer. A write has one effect if
its data are there with its address and hold until the Wishbone acknowledge, not
only until WREADY; the effect may come after the answer and comes before the
next request. Any other write is `loose`: it may change its own register any number of times
to any value, and no other. That is all this bridge promises of it; `handed`
is what WREADY has taken, for the property that finds it is not enough.

**I2cBitCtrl** has one operator per process of the bit controller, with
the phases of the state machine as a table; **I2cBitSystem** puts it on a bus
with slaves that stretch and answer as they like, a device that fights for SDA,
or a second master. `Command` and `Stage` are the refinement mapping to
`I2cBitPromise`.

**MyPackage** has the three functions of the library package. `clogb2` gives the
width of the slave's address decode; that it is wide enough, and that `to_bcd`
gives the four low decimal digits, are assumptions that TLC evaluates.

**Axi4LiteSlave** has one operator per clocked process of the slave and the
master in front of it, which raises address and data of a write in any order and
writes and reads at once. `loc_addr` is a VHDL variable with a range smaller than
the slice of the address it takes; a build may keep the value or cut it, which
is `cut`, chosen once. **RegisterBank** is the abstract bank: a request takes
effect as a whole, once, before its response. **HwtestLeds** is `p_tick` and
`p_leds`; `shown` remembers the lamp that was lit when the tick last rose.
**FasecHwtest** wires them as `top_mod.vhd` does and adds `general_fmc`. The LEDs
run on the processor's clock and share no signal with the slave, so a behaviour
shows one clock or the other (`clock`) instead of their product. `window` is the
history the freshness of a pin is judged by: its values from a clock before the
read began.

**BdRing** names a descriptor by its place; a descriptor is the bit hardware sets
(`own`: USED or NEW) and the one that ends a packet (`end`: LAST or EOF). The
calls of a ring exclude each other, as the driver demands; the walk of
`FromHwTx` and `FromHwRx` is one step per descriptor (`WalkSend`) or two
(`ReadStatus` and `ReadNew`, since the two words are read one after the other),
with hardware at work in between. `Send` and `Receive` are the controller, which
stops at a descriptor only for its bit: it fills free ones, too. `Start` and
`Prepare` are the user between calls, as the example is: it starts the device
when the first descriptor has been handed over, with as many others as it likes
still free, and it frees descriptors without clearing anything. `Prepare` gives a
descriptor its buffer. In a ring to send that rewrites the status word. In a ring to
receive `XEmacPs_BdSetAddressRx` leaves the NEW bit and the status as they are;
`Clears` is a user that clears them there, which the example is not: with it the
run `bd_ring` asks what the ring promises to a user who does, without it
`bd_example` shows what happens to the example. `Careful` is a user that asks for no more than
it has handed over, and for single packets to send: so does the example (its
limits are 1).
**BdQueues** is the promise: four queues of descriptors; what comes back
of a ring to receive is whole packets that hardware has processed since they
have their buffers.

**DmaDriver** has the calls of a program, with the two waits of `Exec_DMAGO` and
`Exec_DMAKILL` as steps of their own (`Write`, `Command`, `TimeOut`), and the two
service routines, atomic, between any two of them. A DMA program signals
(`Signal`, DMASEV) and ends (`End`, DMAEND) in two steps, and the done routine may run
between them. `EndsInTime` is an assumption about the pace: the next call for a
channel (generate, start, free) does not come before the DMAEND of a program that has been
served; the finding `dma_end` drops it. `DBGINST` are the debug
registers of the controller, `thread`, `running` and `manager` its channels and
its manager. `owed` and `lost` are history: commands whose data have not been
moved since they were started, and channels that will not finish for a reason
the program is told (a time-out, a manager fault, a reset).

### Composition

The core's models use `I2cBitPromise` instead of the bit controller, because the
divider multiplies the states by the prescale. What joins the two halves is
`KeepsPromise`: every step of `I2cBitSystem` is a step of `I2cBitPromise`, proved
for slaves alone and with a contender for SDA. In
the other direction `I2cBitSystem` assumes of the byte controller that a command
stays until its acknowledge, which is `CommandsHeld` of the core, proved, and
that the data bit is settled when the first phase ends, which is `DataIsHeld`,
proved too for the bits of a byte. The acknowledge bit follows CR in every clock,
so there it depends on the host: `AckHeld` is `BitsAreHeld`, proved for hosts that
wait for TIP = 0; for one that writes CR during the acknowledge it does not hold.

In the same way the core's models take a register access for one atomic step, in
a clock in which `iack_o` is '1'. Of the bridge that is `AccessesKeepToThemselves`,
for reads, and for writes whose data hold. That the processor's port offers data with
the address and keeps them for two more clocks is an assumption on
hardware that is not in the repository; `bridge_write` shows what happens otherwise.

## 4. Runs

| Run | Instance | Shows |
|---|---|---|
| `core_hosts` | any host or one that waits for TIP = 0, shared bus, fair clock | any host: `TypeOK`, `CmdHeld`, `WholeFrames`, `DataHeld`: whatever it writes and whenever, the controllers stay in step, and a finished command is exactly one frame. A polite one: `FrameAsCommanded`, `AckHeld`, `RunsOnce`, `TipFalls`, `TransferEnds`: then the frame is the one commanded, executed once, no bit changes while it is driven, TIP falls when it is over and always does |
| `driver_polls` | program alone on its bus, polls may run out | `DataIsGenuine`, `SuccessMeansDone`, `AnswerIsFresh`, `TakenWhenFinished`, `BusReleased`, `CallReturns` |
| `driver_lost` | next call right after a refused one | violation of `SuccessMeansDone` |
| `bridge` | behind the crossbar, write data with their address or later, held or not | `AccessesKeepToThemselves` (the refinement of `RegisterAccess`), `ResponsesStay`, `EveryAccessIsAnswered` |
| `bridge_write` | same | violation of `WritesLand` |
| `bit_promise` | slaves that stretch and answer, prescale 24 | `ArbitrationKept`, `PulsePerBit`, `KeepsPromise`, `ReadsTheLine`, `OnlyStartStopMoveSDA`, `CommandsEnd` |
| `hwtest` | two inputs, two registers, resets at any time; tick of eight clocks | `KeepsBank` (the refinement of `RegisterBank`), `EveryAccessIsAnswered`, `PinDataIsFresh`, `OneByOne` |
| `bd_ring` | four descriptors, a ring to send and a ring to receive, device started early, a user that clears what it receives into | `TypeOK`, `Consistent`, `KeepsQueues` (the refinement of `BdQueues`), `CallsReturn`, `PacketsComeBack` |
| `bd_example` | the same ring, a user that clears nothing, as the example | violation of `ReturnedProcessed` |
| `dma` | two channels, a command of the driver and one with its own program | `TypeOK`, `BuffersAreOwned`, `ProgramsStay`, `NotOverwritten`, `FaultHasCommand`, `SuccessMeansMoved`, `ComesBack` |
| `dma_fault` | same, fault interrupts at any time | violation of `ComesBack` |
| `dma_end` | same, calls also between the signal of a program and its end | violation of `NotOverwritten` |

### Bounds

* `Width = 2`. The counter still counts, reaches zero and wraps; every path
  through the byte controller is taken, with the counter at zero and not. The
  theorems hold for every width.
* One word for TXR besides the zeros of reset, and the command register values
  the program writes plus READ without STOP and START with READ. The command bits decide the path,
  the word only the data.
* `TIMEOUT = 2` polls when polls may run out (one poll that goes on and one that
  gives up), 1 where the question is not about the loop. Any number of clocks may
  pass between two polls, so a poll stands for any number of fruitless ones.
* Two addresses and two values for the bridge: enough for an access to hit the
  wrong register or carry the wrong value. `effects` counts to two: none, one, more.
* `clk_cnt = 24` instead of the program's 200. What matters is that the filters,
  which sample about four times per phase, follow in time; changing `clk_cnt` in
  `I2cBitSystem_promise.cfg` to 7, 9 to 13, 16 or 40 gives the same result. At 6 and below and at 8 `ArbitrationKept` fails: the
  controller has forgotten (`cmd_stop`) its STOP before the filters show it. At
  5 and below `PulsePerBit` fails too: a stretching slave is not noticed. The
  program is far from both.
* The bit controller is enabled and disabled only when idle and past its last
  STOP. Disabled in the clocks right after a STOP it takes its own STOP for a
  foreign one (disabling forgets `cmd_stop`); the program does so much later.

* `hwtest`: two inputs and two registers of one bit; the address of the pins, of
  a register, and one above the declared range of the decoder, which cut to that
  range is the register's. `c_FLASH = 8` instead of 40000000: both are multiples
  of eight, which is all the rotation depends on, as the theorem shows. One byte
  lane and one pin stand for all. `g_FMC = "EDA-02327"`: the repository's build
  has `"EDA-0NONE"` in both slots, whose words are zero.
* `bd_ring`: four descriptors, packets of one to send and of one to three to
  receive: every group wraps round the end of the ring in every position,
  packets lie across it, and hardware is up to a whole ring ahead of what it has
  been given. Five give the same result. Larger packets to send: see the observations.
* `dma`: two channels, so that one faults while the other is started; two
  buffers per channel as in the driver; two commands. `Patient`, `EndsInTime` and
  `FaultsWait` are assumptions about the program and the interrupts (see the findings
  and observations); the waits of a call may time out, that of the fault routine
  does not. Of the properties only `NotOverwritten` and `ComesBack` need `EndsInTime`.
  `Patient` leaves the example's restart of a command after a time-out out.

### Fairness

* `core_hosts`: while the host is polite, the clock runs (`WF` of `Tick`), an asked-for command is
  accepted in some clock (the divider enables one in every `clk_cnt + 1`), phases
  go on and end (slaves release SCL in the end). The host is given no
  fairness.
* `driver_polls`: the processor goes on and the bridge answers. Nothing is asked
  of the slave, which may stretch SCL for ever: the poll limit must suffice.
* `bridge`: the clock runs, the processor offers the data of a write in the end and
  does not lower BREADY or RREADY for ever while a response is offered.
* `bit_promise`: the clock runs, and again and again SCL is released.
* `hwtest`: both clocks run, and again and again there is a clock without reset
  in which the master raises what it has begun and takes its responses.
* `bd_ring`: the processor goes on with a walk, the controller sends what it is
  given (nothing obliges the world to send us packets), and the user
  starts the device and asks again and again (strong fairness, since other calls
  come between). `Alloc`, `ToHw`, `Free` and `Prepare` need none.
* `dma`: a call goes on, a DMA program signals or faults and comes to an end, interrupts are taken;
  strong fairness for the fault routine, which the run holds off while the debug
  registers are in use.

## 5. Findings

Each is shown by a run whose property is what the source says of itself; all
runs start in a state the program reaches.

* `driver_lost` - the aborts do not wait for their STOP. The next call (the menu
  reads twelve registers in a row) writes its first command while the STOP is
  executed, its end clears that command, TIP falls, and `waitTransfer` reports
  success. The comment at `i2c_master_top.vhd:252` promises that new commands
  are taken only when pending ones are finished; line 251 does not test that.
* `dma_fault` - `XDmaPs_FaultISR` kills the faulting threads through the debug
  registers. When it interrupts an `Exec_DMAGO` (of another channel) that has
  written its instruction (`xdmaps.c:1855-1857`) and not yet the command (line
  1876), the command executes the DMAKILL once more. `XDmaPs_Start` returns 0,
  its program never runs, and `DmaCmdToHw` stays set, so the channel is busy for
  ever. Lines 1442-1443 say of `XDmaPs_Start` that it passes the program to the
  controller to execute; the comment at lines 290 and 308 asks "Should we disable
  interrupt?". The passing run holds the fault interrupt off in that window.
* `bridge_write` - WREADY says that the data are accepted (`axis_wbm_bridge.vhd:79-80`),
  but what it accepts goes to `s_wdata` (line 260), which nobody reads; the Wishbone
  side is given `axi_wdata_i` itself (line 156) and writes a clock later. The strobe
  is raised by AWVALID alone (lines 201-203): before WVALID comes, the register is
  written with whatever WDATA carry, once or more often, and BVALID may answer before the
  data have been taken. Nothing between the processor and the bridge holds the data.
  The register is right only if they are there with the address and stay a clock
  after WREADY.
* `bd_example` - the example hands over one receive descriptor of a ring that
  its template has cleared and starts the device
  (`xemacps_example_intr_dma.c:422, 646-670, 725`). The controller goes on into the
  descriptors that are still free, whose buffer address is zero, and sets their NEW bits.
  `XEmacPs_BdSetAddressRx` keeps the bit (`xemacps_bd.h:211-214`); the descriptor, once
  handed over, comes back at once as filled (`xemacps_bdring.c:728`: "processed by hardware").
  The comment at lines 643-644 of the example means to allocate all of them.
* `dma_end` - a program signals its end (DMASEV, `xdmaps.c:1309`) one instruction before
  it ends (DMAEND, 1310). The done routine that runs at the signal frees the program's
  buffer and clears `DmaCmdToHw` (1918-1923), which is all that `XDmaPs_IsActive` looks
  at ("0: if the channel is idle", 1532-1533). The next `XDmaPs_Start` or
  `XDmaPs_GenDmaProg` takes the same buffer, the first that is free, and writes a
  program over the instruction the channel has still to fetch. (Its DMAGO is
  ignored when the channel has not stopped by then: `ComesBack` fails too.)

### Observations

What follows comes out of the models too, with a constant changed in the cfg that
is named. Most of it concerns uses of the code that this repository does not have, or
that its comments leave open; the lost abort and the restarted DMA command are the
programs' own.

I2C and bridge.

* The abort after the last poll can be lost. The transfer ends in the clock
  before the abort is written to CR; `cmd_ack` clears CR in the clock after it
  (`i2c_master_top.vhd:257-258`), while the byte controller is still masked by
  `host_ack`. The call returns 1, no STOP is sent, and the bus stays held until a later call
  sends one (`I2cDriver_polls.cfg` with an invariant like `BusReleased` for the result
  "timeout"). The abort needs a poll limit that does not outlast a transfer.
* A lost arbitration is taken for success (`I2cDriver_polls.cfg`, `MultiMaster =
  TRUE`: `SuccessMeansDone` fails). TIP falls then, the program never reads SR.AL,
  and RXACK is 0. It needs another device that holds SDA.
* Behind another interconnect that lets reads and writes overlap, a read would withdraw
  a write response: `axi_bvalid_o` is gated with a register that a read address
  clears (line 179). The crossbar of this design closes a transaction before it
  grants the next, so `ResponsesStay` holds.
* Reset sets SR.AL and SR.IF (`I2cBitSystem_promise.cfg`, `FromReset = TRUE`:
  `ArbitrationKept` fails): the capture registers reset to '0', the filters to
  '1'; the two zeros run through both filters and look like a STOP nobody asked
  for. The program looks at neither bit.
* A device that fights for SDA (`Others = "contender"`, `clk_cnt = 10`, without the
  fairness): `KeepsPromise` holds, with arbitration lost and recovered; the theorem
  `PromiseKeptContended` has it for every prescale from 10 on.
* Clock synchronisation with a second master (`Others = "master"`, `clk_cnt = 10`:
  `KeepsPromise` fails) enables the state machine in any
  clock; in the clock of an acknowledge the controller starts the finished command
  again.

Descriptor ring (`BdRing_ring.cfg`).

* `FromHwTx` does not stop at a descriptor that hardware has not finished, as the
  comment at `xemacps_bdring.c:672-677` says; it passes over it without counting
  it, also over `HwTail`, and counts a later one that bears the bit from its last
  use: descriptors come back that were not processed (`AllCnt = 3`,
  `Directions = {"SEND"}`, invariant `ReturnedProcessed`), also for a careful user. Its ring
  is full, the first packet sent, returned and still held by the user; asked for one
  more, the walk passes the two that are waiting, goes round to the first, whose USED
  is set, and the driver returns the one at `HwHead`, which hardware has not looked at.
  So of a ring to send `BdQueues` promises only that nothing is lost, doubled or overtaken.
* `FromHwTx` with packets of several descriptors (`MaxSend = 2`:
  `PacketsComeBack` fails): hardware marks the first only, and a
  limit may end within a packet; the rest of it is never found.
* `FromHwRx` does not cap its limit by `HwCnt` (as `FromHwTx` does), so
  it may return more than hardware has, and the unsigned `HwCnt` goes below zero
  (`Directions = {"RECV"}`, `AllCnt = 3`, `MaxRecv = 2`, `Careful = FALSE`: `TypeOK` fails).
* It reads the status word of a descriptor before its NEW bit (line 822); when
  hardware writes both in between, the end of frame is the one of the last use.
  Clearing the status with the NEW bit before the descriptor is handed over makes it
  harmless (`Clears`); without it `KeepsQueues` fails. `TypeOK` and
  `Consistent` hold all the same.
* `XEmacPs_BdRingCheck` compares addresses that `Create` does not write, so it
  reports a corrupted list for every ring of more than one descriptor; and
  `RunState` never becomes started, so the guards of `Clone` and `Check` on it do
  nothing. `ToHw` says (lines 542-543) that a set whose last descriptor lacks the
  last bit is rejected; it is not.

DMA driver.

* The example stops waiting and starts the same command on the next channel
  (`xdmaps_example_w_intr.c:260`). The buffer of the program that the command
  had is leaked, and the late done interrupt frees the one that the next channel
  runs (`DmaDriver_dma.cfg`, `Patient = FALSE`: `BuffersAreOwned` and
  `ProgramsStay` fail).
* A DMAKILL that times out leaves its channel faulting without a command; the next
  fault interrupt dereferences the null pointer (`TimesOut = {"call", "isr"}`:
  `FaultHasCommand` fails).
* A DMAGO that times out, a manager fault and `ResetChannel` leave `DmaCmdToHw` set:
  the channel is busy until the driver is initialised again. `ComesBack` counts
  these as told to the program (`lost`).
* Smaller: the test `Channel > XDMAPS_CHANNELS_PER_DEV` lets one channel too many
  pass; `DmaStatus` is zero, which is success, until it is written; the
  second wait of `Exec_DMAGO` polls once more than its test allows (`<=`, then
  `>=`), so an answer to the last polls counts as a time-out; a program that is
  held is not generated again when the command's BD changes.

Test core. `clogb2` is one too large for powers of two, so the slice of the
address is wider than the range of `loc_addr`. That changes which addresses
alias, not the promise of the bank: `KeepsBank` holds with the value kept and
with the value cut.

## 6. Proofs

Eight modules hold theorems. In all of them TLC has checked the inductive invariant
first.

`I2cMasterTop_proofs` has what both users of the core need: one clock, with or
without a write to a register, keeps `CoreInv`.

`I2cCore_proofs` proves, from `WidthAssumption`, `MultiMasterAssumption` and
`HostAssumption` only, thus for every byte width, every set of words and
commands, for both kinds of host, with other masters or not:

* `TypeCorrect`: `Spec => []TypeOK`. The counter needs the case in which it wraps.
* `Invariance`: `Spec => []CoreInv`, the inductive invariant, a conjunction of
  `CoreTypes`, `Handshake`, `Counting` and `WholeFrames`.
* `CommandsHeld` (`CmdHeld`) and `FramesAreWhole` (`WholeFrames`) follow from it.
* `DataIsHeld` (`DataHeld`) is proved as an action property from the same invariant.

Why `CmdHeld` and `WholeFrames` need more: `WholeFrames` speaks of the last clock
of a command only. To get there one must know in every clock how many bits have
been carried. That is `Counting`: in each state of the byte controller the bits
carried are a function of `dcnt` as it will be when the strobes have acted
(`Remaining`), plus one in the clock of an acknowledge. It holds only because
the two machines agree on the command in progress, the strobes follow an
acknowledge immediately, and no bit command runs then: `Handshake`. The proof
has one step per state of the byte controller (`CountingKept`, `HandshakeKept`)
and one per action of the specification.

And, without any further assumption, for the hosts that are `polite` (the set of commands
may hold a STOP alone: a polite host does not use it, since TIP does not cover it):

* `FramesAsCommanded` (`FrameAsCommanded`), `CommandsRunOnce` (`RunsOnce`),
  `TipFallsLate` (`TipFalls`) and `BitsAreHeld` (`AckHeld`), from `PoliteInv`. It adds
  to `CoreInv` what CR and TIP tell such a host (`Told`: a state machine that is not
  idle has its command in CR and TIP high, but for the one clock in which TIP lags
  behind CR and the bus acknowledge is down; a command that has run is gone) and
  that the state machine is where the command in CR leads it (`OnCourse`).

`I2cDriver_proofs` proves, for any width, addresses, data and number of polls, from
`Alone` (a lone master, whose next call begins when the core is at rest; polls may
run out all the same):

* `CommandsAreTaken` (`TakenWhenFinished`), `SuccessIsReal` (`SuccessMeansDone`),
  `AnswersAreFresh` (`AnswerIsFresh`), `DataGenuine` (`DataIsGenuine`) and
  `BusIsReleased` (`BusReleased`), all from `ProgramInv`. That says, for each place
  the program can be at and each state of the byte controller, what the bus has
  carried: a prefix of START, word, acknowledge and STOP whose length is given by
  `dcnt` and whose bits are those that have left the top of the shift register
  (`Sent`) or entered its bottom (`Received`). After a refusal a STOP is on its way
  (`Stopping`); after a poll limit nothing is claimed, since the race of the
  abort with the end of its transfer may have lost the STOP (see the observations). Without `Patient` the invariant does not hold:
  that is the finding `driver_lost`.

`BridgeSystem_proofs` proves, for any set of addresses and of values, from
`RegisterAssumption` only (both sets contain 0):

* `BridgeImplements` (`AccessesKeepToThemselves`): the bridge with its registers, behind
  the crossbar, implements `RegisterAccess`, initial states and every step. `BridgeInv`
  (`TransactionsInOrder`) says which of nine phases a transaction is in, for a write and for a
  read, and what the handshake registers and the crossbar's channels are in it. The order
  and the distance of address and data, and whether the data hold, are free; what the phases
  say of WDATA they say only of a write that is not loose. The last phase of a write,
  `WriteTail`, may outlast its response and overlap the next grant: the strobe is
  gone before the next address is on the bus. One lemma per phase shows to which phases a
  clock leads and which abstract step that is.
* `ResponsesKept` (`ResponsesStay`): no response that is waited for is withdrawn, from the
  same invariant.

`BdRing_proofs` proves, for a ring of any size, from `Careful`:

* `RingTypeCorrect` (`TypeOK`: no counter wraps below zero) and `RingConsistent`
  (`Consistent`: the four groups follow each other round the ring, and the counters
  add up). The invariant `RingInv` adds `WalkBounded`, that a walk returns no more
  than hardware has; this is what `FromHwRx` leaves to the user, and why `Careful`
  is assumed. Nothing is assumed of what hardware writes into the descriptors.
  `SeekInRing`, `SeekTwice` and `SeekBack` are the arithmetic of the wrap-around.
* `QueuesKept` (`KeepsQueues`), from `Careful` and `Clears`: ring, user and controller
  implement the four queues of
  `BdQueues`, the initial states and every step, for packets of any length, a
  device started at any time, and a controller that fills free descriptors. `QueueInv`
  (`QueueInvariance`), on top of `RingInv`, is about a ring to receive: of the descriptors
  that hardware holds or the user has prepared, the NEW bit tells exactly which have been
  processed, and the end-of-frame bit which of them end a packet (`Marked`, where `Clears` is
  used); those that have come back stay processed (`Settled`); and what a walk has seen so far is
  processed, with hardware going on between its two reads (`Gathered`). What hardware does to
  free descriptors is left open. `Offset`, `Span` and
  `Group` relate positions, sets and sequences of descriptors across the wrap.
  Of a user that does not clear its descriptors, as the example, only `RingTypeCorrect` and
  `RingConsistent` are proved; the rest is the finding `bd_example`.

`DmaDriver_proofs` proves, for any number of channels, buffers and commands, from
`Patient` (a command is left alone while a channel has it) and from the fault
routine not timing out:

* `DmaTypeCorrect`, `BuffersOwned` (`BuffersAreOwned`), `ProgramsKept`
  (`ProgramsStay`), `FaultingHasCommand` (`FaultHasCommand`), `SuccessIsMoved`
  (`SuccessMeansMoved`), all from `DmaInv`. That adds: a command is on one channel
  (`InUseOnce`), a channel that works does so for its command and runs its program
  (`ThreadsWork`), one that has signalled has moved its data (`SignalsTold`), and a
  DMAGO in the debug registers is the one of the call in progress (`DebugReady`).
  Neither `EndsInTime` nor `FaultsWait` is used: calls and service routines may come between the
  signal and the end of a program, and the race of `dma_fault` costs the completion of a
  command, not its safety. `Patient` is: nothing is proved of the example's restart of a command
  after a time-out.
* `NoneOverwritten` (`NotOverwritten`) needs `EndsInTime` as well, which is what the
  finding `dma_end` is about: from the same invariant, a channel between its signal and its
  end runs a buffer of its own, which the driver gives out again only when the channel is
  called for.

`FasecHwtest_proofs`:

* `LampsOneByOne` (`OneByOne`) for every `c_FLASH` that is a multiple of eight,
  the real 40000000 included. `OneBit` follows the bit through the tick: it is
  `v_cntr` places past where it was when the tick rose.
* `PinDataFresh` (`PinDataIsFresh`), for any addresses and values, for the build whose
  `g_FMC` is "EDA-02327". `FreshInv` says for each register between pin and RDATA which
  clocks of the pin it may hold.
* `BankKept` (`KeepsBank`): the slave implements `RegisterBank`, for any number of
  registers up to 256, with the decoder's value kept or cut, resets included. `BankInv`
  says that the two channels of a write are accepted in the same clock, whatever
  their order, and answered in the next. `AddressesFit` states the bound and that
  an address cut to the slice is one the bank knows too; the bound is there because
  what `clogb2` returns cannot be proved by induction here, so TLC evaluates it for
  each size (`EnoughAddressBits`). The real bank has 16 words.

`I2cBitSystem_proofs`:

* `LinesInvariance` and `SDAMovesForStartStop` (`OnlyStartStopMoveSDA`) for every
  prescale, from reset too, with slaves or a second master: the shape of the waveforms is
  a matter of the state machine (`Lines`) and needs no assumption on time.
* `KeepsArbitration` (`ArbitrationKept`), `BitsHavePulses` (`PulsePerBit`), `ReadsAreTrue`
  (`ReadsTheLine`) and `PromiseKept` (`KeepsPromise`), all from `BitInv`, under
  `Serves`: slaves only, the core out of reset, and `clk_cnt >= 10`. The controller
  acts on what it sees through capture registers, three samples, a majority and
  one more register. A level takes up to `2 * Period + 4` clocks to come through
  (`Period` is the distance of two samples), and a phase has `clk_cnt` clocks in which
  the divider does not wait; from 10 on the phase is the longer one (`Periods`).
  `Elapsed` is the age of the phase, `Aged` what a line of that age has shown, and
  `BitInv` says for every phase how old the levels of SCL and SDA are (`Scl`, `Free`,
  `Sda`). The fall and the rise of SCL need more than an age (`Falling`, `Rising`): the
  rise begins when a slave lets it, so what is known of it is the order in which the
  registers see it, and that the divider waits meanwhile; and the samples of SDA
  that belong to a high SCL are all of one level. TLC has checked `BitInv` with
  `clk_cnt` 10, 11, 13 and 24. At 7 and 9 the properties hold too, by the alignment of
  the samples with the phases; the theorems leave these two values out.
* `PromiseKeptContended` (`KeepsPromise`), under `Fights`: another device changes SDA, the
  core may come from reset, `clk_cnt >= 10`. `BitInv` is of no use here; what a lost
  arbitration could break is the handshake, when `gen_clken` resynchronises to a fall of
  SCL just in the clock of the acknowledge and the command begins again. A phase lasts
  longer than a fall from before it can take to show (`RiseShown`, `Elapsed`), and a fall
  that does show ends the phase itself and is past in the next clock (`NoLateFall`).

Only model-checked: everything about liveness (`TransferEnds`, `CallReturns`,
`EveryAccessIsAnswered`, `CommandsEnd`, `CallsReturn`, `PacketsComeBack`, `ComesBack`),
which these provers do not reach.

## 7. Not modelled, and what the models leave out

Not modelled:

* Vendored Xilinx IP of the PL but the crossbar, and the board support package apart from the two
  drivers: register accessors, self tests and initialisation of devices
  whose behaviour lies in hardware that is not in the repository, and polled
  examples that call them in sequence.
* `ps7_init*.c`: tables of register writes and a loop over them, generated, in
  several copies of some 13000 lines each; templates of the tool (`platform.c`,
  `helloworld.c`, memory and peripheral tests), the start-up code and the C library glue.
  Together these are by far the largest part of the C in the repository, so the
  models stand for a small share of all its lines, and for nearly all of the lines
  that have state of their own and run concurrently with something.

Left out of the models:

* Core: the value of PRER (a constant of the bit controller's model; written only
  while the core is disabled), the busy bit of SR, writes to addresses 5 to 7
  (the code marks them illegal), reads (they change nothing).
* `I2cBitPromise` is more generous than the bit controller: with
  `MultiMaster`, `core_rxd` may change in any clock and arbitration may be
  lost in any idle clock. What is shown for it is shown for the controller.
* Program: the texts, the choice of core and EEPROM, and the reading of the test
  core's registers. The two cores are independent; one is modelled.
* Bridge: reset; the error and retry inputs, which the wrapper ties to '0'; byte
  strobes, which the core ignores. Of the crossbar: the address decoder and its error slave,
  the choice of the master port, bursts (the port of the processor makes single transfers of
  register accesses) and the protocol converter, which passes W through as well.
* Test core: the table that names the pins, byte lanes other than one, and reset
  values of the registers other than zero. `to_bcd` and `xadc_to_axi` are used by
  no module of this core; they are defined and `to_bcd` is tested.
* Ring: calls the driver refuses (they change nothing), `Check` and the guards
  of `Clone` (see the observations), addresses and caches. `Create` and `Clone` are
  the initial state.
* DMA: `DmaCmdFromHw`, which is written and never read; the bodies of
  the handlers the program installs; the interrupt enables; the single instructions
  of a generated program. What a channel does that fetches a program written over (`dma_end`) is
  left out; it ends. A fault between DMASEV and DMAEND is left out, too.
