# A verification of sof-intel-vfio

`sof-vfio/` is a user-space port of the kernel's SOF driver for Intel HD-audio
DSPs (Cannon Lake): one sequential C program that opens the PCI device through
VFIO, probes the controller, brings a firmware image into memory the device can
read, boots the DSP and lets its ROM fetch the image through the "code loader"
DMA stream.  This directory holds TLA+ specifications of that program, TLC
configurations that check them on small instances, and proofs checked by TLAPS.
Paths below are relative to `src/sof-vfio/`.

The program has one thread and no lock.  What makes it hard is the other side
of the register file: the DSP cores, the ROM, the power logic and the DMA engine
move between any two register accesses, most writes take effect late, several
owners share one 32-bit word that is updated by read-modify-write, every wait is
bounded and may be given up an instant too early, and a failed boot is retried
from whatever the failed attempt left behind.

## 1. Inventory

| component | code | state | operations |
|---|---|---|---|
| main program | `driver.c` | `struct dev` | `vfio_setup`, `hda_dsp_probe`, gating off, `hda_dsp_cl_boot_firmware`, gating on; no result is looked at |
| VFIO session | `sof-vfio.c` | container, group and device descriptors, region offsets, IOMMU mappings, eventfd | `vfio_setup`, `map_dma`, `unmap_dma`, `irq_enable` |
| register access | `tools.c`, `common.h` | none | read, write, `update_bits` (no write when nothing changes), `update_bits_forced` (the same), the poll macro |
| probe | `probe.c` | capability offsets, IRQ, interrupt enables, posbuf address, TCSEL/PGCTL/CGCTL | `hda_init`, `hda_dsp_ctrl_get_caps`, `hda_dsp_probe`, clock and power gating |
| stream pool | `probe.c` (`hda_dsp_stream_init`), `list.c`, `loader-helper.c` (`hda_dsp_stream_get`), `loader.c` (`get_stream_with_tag`) | the stream list, `opened`, IOVA windows | create, append, two searches |
| firmware image | `loader.c` (`load_fw_for_dma`) | the DMA buffer and its description | open, stat, mmap, map, read, describe, close |
| stream programming | `loader-helper.c` (`cl_stream_prepare`, `hda_dsp_stream_hw_params`, `hda_dsp_stream_spib_config`) | SD_CTL/SD_STS, the descriptor registers, PPCTL, position buffer, SPIB | stop, reset, program, enable |
| descriptor list | `loader-helper.c` (`hda_dsp_stream_setup_bdl`, `hda_setup_bdle`) | the list's page, `frags` | cut the buffer into entries |
| firmware boot | `loader.c` (`hda_dsp_cl_boot_firmware`, `cl_dsp_init`, core helpers, `cl_copy_fw`, `hda_dsp_stream_trigger`) | ADSPCS, IPC registers, ROM status, the stream's RUN bit, `running` | retry loop, power, reset, stall, handshake, download |
| debugging helpers | `sof-vfio.c` (`print_region`, `mmap_region`, `munmap_region`, `irq_disable`) | none | called by nothing, or print |
| prototypes | `../old/vfio_boot.c`, `vfio_api.c`, `vfio_irq.c`, `vfio_write.c` | what the kernel granted, eight bytes of configuration space | four programs of their own that `sof-vfio/` grew out of: the same kernel calls, one write to configuration space, one DMA start |

How they interact.  Everything is a call on `struct dev`: the probe fills the
stream list and the capability offsets; the boot takes a stream from the list,
loads the image (whose buffer and size are meant to describe the stream's
buffer), programs the stream and its descriptor list, then works on the cores.
The device is reached by pread/pwrite of its registers, and reaches the program
only through memory (descriptor lists, image, position buffer) mapped by
`map_dma`.  No callback or interrupt handler exists: the eventfd that
`irq_enable` installs is never read.

What each component has to get right:

- *boot*: only core 0 ever runs, and only with the handshake in place; power is
  taken only from stalled cores; each attempt starts from a safe state whatever
  the attempt before left; success means that the firmware runs; the DMA is
  quiet afterwards; the boot ends.
- *stream programming*: the descriptor is written only while the engine rests
  outside reset; no write-back restarts the engine; what was programmed is
  still there when the stream is handed on.
- *descriptor list*: entries tile the buffer, do not cross pages, stay inside
  the list's page, interrupt where they should.
- *stream pool*: windows do not overlap, every listed stream is usable, the boot
  works on the stream it opened.
- *image*: what is described is mapped, the bytes in place are the file's, and
  nothing leaks on the error paths.
- *session*: calls are made in an order the kernel accepts, so that one that is
  refused is refused for a reason of its own.
- *probe*: the capability walk ends on every list, the offsets mean what their
  slots say, and no interrupt is enabled while an old one is pending.
- *main*: though it looks at no result, the boot finds the controller as it was
  set up for it, the gating is restored whatever the boot did, and an access
  that fails damages no register but its own.

Every hazard found, at its line, is in `PROJECT.json` under `hazards`, with the
properties that watch over it, or a note saying why none does yet.

## 2. Plan

Done, in this order (the most important behaviour first):

1. `FirmwareBoot`, its abstract specification `BootContract` and the refinement;
   `FirmwareBootProofs`, `FirmwareBootProgress`.
2. `Bdl` (instance `MCBdl`); `BdlProofs`.
3. `StreamPool` (instance `MCStreamPool`); `StreamPoolProofs`.
4. `FwLoad`; `FwLoadProofs`.
5. `CodeLoader`; `CodeLoaderProofs`.
6. `CapWalk`, the walk through a capability list in device memory;
   `CapWalkProofs`.
7. `VfioSession`, the kernel calls of all five programs.
8. `Driver` (instance `MCDriver`): `main` as the composition of `VfioSession`,
   `CapWalk` and `BootContract` with the probe's and the gating's register
   accesses, each of which may fail; `DriverProofs`.

9. What the proofs add on top of the runs' properties: a measure for each
   program and each component (its steps are bounded), the walk's theorems and
   the boot's contract inside `Driver`, and what is true where a comment is not.

Left:

10. The composition of `CodeLoader` with `Bdl`, so that a list that was refused is
   seen not to reach the device, and accesses that fail inside `FirmwareBoot` and
   `CodeLoader` as they do in `Driver`.

## 3. Modules

### FirmwareBoot

`hda_dsp_cl_boot_firmware` from the prepared stream on: the retry loop,
`cl_dsp_init`, `hda_dsp_core_power_up/_run/_reset_leave/_reset_enter/
_stall_reset/_power_down/_reset_power_down/_is_enabled`, `cl_copy_fw`,
`cl_trigger` and `hda_dsp_stream_trigger`.

*State.*  `pc` is the host's next register access; `i`, `ret`, `caller` and
`running` are C variables (`caller` says which of two callers
`hda_dsp_core_stall_reset` returns to).  `spa`, `cpa`, `cstall`, `crst` are the
four fields of ADSPCS as sets of cores: what a read returns.  `spaReq` and
`crstReq` are what was last written: a field the program polls after writing may
lag.  `busy`, `done`, `romStatus`, `sdRun`, `sdSts`, `intctl` are register bits.
`rom` is the only variable of the device that no register shows: what core 0 is
really doing.  `reads` is the poll macro's count.  `stale` is a history variable:
which of the two signals a host waits for, DONE and the status INIT, showed already
when this attempt let core 0 go.

*Actions.*  One per register access of the host, in program order, and one per
move of the hardware.  `UpdateAdspcs` is `snd_sof_dsp_update_bits_unlocked`: the
word is made of what was *read*, so a field that lags is written back with its old
value, and nothing is written if the word has not changed.  `Poll` is a turn of
the poll macro's loop: it is left when the condition holds, and (if `Faulty`) with
a time-out when read number `PollReads` was in vain too.  `Stall`, `ResetEnter`,
`ResetEnterPoll` and `ResetEnterCheck` serve both callers, with `ResetMask` saying
for which cores.

*Initial states.*  Nothing in the program resets the device, and a successful run
ends with core 0 running the firmware, DONE set and the status at ENTERED.  `Init`
is the device as an earlier user, this program among them, may have left it: any
power, core 0 held or running, DONE, BUSY and every status (`FoundCores`,
`FoundSignals`, `FoundStream`).  What is assumed is that the fields have settled,
that the cores the boot never releases are held, and that a core 0 that runs was
let go as this program does it.  `FoundReset` is what a reset leaves: no DONE,
core 0 held.

*Abstractions.*  The read and the write of one `update_bits` are one step: the
hardware does not move between them.  `CSTALL` obeys at once, because
`hda_dsp_core_run` reads it back straight after writing it and calls the boot
failed otherwise.  The ROM status and DONE survive a reset: `loader.c` 80-84 reads
the status after having reset and powered down the cores, and nothing else clears
them; a ROM that starts over may wipe the status, never DONE.  `ret` keeps success
or error only.  The results that callers throw away (`cl_dsp_init`'s power-down,
`cl_trigger(START)`) are not kept.  `hda_dsp_ipc_int_disable` and the trigger's
other commands are never called.  `Prepare` is `cl_stream_prepare` with an
outcome; its inside is `CodeLoader`.

### BootContract

The boot as its caller sees it: prepare once, try at most `Attempts` times, load
only after a try that succeeded and once only, answer "ok" only after a load.
`FirmwareBoot!Contract` is the refinement mapping: the host's labels collapse to
four phases, and `outcome` is hidden until the return.

### Bdl

`hda_dsp_stream_setup_bdl` and `hda_setup_bdle`, a loop turn per step, then
the two registers (`CBL`, `LVI`) and the error test of
`hda_dsp_stream_hw_params`.  The sizes keep their C types: `bufsize` and
`period_bytes` are unsigned, `periods`, `remain` and `offset` are int, and
`ToInt` is the conversion.  The `-EINVAL` that `hda_setup_bdle` returns becomes
the next `offset`, as in the code (`Exceeded`).  The program itself calls this
with `period_bytes = 0` (one period); the other values check what the function
promises to any caller.  The module assumes a page-aligned `dmab->addr`, as the
program's is, that a full list's worth of pages does not overflow an int and
that the last valid index fits its register (256 entries of 4 KiB in the code).

### StreamPool

`hda_init` and `hda_dsp_stream_init` with every mapping and allocation able to
fail, `list_add_tail`, and the code loader's two searches,
`hda_dsp_stream_get` (for playback) and `get_stream_with_tag`.  A stream is
its index, tag, direction and the address of its list; `windows` is the sequence
of IOVA ranges `map_dma` has mapped.  The search by direction models how the C loop
really ends: on the last node, which is returned.  GCAP's counts are four-bit
fields, so the two tests against 16 never fail and are left out; `host_reserved`
is never set, so the branch that would loop on it cannot be taken; the capture
variant of the search is never called.

### FwLoad

`load_fw_for_dma` and the first lines of its caller.  A byte of the file is its
offset in the file, so that misplaced bytes are seen.  Each call may fail, a
`read` may return less than asked for.  The `struct firmware` passed by value is
two variables: `stripped`, the caller's, uninitialised, and `fw`, the copy.  Its
indeterminate size is a choice from `Indeterminate`.  A failed `mmap` is not
noticed by the code; the ioctl that follows cannot succeed on its result, so both
are one failure.

### CodeLoader

`cl_stream_prepare` after the search: `hda_dsp_stream_hw_params`, the SPIB
configuration and the error path, one step per register access, interleaved with
the stream's engine.  `runReq`/`run` and `srstReq`/`srst` are what was written
and what is read.  A reset clears every register of the stream, and a register
written during it keeps its reset value, so a step that comes too early is lost
in the model as it would be in the device.  SD_CTL and SD_STS share a 32-bit
word, status bits are cleared by writing 1: each update of a control bit writes
the status bits back that it has read.  `Init` is any state an earlier user may
have left: running, in reset, programmed, coupled or not, but with the status
bits clear, which the probe has just done.  Two address halves are one write;
the three interrupt enables, always changed together, are one bit.

### CapWalk

`hda_dsp_ctrl_get_caps`, a turn of its loop per step.  `mem` is what the device
has at the places a header may name, any list over them, cycles and links to
itself included; `llch` is where the list starts; either kind of read may fail
and is then 0.  `offsets` is `info->offsets[]`, which the code indexes by VFIO
region and by capability at once (`Slot`): the walk starts from slots that
`vfio_setup` has filled with the regions' offsets, or left 0; `known`, a history
variable, are the regions it has learned of.  The loop tests
the count before it increments it, behind the body: `MaxCaps + 2` headers are
read at most.  At offset 0 is GCAP, whose upper half is a version number and no
capability's.  `Unanswered` bounds the regions of which `vfio_setup` may have
learned nothing.  `Driver` can refuse any of the queries, so both the run and
`Driver`'s instance of the module allow all four: with fewer, the walk inside the
program would start from slots that the theorems do not cover.

### VfioSession

The kernel calls of `vfio_setup` and of the four prototypes, in program order
(`Script`): each is granted or refused, and an error is printed and forgotten,
except by the early exits of `load_fw_for_dma` and the tests around the
configuration space's accesses.  `Needs` is the one part that is not in the
source: what the kernel must have granted before it can grant a call.  A call
refused although its needs are met is a fault and counted; one that lacks
something is refused anyway.  `refused` is the history of the former ("regions"
for a query of a region), so that the properties can say which refusal excuses
what, instead of asking for none.  `Region` is a turn of the loop over the
regions, of which a refused one keeps offset 0.  `buf` and `config` are the eight
bytes that `vfio_write.c` reads, changes and writes back, as the byte it means and
the rest.

### Driver

A whole program from its first call to its exit.  It composes `VfioSession`
(extended), `CapWalk` (`W`), `BootContract` (`B`), which `FirmwareBoot`
implements, and what `StreamPool` says of discovery: how many streams are listed.
The rest is a list of register accesses, `todo`: `main(n)` is what the probe, the
gating, the boot and the gating again do on `n` listed streams, in program order,
and `PrepareStream` what the boot's preparation adds through the capabilities'
slots: the stream is decoupled, coupled for its format and decoupled again, and
SPIB is switched on if its slot is filled.  A preparation that fails has decoupled
the stream, or found none at all.

A register is a set of bits (`Own` names the program's, `Others` stands for the
rest).  An access names a slot of `info->offsets[]` and is carried out wherever
that slot leads (`LeadsByOffset`): *there*; *nowhere*, in a region without
registers; or *astray*, into the HDA region, when a region's query failed and
left 0.  `Done`, `Fails` and `Strays` are its outcomes: a failed read is 0, and
`update_bits` then writes back a word with nothing but its own bits.  `missed`
and `stray` are history variables, the registers not reached and the slots that
led astray.  PGCTL and TCSEL are one register, of which bit 2 belongs to both.
The boot prototype queries the region at each access (`LeadsByQuery`).

### Proof modules and instances

`FirmwareBootProofs`, `BdlProofs`, `StreamPoolProofs`, `FwLoadProofs`,
`CodeLoaderProofs`, `CapWalkProofs` and `DriverProofs` extend the module they are
about and `TLAPS`.  `FirmwareBootProgress` extends `FirmwareBootProofs` and shows
that the boot gets on; `DriverProofs` uses `CapWalkProofs` through `INSTANCE`.
`MCBdl`, `MCStreamPool` and `MCDriver` define the input sets of their runs.

## 4. Runs

| run | what it asks | instance (distinct states) |
|---|---|---|
| `boot` | safety, power discipline, contract, termination of the boot | 3 cores, 3 attempts, 2 reads a poll, faulty device found in any state (503 060) |
| `healthy_boot` | does the host ever wait for something the device will not do | same, healthy device found reset (7 424) |
| `bdl` | tiling, bounds, interrupts, registers of the descriptor list | pages of 4, 5 entries, 6-bit int, all sizes (46 492) |
| `stream_pool` | windows, usability, the right stream | all 256 values of GCAP's counts (25 344) |
| `fw_load` | leaks, description of the buffer | files of 0 to 5 bytes (1 218) |
| `code_loader` | programming at rest, no restart, all programmed | one stream, any state left by earlier users (1 128) |
| `cap_walk` | does the walk end, and what do the slots mean then | lists over 2 places, limit 2, any of the four slots unfilled (245 248) |
| `driver` | five programs from first call to exit: what is set up, restored, left alone | 5 capability lists, 2 streams, 2 faults, limit 1, 2 attempts (404 784) |
| `reply_cleared`, `unused_stream`, `loaded_is_file`, `plays_the_buffer` | statements of comments that the code breaks | the instances above |

What the passing runs check, and what it means:

- **boot.**  `SecondaryCoresHeld`: the other cores are powered up but never leave
  reset or the stall.  `Core0StartsPrepared`: core 0 fetches no instruction
  before the SSPs are slaves, and a ROM that has not replied always finds its
  purge request, also in a retry that overtakes the reset of the attempt before.
  `NoCoreRunsBetweenAttempts`, `PowerDownOnlyStalled`: cleaning up is best effort
  and its result ignored, and still nothing runs between attempts and no running
  core loses its power.  `DmaQuiet`, `BootedMeansEntered`: the stream's flag and
  the result mean what they say, although RUN may lag and the firmware may be
  entered just after the wait for it was given up.  `SignalsGenuine`: in every
  attempt the reply and the status that the host goes on with are those of the ROM
  it has just let go, or showed before it did so.  The exception is real: DONE is
  never cleared (finding 1), and neither is the status.  `ContractSpec`: the
  refinement, with the contract's fairness.  `Termination`: the boot ends on a
  device that never answers; its mutant mixes up the count and the condition of the
  poll's loop.  (`BootedMeansEntered` deserves a note: a stale INIT
  can start a download too early, but not cause a false "ok": the status is INIT
  when the download begins, so that an ENTERED read behind it has been written
  since, by a ROM that runs.)
- **healthy_boot.**  `HealthyBoot`: with a device that is found reset, finishes
  what it is asked to do, and waits longer than it needs, an attempt that begins
  ends in running firmware.  It fails as soon as a step of the handshake is
  missing, for instance the power of the other cores that core 0 waits for.
- **bdl.**  `BdlBounded`, `EntriesTile`, `CutsExactly`, `IocPerPeriod`.
  `CutsExactly` says for a size that is an int that the list has an entry exactly
  at 0, at each page and at each period, that LVI and CBL describe it, and that
  the function fails exactly when there is no room.  For a size of 2^31 and more
  the number of loop turns is negative or the period is: the list is empty, LVI
  is 0xffff and no error is reported; the run covers such sizes for the bounds
  and the tiling only.
- **stream_pool.**  `WindowsDisjoint`, `ListedUsable`, `BootsOnOwnStream`, for
  every count and with discovery stopping anywhere.
- **fw_load.**  `FileClosed`, `DmabDescribesMapping`.  The latter is weaker than
  one would wish on purpose: a failed `read` leaves with `ret` 0 (`loader.c`
  746), so a *successful* load need not have described its buffer.
- **code_loader.**  `ProgrammedAtRest`, `NeverRestarted`, `FormatWhileCoupled`,
  `PreparedRight`.
- **cap_walk.**  `FoundExactly`: after the walk, failed or not, a slot holds the
  offset of a capability of its own kind that was read; if none was, the offset of
  the VFIO region with its number, or 0 exactly if that region was refused; and with
  no failed read no header was skipped short of the limit.  A slot of 0 is the
  controller's own offset: where accesses through it go is `AccessesReach`'s matter.
  `WalkEnds`: on every list, since the count is the only thing that ends a cycle.
- **driver.**  `SetupComplete`: no program asks for something before what it
  needs; whatever is refused on the way, a call whose needs are granted fails only
  for a reason of its own.  `OneByteWritten`: the eight-byte read-modify-write
  changes one byte; the others change only if the read was refused, when the junk
  in the fresh buffer is written over them.  `ReadyToBoot`: gating off,
  processing, decoupling and interrupts on, while the DSP is tried.
  `GatingRestored`: and the gating on again at the exit, however the boot ended.
  `OtherBitsKept`: no update takes a bit that is not its own.  `AccessesReach`: a
  slot leads to what it is used for; in particular the slot that `probe.c` 264
  takes for "SPIB found" may hold region 2's offset, and an access through it then
  reaches no register, never a wrong one.  `EnabledWhenClear`: when interrupts are
  enabled, nothing is pending in the controller's status registers or those of the
  listed streams, but where an access was missed; all streams are listed if
  nothing failed.  (A list that discovery left short leaves the others' status
  bits pending: the model has that, and the property promises nothing of them.)
  `ProgramEnds`.  The properties about registers speak of those that no access
  missed: what is in a register that an access failed to reach is nobody's
  promise.

### Bounds, and why they are enough

- *Cores*: three of the chip's four (`tools.c`, `get_chip_info`): core 0 and two
  that it waits for, so that some may be powered and others not; every initial state
  multiplies with them, and the code names no other core than 0.  *Attempts*: 3,
  `HDA_FW_BOOT_ATTEMPTS`: a first, a middle and a last attempt.  *PollReads*: 2 for
  the code's 10 000, a read that is not the last and one that is; the hardware may
  take any number of its steps between two of them.  The theorems hold for any
  number of each.
- *Bdl*: with pages of 4 and 5 entries, periods and buffers below, at and above
  a page, a multiple of a page and the list's capacity all occur, and sizes 32 to
  63 are negative as 6-bit ints.  `ToInt` and the division behave there as with
  32 bits.  A buffer of 0 would divide by zero and is excluded by an assumption.
- *StreamPool*: nothing is bounded; these are all inputs.
- *FwLoad*: five bytes allow every pattern of reads with up to five of them; one
  split is enough for the overwriting, two more for its repetition.
  `Indeterminate` has a value below, one inside and one above the sizes.
- *CodeLoader*: finite as it is.
- *CapWalk*: two places make every shape of list up to a cycle of two, a list
  that enters one, a link to itself and the end; the limit of 2 is below and at
  the number of turns a cycle takes.  `Span`, the distance of two regions, is
  8, any value beyond the places; `Unanswered` is all four regions.
- *Driver*: two faults, so that one may hide another; five lists, with none, one,
  the other and both of the capabilities the accesses use, and a cycle; two
  streams, so that "all but the last" differs from "none".  `MaxFaults` bounds the
  run; the theorems hold for any number.

Deadlock is not checked: in every module the program ends.

### Fairness

`FirmwareBoot!Spec` has `WF_vars(Host)`: the host is a running program and its
next step is always enabled until it returns (a poll that can give up is enabled
for ever).  The hardware has no fairness at all there, so `Termination` and
`ContractSpec` do not rely on the device.  `HealthySpec` is used by one run only.
It adds weak fairness of each hardware action the host waits for: the lagging bits
settle, the ROM takes its steps.  It starts from a device found reset and takes
`Faulty = FALSE`: the code's waits last 10 000 reads, 4 ms apart, which is what
"outlasts the hardware" stands for.  The fault actions get no fairness.  `CapWalk`
and `Driver` have `WF_vars(Next)`: one thread whose every call and access returns,
with a result or an error.  The other modules check safety only and state none.

### Findings

The four `violation` runs each take a sentence from a comment and show that the
code does something else.  `PROJECT.json` quotes both sides.

1. `reply_cleared`: "set DONE bit to clear the reply IPC message" never writes:
   the *forced* update is the plain one, and DONE reads as 1 already.  The run shows
   it where nothing else goes wrong: on a working device, found reset, behind a
   genuine reply.
2. `unused_stream`: "get next unused stream" returns the last stream of the list
   if none is unused.
3. `loaded_is_file`: each `read` starts at the beginning of the buffer.
4. `plays_the_buffer`: the size of the firmware never reaches the caller, who
   passes an uninitialised one on.

What follows from the first is in the models, too.  The DONE that is left serves the
next attempt, or the next run of the program, as its reply: the host then does
not wait for the ROM, and may drop the power of the other cores before the ROM has
seen it.  That ROM never replies and the wait for INIT ends in a time-out, although
no part of the device is broken.  This is why `HealthyBoot` starts from a device
found reset, and why `SignalsGenuine` excepts a signal that showed before.

Two more things a reader of the models meets, which contradict no statement of
the source: an attempt may also take the INIT status of one before for its own, and
the tag in the stream's descriptor is the constant 7, whatever tag the ROM is told.

## 5. Proofs

All theorems are about the specifications the runs use, without replaced
definitions.  Assumptions are those the modules state: `Core0 \in Cores`,
`Attempts` and `PollReads` positive numbers, `Faulty` a Boolean; a positive page
size, a page-aligned base, natural limits, sizes within unsigned, a list's worth
of pages within int, a list no longer than its 16-bit index can tell; stream
counts of four bits; natural file sizes; a positive `Span` and places below it;
natural limits on capabilities, faults and attempts; lists of headers with no
capability at 0; a sequence of names for the streams' status registers, none of
them a register of another kind.

- **FirmwareBootProofs** (`TypeCorrect`, `SecondaryHeld`, `Core0Prepared`,
  `StalledBetween`, `PowerDownStalled`, `DmaLeftQuiet`, `BootedEntered`,
  `Genuine`, `ImplementsContract`).  None of the safety properties is inductive.
  `IInv` adds what the interleavings need: `StallWindow` (outside the labels
  between `unstall` and `stall` every core is stalled, up to the first unstall
  only if core 0 was found so), `FoundRunning` (a core 0 that was found running
  keeps its power while the others get theirs), `NothingInFlight` (core 0 is
  unstalled only after its power and its reset have settled, so no late write can
  hit a running core), `PurgePending` (the purge request is pending from the
  moment it is made until core 0 is let go) and `PurgeBeforeReply` (and then until
  a ROM that was let go has answered).  `DmaInv` relates `running`, the RUN bit as
  written and as read, status and interrupt at each label after the start.
  `BootInv` says that ENTERED, once the download is under way, is no old status,
  and `SignalInv` that DONE and INIT, if they did not show when core 0 was let go
  and do now, are of the ROM that runs on it.  Each `Next...` lemma has one case
  per action.  `ImplementsContract` shows that the initial state maps to the
  contract's and every step to a step or a stutter, from the invariant that `i <
  Attempts` while an attempt runs.
- **FirmwareBootProgress** (`BootEnds`, `NoWaitInVain`, `FirstAttemptSucceeds`).
  `StepsLeft` bounds the steps of host and hardware together, for every finite set
  of cores: `HostRank` counts the steps the host may still make in this attempt
  and those that may follow, `HostSteps` the turns of their polls with them, and
  `HardwareRank`, always below one `Burst`, what the hardware can do before the
  host moves again; every step of either lowers the sum.  `HealthyInv` says, label
  by label, what a device in working order (`Faulty = FALSE`) that was found reset
  (`FoundReset`) has done or is about to do: from it, at each poll either the
  condition holds (`HostMoves`) or one of the hardware steps that `HealthySpec` is
  fair to can be taken (`DeviceMoves`), no label of the error path is reached and
  the first attempt is the only one.
- **BdlProofs** (`TypeCorrect`, `ListBounded`, `ListTiles`, `InterruptsAtPeriods`,
  `CutsRight`, `ListEnds`).  For every page,
  list, buffer and period size.  The strengthening (`OffsetInv`) is that the
  offset is the end of the last entry as long as it is no error, and that it is
  an error only if the list is full: so the entries that the next period would
  write from a negative offset are never written.  `SameRemainder` carries the
  page test from the offset, where the code makes it, to the address, where the
  engine needs it; that is what the aligned base is assumed for.
  For the interrupts, `InPeriod(b)` says that the bytes of the period under way
  lie behind a multiple `b` of its size, by no more than that size: so an entry
  ends on a multiple only if it ends the period (`EndsAt`).  For the cuts,
  `CutsSoFar` says that the entries are the cuts before the offset, one for one,
  and after an error return that the list is full of cuts and one is missing;
  `InStep` that the period under way starts at `i * PeriodBytes` and its bytes
  end where `PeriodEnd` puts the next one, or the end of the buffer.  There the
  size must be an int, and `BufferParts` shows that then the number of periods is
  one, too.  `ListEnds` needs no such thing: the loops end for every size.
- **StreamPoolProofs** (`TypeCorrect`, `Disjoint`, `Usable`, `OwnStream`,
  `MarkedUnlessNone`, `DiscoveryStops`).  For every count.
  The list is described by its positions (`list[k] = NewStream(k - 1)`), and so
  are the windows: the k-th mapping is the k-th page from the position buffer
  on, which needs that no position buffer outgrows a page.  `MarkedUnlessNone` is
  the true half of "get next unused stream": the stream that is programmed is
  marked as opened if and only if the list has a playback stream at all.
- **FwLoadProofs** (`TypeCorrect`, `NoLeak`, `BufferMapped`, `LoadedByOneRead`,
  `LoadStops`).  For files of every
  size and every indeterminate value.  `MappingInv` says what `ret` tells of the
  mapping at each label; in particular that an error met after the mapping never
  shows as one, which is why a reported error means that nothing is mapped.
  `LoadedByOneRead` is the true half of "Loaded": the bytes are in place exactly if
  one `read` delivered them all, because the first byte in memory is always where
  the last `read` began in the file (`ImageInv`).
- **CodeLoaderProofs** (`TypeCorrect`, `HandedOnPrepared`, `StaysStopped`,
  `DescriptorAtRest`, `FormatCoupled`, `PreparationEnds`).  `ControlInv` says what
  was written last to RUN and SRST at each label and what has come of it: not
  stopped yet, stopping, stopped, in reset, and out of it for good (`Late`); from
  then on no status bit can appear, and the engine cannot move any more, so no
  write is lost.  `EngineInv` and `OthersInv` say what each step leaves behind for
  those that follow (`After...`).  `UpdateEffect` is the one fact about the
  read-modify-write.  The measure of `PreparationEnds` counts the program's steps
  nine times, since the engine has at most eight between two of them.
- **CapWalkProofs** (`TypeCorrect`, `WalkFindsExactly`, `WalkStops`).  For every
  set of places, every list over them, every limit.  `WalkingAll` is what the walk
  promises while it is under way: the header to be read next is the only one that
  can be linked to and not read yet; `CountedOK` relates the count to the label;
  `HdaAtZero` keeps the first slot, which the others are made from.
- **DriverProofs** (`TypeCorrect`, `SetupCompletes`, `OneByte`, `OthersKept`,
  `Reaches`, `Restores`, `Ready`, `ClearFirst`, `WalkComposes`, `ProgramStops`).
  For every set of lists, any number of faults, streams, capabilities and
  attempts.  `DriverInv` is the conjunction of `CallsInv`, `GrantedInv` and
  `RefusedInv` (the calls still to be made are the tail of the program's; with no
  fault all those before are granted, and with any each is granted, or was refused
  in order, or lacks something that can no longer come; `ScriptsSound` checks that
  each program's order meets `Needs`), `WriteInv` (what the prototype has read,
  between its read and its write), `FlowInv` (label, program and list of accesses
  fit together, and each access is `Proper`: it leaves bits that are not the
  program's alone and goes through the slot its register lies behind), `SlotInv`
  and `ReachInv` (what a slot holds, from the regions' queries and the walk, and
  where that leads), `RegsInv` and `CountInv`.  `Restores` and `Ready` are about
  the future of a list of accesses.  A `Setting` is a bit with a value.
  `Awaits(b, q)` says that setting `q` will be in force when the b-th access of
  the list is due: its register was missed, or an access before it brings the
  setting about and those after that keep it (`Brings`), or it is in force and all
  keep it (`Leaves`).  `BringsTail` and `BringsConcat` say how this passes to the
  rest of a list and to a longer one, `MainSets` and `MainBoot` that `main` has it
  for the gating and for the boot, `PrepareSets` that the preparation spoils
  neither, and `NextGate` and `NextReady` that every step keeps it.  `ClearFirst`
  is of the same kind: in what is left to do, each access to INTCTL is behind one
  that clears each status register, the controller's and those of the listed
  streams, that still shows something and was not missed (`Guarded`, in
  `PendingInv`); an access of those is carried out or its register missed
  (`AccessClears`), and `main` is such a list for any number of listed streams
  (`MainGuarded`).

  The last two put the parts together.  `WalkComposes`: the walk inside `main`
  starts in a state of `CapWalk`'s `Init`, takes its steps only, and `WalkInv`,
  which is the invariant of `CapWalkProofs` at the labels where it applies,
  carries `FoundExactly` and `SlotsMeanKinds` over: they are proved once and used
  here through `WP == INSTANCE CapWalkProofs`.  For the boot nothing of the kind
  is left to prove here: `Driver` takes the contract's own steps, and that the
  detailed boot implements them is `ImplementsContract`.  `ProgramStops` bounds
  the steps of all five programs by the limit of the walk, the attempts and the
  streams; refusals and failures do not add to it.

Only model-checked: `Termination`, `HealthyBoot`, `WalkEnds`, `ProgramEnds` and the
fairness half of `ContractSpec`.  The theorems come close to them and stop where
the prover does.  A measure on the naturals that each step lowers (`BootEnds`,
`WalkStops`, `ProgramStops`, and `ListEnds`, `LoadStops`, `DiscoveryStops`,
`PreparationEnds` for the modules that state no liveness) bounds every behaviour;
`WalkStops` also says that nothing is left exactly at the end, and `NoWaitInVain`
that before the end some fair step is possible on a device in working order (on
a faulty one every poll may give up).  What is missing in each is the
inference from there to `<>`, which takes ENABLED and an induction over the
measure: that is left to TLC.  Every invariant and every action property of the
passing runs is also a theorem.

## 6. Not modelled, and why

- `print_region`, `mmap_region`, `munmap_region`, `irq_disable`: debugging output
  and helpers nothing calls.
- The prototypes' reads that are only printed: the boot prototype's capability
  walk and ROM status, the interrupts' descriptions.  Long stretches of their
  source are commented out.
- `msi_enabled`, which is set although `irq_enable` may have failed: nothing reads
  it.
- Where a write that was led astray lands: in a register of the HDA region that
  no property speaks of.
- Accesses that fail inside `FirmwareBoot` and `CodeLoader`: there they succeed.
- Allocation failures other than those of `hda_dsp_stream_init`: `calloc` of
  `struct dev` and `malloc` of the list head are used unchecked.
- Constants and register layout are data; a wrong bit number is beyond these
  models.
- `Makefile` and `device_to_vfio.sh`: no state of the running program.
