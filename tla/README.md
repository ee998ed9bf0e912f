# KrakenPad: specifications, checks and proofs

TLA+ modules of the KrakenPad dance-pad controller (panel firmware, master
firmware, update tools, host SDK), the TLC configurations that check them on
small instances, and theorems about them that TLAPS proves for every instance.

* [Inventory](#inventory): the system's parts, their state and what makes them right
* [Modules, runs, theorems](#modules-runs-theorems): what there is, in one table
* [One section per module](#panelboot): how the model corresponds to the code,
  its bounds, its fairness, what is shown
* [The proofs](#the-proofs), [what the runs found](#what-the-runs-found),
  [what is not modelled](#what-is-not-modelled), [the plan](#plan)

To check a run: `tlc -config MCPanelBoot.cfg MCPanelBoot`; a proof: `tlapm
PanelBoot_proofs.tla`. `PROJECT.json` lists the runs, the theorems, the source
lines behind every definition, the hazards of the code, and for every property a
plausible bug (a "mutant", an operator marked `Mutant:` next to the one it
replaces) that breaks it.

## Inventory

A pad is up to nine *panels* (RP2040 boards with pressure sensors, LEDs and one
open-drain INT line each) on one half-duplex RS-485 bus, a *master* (RP2350) that
polls them and is a USB joystick and a USB vendor device, and host software: an
SDK in Rust and command-line tools in Python. Presses never go over the bus: a
panel raises INT and the master reports it.

| Part | Source (under `src/`) | State | Operations | Interacts with |
|---|---|---|---|---|
| Panel bootloader | `firmware/panel/c/bootloader/main.c`, `common/fw_layout.h` | flash: boot-control record, application, staging; scratch register; RAM: update state, blocks taken, page buffer | power-up, resume, decide, listen; `B U D A X q`; install sector by sector | bus (update tool), application (scratch register) |
| Bootloader's own update | `bootloader/boot_install.c`, `updater.c`, `stage0.c`, `common/boot_slots.h` | flash: sector 0, two slots with headers | updater run, write slot, write sector 0, select at boot, USB load | boot ROM, installed like any application |
| Panel update tool | `tools/panel_update.py` | phase, targets, committed | hold, survey, begin, stream, fill gaps, commit, release, abort | all panels' bootloaders over the bus |
| Bootloader update tool | `tools/panel_boot_update.py` | none between its two runs | updater run, wait, application run | panel update tool |
| Master: saved configuration | `firmware/master/master.ino` 640-800 | two EEPROM slots, copy, sequence, flags | load, save with read-back, edits, reset | console, USB commands |
| Master: configuration of the panels | `master.ino` 660-870 | copy, state per panel, last sent, push due, presence | edit, push, acknowledge, presence, re-push | panels over the bus; events to the host |
| Master: bus scheduler, LED frames | `master.ino` 2380-2603 | poll index, request under way, mode and clear queues | one request per slot, resynchronise, LED burst | panels |
| Master: edges and joystick | `master.ino` 90-330 | button mask, sequence, ring of reports | INT interrupt, 1 kHz tick, USB retry, self-test hold | panels (INT), host (HID) |
| Master: vendor interface | `master.ino` 1500-2200 | packet ring, reassembly, subscriptions | commands, responses, events, telemetry, passthrough | SDK |
| Master: console, bring-up | `master.ino` | none of its own | prints, measurements, config edits | operator |
| Panel: press detection | `firmware/panel/c/main.c` 150-520, `firmware/shared/panel_config.h` | thresholds shared by two cores, debounce, tare, INT | sample, detect, tare, apply config | INT |
| Panel: bus handler | `main.c` 520-987 | configuration, mode, identify | `F W q M B`, LED frames | master, update tool |
| SDK: context, pads, events | `software/sdk/src/{context,pad,events,transport}.rs` | known pads, manager and reader threads, pending command, event queue | discover, handshake, command, time out, disconnect | master |
| SDK: formats | `protocol.rs`, `messages.rs`, `config.rs` | reassembly buffer | parse, serialise | |
| SDK: simulated masters | `sim.rs`, `fake.rs` | test doubles | | SDK tests |
| Configuration application | `software/apps/config/src` | window state, worker thread | SDK calls | SDK |
| Bench firmware and tools | `bringup/`, `led_current_test/`, `usb_speed_test/`, other `tools/*.py` | | | operator |

What is hard in each, and what makes it right:

* **Panel bootloader.** Power may go in any flash operation. A whole image is
  run, an install is redone to its end, and blocks in any order stage the image.
* **Bootloader's own update.** The code that boots is replaced by code that runs
  from elsewhere. At every instant a power-up must enter a whole bootloader or
  the boot ROM's USB drive; which slot boots must never be in doubt; the update
  must end whatever it was cut off at.
* **Panel update tool.** A bus that loses frames, replies that come late, an
  operator who stops it, panels that an earlier run left in any state. Installs
  happen only when everyone is ready, success is true, and a rerun mends.
* **Saved configuration.** Power cuts in a save, a failed save, wrapping numbers.
  The two slots act as one register, and the flags shown to the user are true.
* **Configuration of the panels.** The copy changes while a push or its
  acknowledgement is under way; frames are lost; panels restart. "Match" is true,
  nobody is forgotten, all match in the end.
* **Scheduler.** One frame on the bus; pushes must not starve polls.
* **Edges and joystick.** Interrupt against tick against USB; a full ring. The
  host ends with the true mask and a sequence number that shows what it missed.
* **Vendor interface and SDK.** Full queues, late responses, transaction numbers
  that come round, a reader that ends during a handshake. A response goes to its
  own command, a connected pad is disconnected once, held state is not lost.
* **Press detection.** Two cores share thresholds without a lock; rounding at the
  boundaries. No press from a mixture of two configurations, release follows press.

`PROJECT.json` lists each hazard at the line where it bites, with the properties
that would catch it, or what the plan has for it.

## Modules, runs, theorems

| Module | Models | Abstract spec | Run (distinct states) | Proofs |
|---|---|---|---|---|
| `PanelBoot` | panel bootloader | `AtomicInstall` | `panel_boot` (125 056), `panel_boot_two_cuts` | `PanelBoot_proofs` |
| `BootInstall` | bootloader's own update | `BootSwitch` | `boot_install` (13 577) | `BootInstall_proofs` |
| `FieldUpdate` | update tool and all panels | | `field_update` (267 761), `field_update_rerun`, `field_update_stale` | `FieldUpdate_proofs` |
| `ConfigStore` | saved configuration | `ConfigRegister` | `config_store` (6 779) | `ConfigStore_proofs` |
| `ConfigSync` | configuration of the panels | | `config_sync` (489 532), `config_outcome` | `ConfigSync_proofs` |
| `PadInput` | INT edges, tick, joystick report, edge ring | | `pad_input` (795 196) | `PadInput_proofs` |
| `PressDetect`, `Calibration` | press detection on a panel's two cores | | `press_detect` (761 288) | `PressDetect_proofs` |
| `PadLink` | USB packet queue and sessions, the SDK's threads | | `pad_link` (641 047) | `PadLink_proofs` |

A module `MCx` extends `x` with the small sets its `.cfg` files use.
`FieldUpdate` rests on `PanelBoot`: it takes a panel's install as the one step
that `AtomicInstall` makes of it, or as a failure. `BootInstall` starts where `PanelBoot` hands
the panel to an application that happens to be the updater. The path of a press is
`PressDetect` as far as the INT line and `PadInput` from there to the host's last
report; the line is where they meet, and each lets it change at any moment.
`PadLink` carries commands without what they do: what *Set config* does is in
`ConfigStore` and `ConfigSync`.

Every module states a type invariant, and all of them are proved; a run's properties
are the ones that could be wrong.

## PanelBoot

**State.** `ctrl`, `app`, `stage` are the boot-control sector and the two flash
regions, block by block; a block holds the name of the image it is part of,
`Blank`, or what a torn operation left (`Torn`, or `Plausible` when its first
words would still pass `app_vectors_sane`). `scratch` is the watchdog register
that carries the hold request through a reset. The rest is RAM: `gctrl`
(`g_ctrl`), `st` (`g_state`), `up` (the announced image and `g_got`), `page`
(the page buffer), `ins` (where `install` is). CRCs are exact: a region matches
when it starts with the image.

**Actions.** `PowerUp` is `main` up to the resume of a pending install; `Decide`
the choice between holding and listening; `ListenHold`/`ListenTimeout` the 200 ms
window; `DoBegin`, `DoBeginRefused`, `DoData`, `DoActivate`, `DoExit` the frame
handlers, whole; `CtrlErase` to `Verify` are `install` and `ctrl_store`, one
flash operation a step, since power may go in each; `AppHold` is the application's
`reboot_into_bootloader`. `PowerCut` may tear the operation under way and clears
RAM; `CopySectorFails` is a program that fails without a sign. Frames come in any
order and number, so loss, repetition and a host that restarts are included.

**Shown by `panel_boot`** (two images, one ending inside a page and a sector, 4
blocks, pages and sectors of 2; one cut, one failed program): what is run is a
whole image (`RunsWholeImage`); a pending record has its source
(`PendingHasSource`); the image's own blocks always stage it (`OwnBlocksStage`);
a pending install is resolved (`PendingResolves`); and the whole is a one-step
install (`AtomicInstallSpec`). Two sectors and two pages, with a partial last one,
are the least that have a first, a last and a boundary; more of them repeat the
same step, and the proofs cover every geometry.

The mapping to `AtomicInstall` takes the install to happen when it is decided,
that is when the pending record is in flash: from there on it can be redone. A
silent flash failure maps to `failed`, after which `AtomicInstall` promises
nothing.

**One cut.** `AtomicInstallSpec` and the first half of `RunsWholeImage` are for
at most one power cut in the runs. With two, `panel_boot_two_cuts` finds a partly copied
application being run; see [below](#what-the-runs-found). The proofs say which cut it
takes: one that falls while an install that is being redone has its record erased
(`LosesRecord`). Any number of others do no harm.

**Fairness.** `WF(Boot)` and `WF(Install)`: the processor goes on with what it
has begun. Nobody is obliged to send a frame, and power is not obliged to fail.
Deadlock is checked: a panel that is off can always be powered.

## BootInstall

**State.** `sec0`, `img`, `hdr` are sector 0 and the image and header pages of
slots A and B, page by page. `Boots` is what a power-up enters, by the boot ROM's
look at boot2 and by `fw_slot_select` in stage 0. `upd` is where
`fw_boot_install` is. `hold` is the watchdog register with which the updater asks the
bootloader to wait for the host. `spoilt` is an observer: a program has failed in this
run of the updater, or in the last one.

**Actions.** `RunUpdater` is the entry of `fw_boot_install`, with the migration of a board
on the old layout; `SlotErase` to `SlotCheck` are `write_slot` one flash operation a step;
`Sector0Erase` to `Sector0Check` are `write_stage0`, boot2 last; `Pass` is the loop that
writes the slot that is not booted; `Reboot` the end of the updater, which always asks for
the hold (`updater.c:106`): the bootloader that comes up next takes the mark and waits (mode
*held*) until the host's `X` (`Release`) lets it run the updater again. A power cut loses
the mark, and a bootloader that powers up without one runs the updater by itself.
`UsbRecover` is the load of `panel_boot_usb.uf2` over USB. `PowerCut` tears the operation
under way; a cut erase spoils every page it covers, boot2 included, which is the flash model
of `host_test/test_boot_install.c`. `ProgramFails` is a page that does not take.

**Shown by `boot_install`** (an old and a new build, three pages in sector 0, a slot of
three pages in two sectors, the header in the second; three cuts, two failed programs, two
tries a write): never hung (`NeverHung`); the code that would boot is never touched
(`BootedCodeKept`); two valid slots are never level (`SlotsRanked`); `E_VERIFY` only if
flash failed in that very run (`FailsOnlyByFault`); what a run returns is so
(`ResultIsTrue`); once the build is in both slots no run writes again (`SettledStays`); both
slots end with the new build, or the board is held after a run in which flash failed and
waits for the host (`BothSlotsEnd`; without that exception TLC finds it violated); and what
a power-up enters changes as `BootSwitch` says (`BootSwitchSpec`). Three cuts allow a cut
run, a cut rerun and one more; two failed programs exhaust the two tries.

**Fairness.** A powered board boots, its bootloader runs the updater it holds as
application, and the updater runs on. Nobody has to come with a USB cable, and no host
has to send `X`, so `BothSlotsEnd` excepts a board that waits for either; a held board
whose run ended well has both slots already.

**Limits.** A silently failed erase, flash that decays, a USB load cut half-way,
and a recovery over SWD that keeps slot B's header are not in the model. Nobody sends `B`
in the 200 ms in which a bootloader without the mark listens before it runs the updater.

## FieldUpdate

**State.** Per panel: `app` (what its record says is installed), `pend` (the install that is
pending because its copy failed), `got` (staging), `held`, `st`, `up`. Of the tool: `pc`
(where `run` is), `img`, `present`, `targets`, `seen`, `committed`, and by panel the
`history` of `missing_count`s that `fill` keeps. `late` holds replies the host has not read
yet.

**Actions.** `Hold`, `Survey`, `EndSurvey`, `Begin`, `Stream`, `Commit`, `Release`
are the phases of `run`; `PollDone`, `PollResend`, `PollSilent` are one round of
`wait_state` and `fill` for one panel. A run ends before its time by `Fails`, `Deadline`,
`Interrupt`, and by `GivesUp`: once a panel has given more than `Window` counts (6 in the
code), and the last is no less than the first of the last `Window`, that is the `UpdateError`
*"stuck at N missing blocks"* (`panel_update.py:286-289`). `X` is broadcast
only before the commit. `DoBegin`, `DoData`, `DoActivate`,
`DoExit`, `Restart` are the panels' handlers and boot. Flash may not program
(`"copy"`): the install is then pending, there is no application to run, and the next
boot redoes it if staging still has the image. A loop of addressed or broadcast
sends is one step in which any subset is heard. `query` takes the oldest reply in
the buffer, whatever question that answers. `PanelReset` may happen to anyone at
any time.

**Shown by `field_update`** (two panels, three images of two blocks, two of which agree in
one block; two runs of the tool; three losses, delays, failed copies, resets or aborts in
all): a copy is begun only when every target has staged what was announced to it or has been
reset, and an application changes by that copy or by the boot that redoes it
(`InstallsWhenAllReady`); success is true (`SuccessMeansInstalled`); a run in which nothing
goes wrong finishes (`RunFinishes`), whatever state an earlier run left, failed copies
included, with the one exception `NoneMisread` names ([below](#noted-without-a-run)); so
does one that is filling gaps when nothing more goes wrong, unless the tool may be out of
patience with a panel, its history and the replies it has still to read together making a
window (`Patient`); and every run ends. That proviso is the code's: a tool that has seen no
progress in its window gives up although the bus has become perfect, and the run reaches
that (a block of the stream and two refills lost). Two panels are needed to differ and two
runs for one to leave something behind; images that share a block are needed to mistake one
for another.

**Fairness.** The tool goes on, and `wait_state` goes round: each panel waited for
is polled again. The operator is not obliged to start a run, so the system may
stop and deadlock is not checked. Losses need no fairness, since their number is
bounded and `RunFinishes` speaks of what follows the last: a reset of a panel that runs
its application only counts, so the bound can be used up from any state.

**Limits.** Every panel's application was installed over the bus: of one loaded over USB
the record names none (that is in `PanelBoot`). The list
of missing blocks in a reply is whole; the code names at most 16, which takes more rounds
to the same end, each of them progress by the count that `fill` watches. `Window` is 2 in
the runs, with which three losses are enough to run out of it.

## ConfigStore

**State.** `eeprom`, two slots with a record or `Bad`; `cfg_block`, `cfg_seq`,
`cfg_slot`, `cfg_unsaved`, `cfg_was_reset` as in `master.ino`; `pc` for where
`cfgSave` is. **Actions.** `CfgLoad`; `Edit` (console `S`, `F`), `Save` (console
`save`), `CfgCommit` (USB *Set config* and both resets: mark, then save);
`SaveBegins`, `SaveEnds`, `SaveFails`, `ReadBack` are `cfgSave`; `PowerCut` and
`CompactionCut`. The EEPROM emulation is external: the core's library, modelled
from how `cfgSave` uses it. A cut while it compacts may lose either slot.

**Shown by `config_store`** (three configurations, sequence numbers modulo 8, two
failed saves, cuts without bound): a master that reports nothing unsaved comes back
with what it is using (`UnsavedIsTold`); the *was reset* flag stands exactly while
no valid record exists (`ResetIsTold`); the two slots are one register
(`RegisterSpec`, with `ConfigRegister`). Modulo 8 the numbers wrap many times, and
the signed comparison has the same shape as with 16 bits.

## ConfigSync

**State.** Of the master: `cfg_block` (by panel), `cfg_state`, `cfg_sent_crc`,
`cfg_push_due`, `panel_online`, the poll and re-push indices, `told`. Of the panels:
`up`, `g_cfg`, `g_configured`, `misread`. `bus` is the one frame under way: the
master parses what came (`rxResync`) before it sends again.

**Actions.** `CfgChanged` (any edit, from console or USB); `RePush`, `CfgSendPush`,
`Poll` are what a poll slot may do; `HandleF`, `HandleW` the panel's answers;
`CfgAck`, `PanelSeen`, `PanelTimeout` the master's; `Lost`, `PanelDown`, `PanelUp`,
`MasterReboot` what goes wrong. One in 2^8 damaged frames passes the bus's CRC-8, and
the panel then applies something else: that is `HandleW` with `seen` other than
what was sent, marked `misread`.

**Shown by `config_sync`** (two panels, one of which does not know the config
version; two configurations; one edit; two losses, misread frames or restarts):
a panel said to match does (`MatchIsTrue`), and the host has been told so since the
last edit (`MatchIsTold`); one that answers polls has been sent
the copy as it is or is owed it (`SentOrDue`); all match in the end
(`AllConfigured`). One edit can fall between any two steps of a push, which is the
race the acknowledgement's CRC is for; two troubles let a loss follow a restart.

**Fairness.** `loop()` goes round: it sends, parses and times out (`WF(Traffic)`,
`WF(RePush)`); panels that lose power get it back. Pushes go before polls, so
polls could starve if a re-push came before every slot. The code spaces them: one
re-push in 111 ms against a slot every 5 ms, or every 50 at most (console
`poll`); `polled` says that and no more.

**Limits.** `REJECTED_INVALID` is left out: the master checks the copy before it sends it.
`told` assumes that a host is attached and the packet ring has room. Mode, clear and status
requests take slots of their own and are not here, nor is the console's pause of the bus,
under which pushes still go out but nobody is polled.

## PadInput

**State.** `low` are the INT lines a panel holds LOW, `edge` the edge interrupts the
GPIO has latched, `isr` the panel whose interrupt is in its 10 us wait. `hid_mask`,
`hid_sent`, `hid_seq`, `hid_hold`, `usbpoll_state` are the code's; `since` and
`in_state` count ticks where the code keeps a time. `txq` are the reports in the USB
core and `host` the last one taken; `ring` is the edge ring and `panel_pressed` what
`loop()` has made of it. `missed` and `dropped` are observers: panels with an edge
that was deliberately ignored.

**Actions.** `EdgeIsr` and `Qualify` are the two halves of the edge interrupt, before
and after the wait (`pushEdge`, `hidEdge`); `HidTick` the whole 1 kHz tick with
`usbpollTick`; `TxDone` the USB callback. The three run at one interrupt priority, so
none begins while `isr` is occupied, but lines and host move on. `Drain` is one entry
of the ring in `loop()`; `PreCheck`, `SelfTest`, `EndSelfTest` and `Pullups`,
`EndPullups` the two commands that set `hid_hold`. `HostTake`, `Plug`, `Unplug`,
`LineChange` are outside.

**Shown by `pad_input`** (two panels, two changes of line, one special event, a ring of
one entry and a queue of one report, so that both fill at once): the mask is wrong about
a panel only while its edge is under way or was ignored under the hold
(`MaskAccounted`), and so is the newest report, or else the tick has news to send
(`NewestAccounted`); two consecutive reports differ in number exactly when they differ in
mask, also through a mask that goes back while the queue is full, the heartbeat's and
`usbpoll`'s repeats (`SeqTellsMasks`); `loop()` has every panel right once its ring is
empty, unless the edge met a full ring or interrupts that were off (`RingTold`); and the
host's last report ends up being the lines (`HostSeesPresses`). Two panels are needed
for one edge to fall in the other's 10 us; two changes for a press and its release, or
one on each; one event meets any point of either.

**Fairness.** Interrupts are served, the timer ticks, `loop()` goes on (a self-test
ends), and a host that has the master polls the endpoint. Lines need not change and
nobody need plug the master in.

**Limits.** What the ring promises is weak by the code's own choice: an edge that meets
a full ring leaves `panel_pressed`, and with it the panel's idle colour, wrong until that
panel's next edge. Only the report is corrected by the tick. Times printed for a press
are left out.

## PressDetect

**State.** Core 0: `at0` in its pass, `copy` the thresholds copy the pass has taken the
pointer to, `pressed` and `streak` by sensor, `panel_on` and `pending` (its debounce),
`ident_left`, `g_int_asserted`. Core 1: `at1`, `g_cfg`, `g_tare`, `g_tare_set`. Between
them, unlocked: `g_thr` and the two copies, `g_pressed_mask`, `g_ident_req`, `g_int_hold`.
Time is counted in passes of core 0. `opposed`, `held`, `asked` are observers.

**Actions.** `StartPass`, `Sample` (one sensor, which reads anything), `Panel`, `Clear`,
`Drive` are a pass of `fsr_loop`, cut where it reads or writes something shared. `Fill`
and `Swap` are `thresholds_rebuild` field by field, `TareTick` a closed tare window,
`HandleW`, `HandleI`, `Hold`, `Reboot` the packets that touch the thresholds or INT.
Core 1 may rebuild twice within one pass, which then reads fields of a copy being
rewritten. `Calibration` is `panel_config.h`'s arithmetic in both directions.

**Shown by `press_detect`** (two sensors, the code's 4095 counts and 1000 units, three
readings, three means of a tare window, four configs of which one is refused; one config
packet, one tare that moves, identify orders at any moment and any number of them): the copy
the pointer shows is whole and has release below press at every tare (`ReleaseBelowPress`);
between rebuilds a panel compares as a host does that reads calibrated units (`HostAgrees`),
rounding included; no press or gap is shorter than the debounce, through torn passes
(`Debounced`); a panel whose sensors are all out of use lets INT go for good, but for the
identify pulses it is still asked for (`DisabledReleases`); one that reboots has let it go
(`RebootReleased`); and no identify order is lost though core 0 clears requests it has not
seen, one that core 1 sets again between the look and the clearing among them
(`IdentifyAnswered`). A packet and a tare are two rebuilds, the least that write the copy a
pass is reading; the thresholds one unit apart are where rounding would show.

**Fairness.** Core 0 goes on with its passes and core 1 with a rebuild it has begun.
Nobody need send a packet.

**Limits.** `Reboot` takes from the code that two passes of about 10 us begin in its
100 us wait. A window looks at `g_pressed_mask` once, where the code looks every
millisecond; the hold-off at boot is the one after a press.

## PadLink

**State.** Of the master: `tx` (the packets queued and how many of them the USB core
holds), `vnd_usb_config` against `usb_configuration`, `vnd_host`, the stream's flag and
record count, both passthroughs, and how long their host (`silent`) and the host's LED
frame (`frame_age`) have been quiet. Of the SDK, for one pad: `manager`, `reader` and
`call` are where the three threads are; `stop`, `connected`, `pending`, `chan` are what
they share; `link` is whether the handle still reaches the pad. `strays` is an observer:
the commands that were under way, given by a program that has ended, when the pad was
opened.

**Actions.** `Reset`, `Command`, `RebootCommand`, `Pump` are `vndService`; `Record`
and `Event` what the bus side sends; `EnterConsole`, `EndConsole`, `IdleOut`, `Tick`
the passthroughs. `Open`, `Register`, `Stop`, `Forget` are `manager_loop` and `connect`;
`Begin`, `SetPending`, `LookAgain`, `Write`, `Answered`, `Timeout` are `command` and
`transact`, cut at each access to what the reader shares; `Drain`, `Read`,
`ReadFails`, `FailPending` the reader. Besides, `Plug`, `Unplug`, `Exit` (the program is
killed and its responses stay behind), and `ToolEnters`, another program that turns
passthrough on and may crash.

**Shown by `pad_link`** (one slot, a queue of three packets, transaction numbers to 4, of
which a connection may begin with 1 or 2, taken or not; two commands of the program and two
upsets: events, late answers, unplugs, failed reads, kills, passthroughs others begin): a
caller gets the answer of its own command, or an error, or an answer that was already under
way when the pad was opened, and never that of a command which timed out (`OwnOrStray`);
nobody waits for a reader that has ended (`NoOrphan`); telemetry holds at most one packet's
place (`TelemetryYields`); a pad that stays plugged in is in the end listed and connected
(`PadComesBack`); and the pad's own lights come back after a host falls silent in
passthrough, crashes with it on, or stops sending frames (`OwnLightsReturn`). A queue of
three holds the two-packet status and what displaces it; two upsets let a late answer meet a
reader that ends.

**Fairness.** The master's loop goes round, time passes, the reader reads and the
manager and caller go on (a call times out). Nobody need plug the pad in.

**Assumed.** The master's loop sees an unplug before the next plug. Nothing is assumed of a
connection's first transaction number: with two seeds a second program begins with the
number of a response that is still under way, or with the one before it, which is what
`OwnOrStray` excepts ([below](#noted-without-a-run)). The theorems say when there is nothing
to except. The run has as many numbers as the handshake and the program's commands take, as
the first 253 commands of a connection have; later ones are in the theorem
`OwnOrStrayWhileFree`. The drain of old packets is one step. The handshake's requests are
two of the code's three. The blocking of a self-test is only time.

## The proofs

Nothing is assumed but the named assumptions on the constants (`BootAssumption`,
`BootInstallAssumption`, `SyncAssumption`, `PadAssumption`, `CalAssumption`,
`PressAssumption`, `PadLinkAssumption`, `StoreAssumption`, `UpdateAssumption`), which
TLC evaluates in the runs. Where a theorem needs more it says so in its statement, as an
action the behaviour does not take (`RecordKept`, `SurveysFindAll`, `RunsOnAgreeing`,
`SeedsFree`, `NumbersFree`, `OwnNumbersFree`) or a fact about the constants (`NumbersFit`, a
fault not in `Faults`). The [violated runs](#what-the-runs-found) show what happens without
`RecordKept`, without `RunsOnAgreeing`, and where an `X` may be missed.

| Theorem | States |
|---|---|
| `PanelBoot_proofs`: `TypeCorrect` | `TypeOK` |
| `AlwaysRunsWholeImage` | `RunsWholeImage`, for every geometry, set of images, number of faults |
| `PendingAlwaysHasSource` | `PendingHasSource` |
| `OwnBlocksAlwaysStage` | `OwnBlocksStage`, for every order and repetition of blocks |
| `InstallsAtomicallyKept` | `AtomicInstallSpec`: `PanelBoot` implements `AtomicInstall` for any number of cuts, none of which loses the record of an install being redone (`RecordKept`) |
| `InstallsAtomically` | the same if `MaxCuts <= 1`, wherever the cut falls |
| `CutsRedoTheCopy` | under `RecordKept`, only a whole image is started (`CutsNeverRunPartialImage`) |
| `InstallEnds` | an install has a bounded number of steps before it, and each leaves fewer (`InstallLeft`) |
| `BootInstall_proofs`: `TypeCorrect` | `TypeOK` |
| `AlwaysBootable` | `NeverHung`, for any number of cuts and failed programs |
| `AlwaysRanked` | `SlotsRanked` |
| `GivesUpOnlyByFault` | `FailsOnlyByFault`: of a run, from every start and whatever earlier runs met |
| `BootedCodeAlwaysKept` | `BootedCodeKept` (an action property) |
| `ImplementsBootSwitch` | `BootInstall` implements `BootSwitch` |
| `ResultAlwaysTrue` | `ResultIsTrue`, for any number of cuts and failed programs |
| `AlwaysSettledStays` | `SettledStays` (an action property) |
| `RunEnds` | every step of a run lowers a measure of passes, stages, tries and operations |
| `FieldUpdate_proofs`: `TypeCorrect` | `TypeOK` |
| `SuccessAlwaysMeans` | `SuccessMeansInstalled`, for any number of panels, runs and troubles |
| `AlwaysInstallsWhenReady` | `InstallsWhenAllReady` (an action property) |
| `AlwaysOwnCopies` | where no `X` is missed (`"X" \notin Faults`): a copy begins only when every target has the tool's image or was reset, whatever blocks images share |
| `InstallsWhenAllHave` | if besides no copy fails: `InstallsWhenAllHaveImage`, which `field_update_stale` refutes where an `X` may be missed |
| `NeverMixedUnlessRerun` | `NeverMixed`, while no panel is reset, each survey finds all panels and no run begins on a half-new pad |
| `OneRunNeverMixes` | `NeverMixed` in one run whose `B` and queries are heard, without resets |
| `ConfigStore_proofs`: `TypeCorrect` | `TypeOK` |
| `UnsavedAlwaysTold` | `UnsavedIsTold`, for any number of cuts and failed saves |
| `ResetAlwaysTold` | `ResetIsTold` |
| `ImplementsRegister` | `ConfigStore` implements `ConfigRegister` |
| `ConfigSync_proofs`: `TypeCorrect` | `TypeOK` |
| `NoneForgotten` | `SentOrDue`, for any number of panels and troubles |
| `MatchAlwaysTrue` | `MatchIsTrue` |
| `MatchAlwaysTold` | `MatchIsTold` |
| `AlwaysStaysInStep` | a panel that has come to match stays so until an edit or a fault (`StaysInStep`, an action property) |
| `PadInput_proofs`: `TypeCorrect` | `TypeOK` |
| `MaskAlwaysAccounted` | `MaskAccounted`, for any number of panels, ring and queue |
| `NewestAlwaysAccounted` | `NewestAccounted`, for any number of panels, ring and queue |
| `SeqAlwaysTellsMasks` | `SeqTellsMasks`, for any queue and range of numbers |
| `RingAlwaysTells` | `RingTold`, for any number of panels and size of ring |
| `PressDetect_proofs`: `TypeCorrect` | `TypeOK` |
| `AlwaysDebounced` | `Debounced` (an action property) |
| `ReleaseAlwaysBelowPress` | `ReleaseBelowPress`, for every resolution and tare |
| `HostAlwaysAgrees` | `HostAgrees`, for every resolution and tare |
| `AlwaysRebootReleased` | `RebootReleased` |
| `NoOrderLost` | an identify order is kept until it is shown, and each step of core 0 brings that nearer |
| `PadLink_proofs`: `TypeCorrect` | `TypeOK` |
| `NoneOrphaned` | `NoOrphan` |
| `TelemetryAlwaysYields` | `TelemetryYields`, for any sizes of the queue |
| `AlwaysOwnOrStray` | `OwnOrStray` wherever the numbers begin, for the first `Txns - 2` commands (`NumbersFit`; 253 in the code) |
| `OwnOrStrayWhileFree` | `OwnOrStray` for any number of commands, while none takes a number that an earlier one of the same connection has under way (`OwnNumbersFree`) |
| `OwnOnFreeSeeds` | `ResponseOwn`, no answer but the command's own, for the first `Txns - 2` commands, if no connection begins with a number under way (`SeedsFree`) |
| `OwnWhileNumbersFree` | the same for any number of commands, if besides none takes a number under way (`NumbersFree`) |
| `OneHoldsTheBus` | the console's and a program's passthrough are never both on |
| `LightsComeBack` | ticks and ends of passthroughs lower a measure that only host and console raise, and that is 0 exactly when the lights are the pad's own |

**PanelBoot.** `OwnBlocksStage` is not inductive: it says nothing while blocks are
coming. `PageInv` does: each block taken in is in staging or in the page buffer and
not in both, and staging is blank where nothing has come, so that programming
never hits a used block. `RunsWholeImage` needs to know where the application may
be in pieces. `RecordInv` ties the record in RAM to the one in flash; `SourceInv`
says that an install has its verified source as long as it lasts; `CopyInv` how far
erase and copy have come; `PendingInv` that a pending record means a panel that is
off or installing; `WholeInv` that after one cut the application is whole, or the
record that will redo the copy is there. The last conjunct is what two cuts break:
the second falls where the record itself is being replaced.
`InstallsAtomicallyKept` maps every step to one of `AtomicInstall` or to none, for any flash
geometry. Of all cuts `DecideInv` is broken by one alone, `LosesRecord`, and with
`MaxCuts <= 1` there is none of those (`RedoneInv`: an install is being redone only when the
one cut has been used). `DecideInv` says which application a state stands for:
an install belongs to the record it finds or replaces, a first one that has not replaced it
still has the old application whole, and only a cut leaves one to take up again.
`InstalledInv` then names it (`Installed`), and `InstalledMoves` shows that it changes in
one place, where the pending record reaches the flash. `InstallLeft` counts two
operations a sector and five for the record and the check (`SecInv` bounds the sector).

**BootInstall.** `SafeInv` is `Sound` (behind a good boot2 there is a whole
bootloader) and what each phase of the update relies on: `WritingInv` (the slot
being written is not the one that boots, and the one that boots is ranked below
what is written), `Sector0Inv` (sector 0 is rewritten only with slot B valid, and
has no boot2 until the rest is in place), `ModeInv`. A cut anywhere leaves `Sound`.
The refinement needs in addition that a step changes `Boots` in one of four ways,
which the same facts give phase by phase. `FailsOnlyByFault` needs what the flash looks
like while no program has failed in the run (`Clean`): the slot and sector 0 are erased and
programmed up to where the writer is, no write is a second try, and each pass has put
the build in one slot more, so that the third pass is never reached. `RunInv` adds
that a slot is only erased while one of the two is without the build, which is why flash
that has come that far stays as it is (`SettledStays`). The
measure of `RunEnds` is lexicographic: the passes left, the stage within a pass (slot,
sector 0), the tries left, the operation of the try. A failed page lowers it too, since
the check that finds it uses up a try.

**FieldUpdate.** The hard part are replies that come late. Before the first `D` nothing
is staged after a panel has said that it is receiving (`Ordered`), so a target whose
answer to `U` was "receiving" leaves only late replies behind that claim nothing
(`Clear`); from there on what is claimed stays true (`Honest`): a panel that said it had
staged still has, or has been reset since, and one that said it had installed has the
image. `RunInv` says so phase by phase. What has to stay true is that nothing is left
staged either (`Done`), since a copy that is repeated may fail.

`AlwaysOwnCopies` is the doc's claim where no `X` is missed. `q` does not say of which
image a panel has staged, and images do share blocks (every application begins with the same
boot2), so a target that an earlier run has left receiving could complete that run's image
from this run's blocks. But a run that ends before its commit sends `X`, which empties the
staging of whoever hears it. `OwnInv` says that until all targets have staged only they are
receiving anything, and that it is this run's image; that a panel that is not held is idle;
and, after `D` has begun, that what is staged is this image too. For a pad
that is not half new the danger is a run that is begun on a half-new one, or whose targets
are not all: `NeverMixedUnlessRerun` excludes both, and resets, by name. `MixInv` then says
that the panels agree until `A` goes out, and that from then on all of them are held
until the tool has found the image in every one. `OneRunNeverMixes` is the case that needs no
such hypotheses: with `B` and the queries heard the survey finds everyone.

**ConfigStore.** `SlotInv` says that two valid records are always one save apart
(`Ranked`) and that the master knows which it holds (`Held`). Of two numbers one apart
the signed comparison finds the newer also where they wrap (`SuccNewer`). The register
is set at the last byte of a save, before the read-back.

**ConfigSync.** `SentOrDue` is inductive with the types alone. `MatchIsTrue` needs to
know that what is under way on the bus is true: an acknowledgement carries the CRC of
what its panel runs unless it has restarted since (`AckIsTrue`), and a push to a
panel that matches is a re-push of the present copy (`PushIsTrue`), since any edit
takes the match away. `MatchIsTold` is inductive with the types: every step to *match* is
a change of state, and those are told. `AlwaysStaysInStep` needs one fact more, that an
answer under way never denies that its panel is configured (`ReplyIsTrue`), or the master
would take a panel in step for one that has lost its copy.

**PadInput.** `MaskAccounted` is inductive once it is known that only one edge
interrupt is in its wait (`PadInv`), since the tick may not begin meanwhile.
`SeqTellsMasks` speaks of neighbours among the host's report and the queue; what lets
one more report be queued behind them is that `hid_sent` and `hid_seq` are those of
the last one queued, sent or not (`SeqInv`). The two together give `NewestAccounted`: what
the newest report has wrong of the lines, the mask has wrong too or has not sent yet.
`RingTold` is inductive: an edge goes to the end
of the ring (`ToldAppend`), and `loop()` takes the first (`ToldTail`).

**PressDetect.** `RoundedUp` says what the rounded-up division gives, `StaysBelow` that a
release a unit below press stays below it in counts, since a unit is at least a count
(`CalAssumption` and the tare's bound: `SpanIsWide`), and `RoundingsAgree` that a raw
count reaches the rounded-up threshold exactly when its rounded-down units reach the
config's. `ThresholdInv` says how much of the spare copy is filled during a rebuild, so
that the swap shows a whole one. `DebounceInv` ties the observer `opposed` to `pending`,
whatever thresholds a pass has read. `HoldInv` counts the passes that began after the
hold was set: the second has driven INT to released. `NoOrderLost` has to see through a
request that core 1 sets again while core 0 clears it: `OrderInv` says that core 0 clears
only once its pulse has begun, and `ToGo` counts core 0's steps to the end of the pass that
shows it.

**PadLink.** `NoOrphan` rests on `WaitInv`: the reader takes `connected` away before it
fails what is pending, and the caller sets `pending` before it looks at `connected` again,
so one of the two sees the other. `OneStream`, at most one packet of telemetry behind the
core's slots, is kept by every message since telemetry is queued only when nothing waits and
a cable pulled leaves what waits as it is. The numbers are the hard part: an earlier
program's commands may carry those this one is about to take. `StrayInv` tells the two apart
by who gave a command: what is under way with the number waited for is the call's own or a
stray (`StrayPending`), and of this connection's commands none has a number it has still to
take (`StrayAhead`), which with enough numbers holds of itself (`StrayFree`). For
`ResponseOwn` the strays must be gone, and what sees to it, on a free seed, is order. The
first number is one nothing under way has (`SeedsFree`), and the command with it is the last
in line (`OwnLast`), so that when the handshake's first answer is read nothing older is left
(`InfoOwn`); from then on nothing under way has a number still to be taken (`AheadFree`).
That is kept as long as the number a command takes is not under way (`NumberFree`). Numbers
that have not come round are (`OwnFree`); those that have may not be: with two numbers and
three commands TLC finds a caller that is given the answer to an earlier command, which
timed out and had the same number. `LightsComeBack` rests on `OneHoldsTheBus`, which is why
the end of one passthrough is the end of both; the measure `LightsLeft` is what is left of
the host's silence and of its frame's hold.

**Only model-checked.** Liveness: fairness and ENABLED are out of the prover's reach. What
is proved of each is the safety it rests on, that what was gained is not lost again or that
a measure falls:

| Liveness, checked by TLC | Proved of it |
|---|---|
| `PendingResolves` | `InstallEnds`; `PendingAlwaysHasSource` |
| `BothSlotsEnd` | `RunEnds`, `ResultAlwaysTrue`, `AlwaysSettledStays` |
| `RunFinishes` | only that an end with success is true (`SuccessAlwaysMeans`) |
| `AllConfigured` | `AlwaysStaysInStep`, `NoneForgotten` |
| `HostSeesPresses` | `NewestAlwaysAccounted` |
| `IdentifyAnswered` | `NoOrderLost` |
| `PadComesBack` | only that no command hangs (`NoneOrphaned`) |
| `OwnLightsReturn` | `LightsComeBack` |
| `DisabledReleases` | nothing |

Induction over data (what a recursive definition computes on every input) and RECURSIVE
operators are out of reach too; these modules use neither.

## What the runs found

Each is a run that is expected to be violated, with a finding in `PROJECT.json`.

* `panel_boot_two_cuts`: *"a power cut anywhere in here redoes the copy"* (`main.c`)
  holds for one cut. A second cut while the redone install replaces the record
  leaves no record, a half-copied application and sane vectors, and it is run.
  Proved: that is the only cut that is not made good (`CutsRedoTheCopy`).
* `field_update_rerun`: *"the pad never ends up half old and half new"*
  (`FIELD_UPDATE.md`). A run that failed past its commit leaves a mixed pad held;
  a second run that stops before its own commit broadcasts `X` and releases it.
  Proved: without such a second run it does not happen (`NeverMixedUnlessRerun`), and in a
  first run not at all (`OneRunNeverMixes`), no panel being reset or missed.
* `field_update_stale`: *"until every participating panel holds a verified copy"*.
  A panel left receiving another image by an earlier run, which misses the next
  run's `U`, answers as receiving and then staged: `q` does not say of what. It
  takes images that agree in the blocks that went by, and the other panels install;
  the stale one refuses `A`, so the run does not report success. Proved: where every `X` of a
  failed run is heard the claim holds (`AlwaysOwnCopies`, `InstallsWhenAllHave`).
* `config_outcome`: *"each panel's outcome follows as a config result event"*
  (`USB_PROTOCOL.md`). A panel that rejects one version after another gives one
  event, since its state does not change. Proved: a match is always told (`MatchAlwaysTold`).

### Noted without a run

Disagreements met while modelling that no run states, each beside its comment or doc.

* `panel_update.py:257` goes by the CRC in a panel's record. After a failed copy that is
  still the one of the application the copy has erased: going back to that application
  without `--force` passes over the panel, and the tool says *"every panel already runs
  this image"* (line 259) while the panel has none. `RunFinishes` without `NoneMisread`
  is violated by this.
* `pad.rs:171` and `HOST_SOFTWARE.md:211` let transaction numbers start at an
  unpredictable value. `process_epoch()` is first initialised where it is read, so the
  first pad of every program starts within nanoseconds of the same one. The
  comment has it that *"a straggler from an earlier program's session can't pass for this
  one's response"*: the answer to a killed program's command that outlives the 200 ms drain
  can. `ResponseOwn` is that claim: proved if the seed is free (`OwnOnFreeSeeds`), violated
  in the model of `pad_link` otherwise. What holds on every seed is `OwnOrStray`.
* `pad.rs:235`: state asked for in the handshake overwrites what an event has said since.
  A reader that ends between handshake and registration (`pad.rs:474`, `481`) leaves a
  `PadConnected` without its `PadDisconnected`.
* `set_telemetry`'s *"Off when a pad connects"* is not so when an earlier program left the
  stream on, and one packet of telemetry may still displace a response.
* `master.ino:429` and `2381` compare millis and micros as signed differences: after 36
  minutes of paused bus or passthrough the bus may stay silent as long again, and a host
  frame 25 days old is new for 25 days. `now_ms >= next_ms` (2379) breaks at the
  49.7-day wrap.
* `panel/c/main.c:215-223` has at most one rebuild in a pass; a tare and a `W` may be two.
  `Debounced` and `HostAgrees` hold all the same.
* `panel_config.h:84-86` is *"to the count"* only for press: a release of 0 differs by up to
  three counts.
* `USB_PROTOCOL.md:223`: the number steps on every change, but not for a mask that comes
  and goes while the queue is full, which is never queued.

## What is not modelled

Timing as such (microseconds, baud rates, the reply window's length): a timeout is
a step that may happen when its cause holds. CRC collisions, except the misread
bus frame of `ConfigSync`. The images on the LEDs, printing and measurement commands.
Encodings, as long as no property depends on them.

* **Bus scheduler**: what polls, pushes and presence need is in `ConfigSync`; the
  mode, clear and status queues and the pauses of the LED burst are not.
* **Panel's modes and LED frames**: which image is shown, and for how long.
* **SDK's event queue and snapshots**, and several pads at once; message and config
  formats, which only convert.
* **Bootloader update tool**: two runs of `FieldUpdate`'s tool and a wait; the plan has it.
* **Test doubles, host tests, bench and bring-up firmware** (`bringup/`,
  `led_current_test/`, `host_test/panel_sim.c`), **bench tools, the configuration
  window**: they show or fake what the modules above model, and hold no state of the pad.

## Plan

Done: the eight modules above and their proofs. Next, in this order:

1. `PadEvents`: the SDK's bounded event queue and the snapshots of a pad, with
   `PadLink`'s reader as what fills them: connect and disconnect alternate, the state a
   program reads is not older than the last event it has seen.
2. `BusSchedule`: the request slots of `loop()` with modes, clears and the status sweep,
   and the panel's side of them: none starves, an acknowledged mode is shown.
3. `BootUpdate`: `FieldUpdate`'s run twice, with the updater as first image and
   `BootSwitch` as what a panel does in between.
