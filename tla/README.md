# Verification of the universal7880 device tree

This directory holds TLA+ models of the programs in
`LineageOS/android_device_samsung_universal7880-common`: the code that this
device tree adds to Android for Samsung phones with the Exynos 7880. Most of the
repository is data (configuration, overlays, policy, vendored headers). The
programs are few and small, and what is hard about them is hard to test: threads
and hand-made handshakes, vendor calls that fail half way, flags that are read
before they are set, processes that die and come back while the hardware keeps
its state.

Paths below are relative to `src/`.

## 1. Inventory

| Component | Source | State | Operations | What is hard |
|---|---|---|---|---|
| TFA9896 driver | `amplifier/tfa.c`, `tfa.h` | `tfa_lock`, `mutex`, `cond`, `initializing`, `clock_enabled`, `writing`, `write_thread`; the IC | `tfa_device_open`, `tfa_device_close`, `tfa_power`, the thread `write_dummy_data` | handshake between caller and writer thread, failing vendor calls and streams, flags read before set |
| Amplifier HAL | `amplifier/amplifier.c` | static `amp_dev`, `refcount` per mode, `amp_state`, `current_mode` | `amp_module_open`, `amp_enable_output_devices`, `amp_set_mode`, `amp_dev_close` | counts against power when powering fails; two modes on one IC; restart with the IC on |
| Camera wrapper | `camera/CameraWrapper.cpp` | `gVendorModule`, `gCameraWrapperLock`, the wrappers | seven entry points of the module, device open and close, forwarded device operations | lazy load and device operations without a lock, leaks on error paths, bounds, a vendor that answers NULL |
| LiveDisplay modes | `livedisplay/DisplayModes.cpp`, `service.cpp` | `mDefaultModeId`, the default file, the panel's mode, registered interfaces | constructor, `setDisplayMode`, three getters, registration | crash between truncating and filling a file, results looked at too early, restart order, modes that are set but not offered |
| Other LiveDisplay interfaces | `livedisplay/DisplayColorCalibration.cpp`, `ReadingEnhancement.cpp`, `SunlightEnhancement.cpp` | three sysfs nodes | get and set | a getter that throws and takes the process with it |
| USB gadget triggers | `ramdisk/init.samsungexynos7880.usb.rc` | `sys.usb.config`, `sys.usb.ffs.ready`, `sys.usb.state`, gadget nodes | one trigger per configuration | properties that change between firing and running, nodes nobody resets |
| init services | `ramdisk/init.vendor.rilchip.rc`, `init.vendor.rilcommon.rc`, `init.baseband.rc`, `init.samsungexynos7880.rc` | service states, properties | start, stop, `onrestart` | restart chains |
| Property loader | `init/init_sec.cpp` | the product properties | `vendor_load_properties` | a string shorter than expected stops the boot |
| Shims | `shims/` | none | stubs | nothing |
| Scripts | `extract-files.sh`, `setup-makefiles.sh`, `releasetools.py` | none | build time | argument parsing |
| Headers, data | `include/`, `configs/`, `overlay/`, `rro_overlays/`, `sepolicy/`, `seccomp/`, `bluetooth/`, `twrp/`, make files | none | none | declarative |

How they interact:

* The audio HAL (outside this repository) opens the amplifier module and calls
  `amp_enable_output_devices` as sound devices come and go, holding its own
  device lock. The amplifier HAL calls `tfa_power`, `tfa_device_open` and
  `tfa_device_close` of the driver, which calls `tfa_enable` of a prebuilt
  library and plays silence through tinyalsa to keep the I2S clock running.
* The camera service calls the camera wrapper from several binder threads; the
  wrapper calls the vendor's camera module.
* The LiveDisplay service is called over HIDL by one thread; it talks to the
  kernel through sysfs and to its own future through one file. `init` restarts it
  (its `.rc` file declares no `oneshot`).
* The USB triggers run in `init`, from a queue of property events, while `adbd`
  and the framework set the properties again. The name of the model comes from
  the bootloader through `vendor_load_properties` and reaches the gadget at boot.

What makes each correct:

* *Driver*: a power call is one command to the IC and returns its result; the IC
  is powered up only with the clock running; whatever fails, the clock thread is
  gone when the call returns; every call returns.
* *HAL*: `amp_state` is the truth about the IC; a used mode has power, an unused
  IC is off, up to failures of the vendor that the HAL reports.
* *Camera*: whoever passed `check_vendor_module` finds the module; a vendor
  device that is open can be closed and is closed once; an operation finds the
  device it forwards to open.
* *LiveDisplay*: the default survives a restart and is on the panel before a
  client is served; what a client has been told is so; a client that uses offered
  modes never makes a default the panel cannot show, as long as `mode_max` can be read.
* *USB*: the gadget ends up with the configuration that is asked for last, with its
  own product, functions and class; `sys.usb.state` shows it only when it is so; a
  configuration with adb waits for adbd.
* *Property loader*: the host never sees another name than that of the
  bootloader's model.

The complete list of hazards, each with its line and the properties that cover it,
is in `PROJECT.json`.

## 2. Modules

| Module | What it is |
|---|---|
| `TfaPower` | abstract specification: a power switch with callers, one command per call |
| `Tfa` | `tfa.c`, one action per step of a caller or of the writer thread between two points where another thread could interfere |
| `TfaProps` | its properties, the refinement to `TfaPower`, the inductive invariant |
| `TfaProofs` | the theorems about `Tfa` |
| `Amplifier` | `amplifier.c` over `TfaPower` (it EXTENDS the abstract switch, so its calls of `tfa_power` are those of `TfaPower`) |
| `AmplifierProps`, `AmplifierProofs` | properties, inductive invariant, theorems |
| `AmplifierStack` | the composition: the handlers of `Amplifier` on the threads of `Tfa` |
| `StackProps`, `StackProofs` | what holds of the two together, the refinement to `Amplifier`, theorems |
| `DeviceLease` | abstract specification: each of the vendor's camera devices is leased to one user at a time |
| `CameraWrapper`, `CameraProps`, `CameraProofs` | the same for the camera wrapper |
| `LiveDisplay` | the display modes: default, file, panel, restart |
| `DisplayService` | EXTENDS it to the whole process: getters, answers, the other three interfaces |
| `DisplayProps`, `ServiceProps`, `DisplayProofs` | their properties, inductive invariants and theorems |
| `DeviceInit` | `init_sec.cpp` and the start of the gadget at boot |
| `UsbGadget` | EXTENDS it with the triggers, init's event queue, adbd and the framework |
| `UsbProps`, `UsbProofs` | their properties, inductive invariant, theorems |
| `MCTfa`, `MCStack`, `MCCamera`, `MCDisplay`, `MCUsb` | instances for TLC |

Definitions whose comment begins with "Mutant" are wrong on purpose: each is a
plausible mistake in the definition after it, and no specification uses it. They
document, for every property of a passing run, a bug that the property catches
(`PROJECT.json`, "mutants").

### Tfa

Variables carry the names of the fields of `tfa_device_t`. `pc`, `on`, `rc` are a
caller's program counter, argument and result; `wpc`, `signaled`, `pcm` are a
writer's. `phase` says where the device is between `tfa_device_open` and
`tfa_device_close`; `opener` is the caller inside one of these.

| Actions | Code |
|---|---|
| `Power`, `Lock`, `Enable`, `ClockAlreadyOff`, `Unlock` | `tfa_power` 181-208 |
| `ClockOn`, `Mutex`, `Wait`, `SpuriousWakeup`, `ClocksEnabled` | `tfa_clock_on` 98-117 |
| `ClockOff`, `Join`, `JoinNoThread` | `tfa_clock_off` 119-133 |
| `Open`, `OpenFails`, `InitClockThenPowerUp`, `PowerDownAgain`, `OpenSucceeds` | `tfa_device_open` 215-273 |
| `Close`, `Free` | `tfa_device_close` 278-295 |
| `PcmOpen` to `Exit` | `write_dummy_data` 33-96 |
| `Crash` | the process dies; the IC keeps its state |

Choices a reader should know:

* The flags start with whatever `malloc` left (`Open`, constant `Heap`), because
  `tfa_device_open` calls `tfa_power` before it sets them.
* A join of a `pthread_t` that denotes no thread is undefined. The model allows
  that the process aborts (`Crash`) or that the call fails and is ignored
  (`JoinNoThread`).
* `pcm_open`, `calloc` and `pcm_write` may fail (`AudioFaults`), `pthread_create`
  may fail (`CreateFaults`), and `tfa_enable` returns any member of `RC`.
* A failed `tfa_enable` leaves the IC as it was.
* The reads of `initializing` (an `atomic_bool`) and of `writing` are single steps.
* Memory leaked when `tfa_device_open` returns NULL is not modelled: nothing
  depends on it.
* `OpenSucceeds` may end in `closed`: the HAL that gets the device may have no
  memory for its own part, and then loses it (amplifier.c 163-167).
* `Tfa` allows an open after a close, as the interface of `tfa.h` does. The HAL
  above it never does that within one process (run `amp_busy`).
* `Close` requires idle callers: the mutex is destroyed at its end, so the audio
  HAL must not be calling.

### Amplifier

`job` is the handler under way. There is at most one, because the audio HAL holds
its device lock around every call of the amplifier; the code has no lock of its
own. A job stands between the invocation and the return of a `tfa_power` call of
`TfaPower`, so a crash can hit it in the middle. `offFailed` and `excused` are
history variables, as are the fields `mode` and `counted` of a job: they record a
failed power down and the reason why a mode in use is silent, and no guard reads
them. There are three reasons, all of them reached: its power up failed
(`power_up`), the last user of the other mode left (`last_user`), or the other mode
was released although it had no user (`stray_release`): such a release counts
nothing (amplifier.c 95) and still finds a count of 0 (amplifier.c 108). Opens that change nothing (wrong
name, `-EBUSY`, missing library) are left out as they are stuttering steps.

`memset(amp_dev->refcount, 0, Audio_Mode_Max)` (line 186) clears two bytes where
two integers are meant; the `calloc` before it makes the counts zero all the
same, which is what `FreshDevice` says.

What a step does to the HAL alone is an operator of its own (`UsersChange`,
`HandlerReturns`, `DeviceFreed`, ...), which `AmplifierStack` uses as well.

### AmplifierStack

Here the handlers run on the threads of `Tfa` and not on the atomic switch:

| Actions | HAL | Driver |
|---|---|---|
| `ModuleOpens`, `DeviceOpens`, `DeviceOpened` | `amp_module_open` | `tfa_device_open` |
| `OutputDevices`, `TfaPowerReturns` | `amp_enable_output_devices` | `tfa_power` from its call to its return |
| `ModeSet` | `amp_set_mode` | none |
| `DeviceCloses`, `DeviceClosed` | `amp_dev_close` | `tfa_device_close` |
| `Inner` and the writers' steps | none, but for the IC's answer | what goes on inside `tfa_power` |

A crash is one of both, since they are one process. `call`, which `Amplifier` takes from
the abstract switch, is computed here from where the thread is in `tfa.c`
(`HandlerCall`). It differs from what `Tfa` shows its callers in one point: the last
`tfa_power` of an open or a close is over for the HAL when `tfa_device_open` or
`tfa_device_close` returns (`Returning`). `Driver!vars` is spelt out in `driverVars`.

### CameraWrapper

| Actions | Code |
|---|---|
| `Enter`, `CheckVendorModule`, `Load`, `LoadFails` | the entry points, `check_vendor_module` 92-111 |
| `VendorCall`, `OpenLegacy` | what they forward 336-400 |
| `Lock`, `OpenRefused`, `AllocDevice`, `VendorOpen`, `VendorOpenFails`, `OpenSucceeds`, `AllocOpsFails` | `camera_device_open` 244-334 |
| `UseDevice`, `VendorDeviceCall`, `DefaultSettings` | the operations of a device 113-211 |
| `CallClose`, `Close`, `CloseLegacy` | `camera_device_close` 213-242 |
| `DeviceFails`, `Crash` | the vendor and the process (external) |

A device is named by the vendor device behind it. `handle` says what the camera
service holds for it: nothing, a wrapper, or the vendor's own device from
`open_legacy`. `leaked`, `raced` and `answer` are history variables; `answer` is what
an entry point of the module last returned. When the vendor's module cannot be
loaded only `camera_device_open` returns an error: the other entry points answer 0, as
if they had done what they were asked for (`LoadFails`). Reading
`gVendorModule` and loading it are two steps (98 and 101), which is what makes the
race possible. A failed load may leave the pointer or store NULL, as
`hw_get_module_by_class` does depending on where it fails. Every step that
dereferences the pointer has `gVendorModule` as a guard; with NULL the process
dies, which is `Crash`. An open with a NULL name does nothing and is left out.

The operations of a device take no lock, so they run beside each other and beside
any open or close. The one thing the camera service promises
(`include/hardware/camera3.h` 321-328) is that it closes a device when no other
call of it is under way; that is `~InUse(d)` in `CallClose`. All of them forward,
but for `construct_default_request_settings`, which puts the vendor's answer into a
`CameraMetadata` (a library of Android, `Updated`) and adds an entry: `fatal` says
which vendor devices answer NULL, and the history variable `masked` whether the
wrapper has made settings of a NULL.

`DeviceLease` forgets all of that but where each vendor device is: `LeaseOf` in
`CameraProps` reads it off the threads, the handles and `leaked`.

### LiveDisplay

`file` and `panel` outlive the process. The actions follow the streams of
`setDisplayMode`: a mode number is put in a buffer and reaches the panel when the
stream is destroyed at the very end (`CloseMode`); the default file is emptied on
opening (`OpenDefault`) and filled when its stream is destroyed (`CloseDefault`).
The constructor's own call of `setDisplayMode` uses the same actions. `Exit`
stands for a failed registration, any other end of `main` and a death; `init`
starts the service again (`Construct`). Calls with an id outside of `kModeMap`
change nothing and are left out. `chosen`, `spoilt` and `refused` are history
variables.

### DisplayService

| Actions | Code |
|---|---|
| `Call`, `Proceed` | `setDisplayMode` and its answer, DisplayModes.cpp 103-123 |
| `GetDisplayModes` | `getDisplayModes`, 65-79, with a number or another text in `mode_max` |
| `GetDisplayModesBlindly` | the same without the file `mode_max`: all modes are offered |
| `GetDisplayModesUnread` | the same with a file that is empty or cannot be read: `value` is not initialised (67-70), so any modes may be offered |
| `CurrentMode` | `getCurrentDisplayMode`, 81-96, for a panel that can or cannot be read |
| `SetCalibration`, `SunlightSetEnabled`, `ReadingSetEnabled` | the setters of the other interfaces; each write may fail (`WriteNode`) |
| `GetThrows` | what `std::stoi` throws in two of their getters |
| `Start`, `Die` | `service.cpp`, a death and the restart by `init` |

The steps of `LiveDisplay` are all there; this module adds what a client sees.
`nodes` belongs to the kernel and outlives the process. Its first contents may be no
number (`NoNumber`), which is when a getter throws. What the getters of these
interfaces answer otherwise changes nothing and is left out. The history variables are
`offered` and `blind` (what a client was offered, and whether that was ever without a
number read from `mode_max`), `stray` (a client asked for what it was not offered) and
`told` (the last answer of `setDisplayMode`, with the default from before the call).

`setDisplayMode` answers before the panel's stream is destroyed, so the kernel may
refuse behind a `true`: `refused` is the excuse in `AnswersKept`, as `spoilt` is for a
default file that was emptied and not filled. A panel that cannot be read makes
`getCurrentDisplayMode` answer the default, so a `true` shows there only if the mode
was made the default. A `false` because the default file could not be opened does not
keep the panel from getting the mode (118, 122): what `AnswersKept` promises after a
`false` is the default from before.

### DeviceInit and UsbGadget

| Actions | Code |
|---|---|
| `LoadProperties`, `LoadThrows` | `vendor_load_properties` (init_sec.cpp): the model is the first five characters, a shorter name throws |
| `OnBoot`, `BootWith` | `on boot` (usb.rc 13-15) and the first value of `sys.usb.config` |
| `PopEvent` with `SetUpBy`, `StartedBy` | which trigger a property event fires, and `start adbd` |
| `Off`, `WriteProduct`, `WriteFunctions`, `WriteClass`, `On`, `SetState` | the commands of a trigger, one by one, in the order `After` |
| `StopAdbd`, `Unready` | the first commands of the trigger of `none` (external: it is in AOSP's `init.usb.rc`) |
| `AdbdReady`, `AdbdDies` | adbd (external): it sets `sys.usb.ffs.ready`, and is restarted by init |
| `Request`, `NoneShown`, `EndRequest` | the framework (external): it sets `none`, waits for `sys.usb.state`, sets the configuration, waits again, and gives up on either wait |

`ramdisk/init.samsungexynos7880.usb.rc` has 42 triggers; `PlainConfigs`, `AdbConfigs`,
`ProductOf`, `FunctionsOf`, `WritesClass` and `ClassOf` are its table. A configuration
with adb has two triggers: one that starts adbd on `sys.usb.config`, and one that
sets the gadget up on `sys.usb.config` together with `sys.usb.ffs.ready=1`. An
event is judged by the value it was queued with for its own property and by the
present value for the other one, as init does. Commands expand
`${sys.usb.config}` when they run: that is `config` in `WriteFunctions` and
`SetState`, which may by then be another value than the one the trigger is for.

Writes that are the same in every trigger (`idVendor`, `f_diag/clients`) are left
out, as are the constant writes of `on init`, `on post-fs` and `on post-fs-data`. `MaxRequests` and
`MaxDeaths` are bounds of the model. `overtaken` and `client.early` are history: adbd
was stopped before init had looked at its readiness; the framework saw a `none` in
`sys.usb.state` that was not the answer to its own. Both happen in the code as
it is, and the properties say that nothing else goes wrong but what they
excuse.

## 3. Runs

| Run | Instance | States | Shows |
|---|---|---|---|
| `tfa_safety` | 2 callers, 2 writers, results 0, -1, 1, all faults, arbitrary heap | 112,668 | safety of the driver, the inductive invariant, the refinement to `TfaPower`; devices are handed out powered down, but for a positive result |
| `tfa_live` | the same without failing `pthread_create` | 108,996 | every power call returns, loses no wakeup and joins a thread that exists |
| `tfa_heap` | | violation | a join without a thread in the first call of `tfa_device_open` |
| `tfa_stale` | | violation | a handshake that ends before the writer has signalled |
| `amp_safety` | HAL on driver: 2 threads, 2 writers, up to 2 users per mode, results 0, -1, all faults, arbitrary heap | 66,560 | state, counts and IC agree, a silent mode has one of three reasons; no handler leaves anything in the driver; the refinement to `Amplifier` |
| `amp_busy` | | violation | no second open after a close |
| `camera_safety` | 2 threads, 2 vendor devices, 1 camera, ids 0, 1, 2 | 427,491 | ownership of vendor devices, presence of the module, operations find their device open, opens answer what they have done; the refinement to `DeviceLease` |
| `camera_bounds` | | violation | the first id beyond the supported ones reaches the vendor |
| `camera_fatal` | | violation | settings out of a device that has failed for good |
| `display_safety` | 6 modes of which the panel takes 5, one strange number, one calibration | 1,774,320 | the default is remembered and restored, answers are kept, offered modes are safe |
| `usb_safety` | 3 bootloaders, configurations `mtp`, `rndis,adb`, `ncm,adb`, 2 requests, 1 death of adbd | 80,980 | the gadget settles on what is asked for, answers are true, adbd comes first, the model's name is right |
| `usb_hidden` | 1 request, `mtp` or `diag,acm,adb` | violation | a configuration a comment names and no trigger sets up |

Why these bounds are enough to meet the interesting cases:

* Two callers contend for `tfa_lock`; with one there is no contention, a third
  only waits as the second does. Two writers are what is needed for a second one
  to start before the first has been joined, which the properties forbid. The
  results are success and the two kinds of failure that the code tells apart
  (`rc < 0` and `rc != 0`).
* `MaxRefs` (a bound the code has not: its counts are plain integers) is 2, so
  that there is a first, a middle and a last user of a mode.
* The stack has no result 1: `tfa_device_open` takes it for a success, and what the
  HAL is to be told then is the assumption named under Proofs.
* Two camera threads make the race of two loads; two vendor devices let one be
  closed while another is opened. With one camera 0 is in the range, 1 is the id that
  the check lets through, and 2 is refused; `camera_bounds` and `camera_fatal` have the
  negative id as well, which the vendor turns away as it does 1. Threads and devices are symmetric and have no order in the model.
* `ModeMax` is 5, so one mode of the table is refused by the kernel.
* Two requests are one that is overtaken by another; the configurations are one
  with one trigger and the two classes of adb, 224 and 2, so that one can be left
  behind in the other. A death of adbd may come in each of its states. The
  bootloaders are a known model, an unknown one that is nothing but its five
  characters, and one that is too short.
* A client of the livedisplay service is any: each call may come at any time.
  Calibrations are not told apart by the code, one is enough.

The USB runs switch the deadlock check off: init without an event, or aborted,
and a framework that asks for nothing are where that system rests. In all
other runs it is on: a process can die in every state in which it is alive, and
begin again when it is not.

### Fairness

`FairSpec` of `Tfa` asks for weak fairness of every thread that is inside
`tfa_power` and of every writer: the kernel schedules runnable threads. It asks
for strong fairness of a writer's step that takes the handshake mutex: a caller
that is woken spuriously again and again takes the mutex again and again, and a
futex-based mutex does not keep a waiter out for ever. There is no fairness on
calls, crashes, spurious wakeups or faults. `PowerReturns` speaks of callers that
hold `tfa_lock`; who gets the lock next is not promised to anyone.

`UsbFairSpec` asks for weak fairness of init as a whole (it has one thread, which
takes the next command or event whenever there is one) and of an adbd that is
starting. Nobody has to ask for anything, to wait, or to give up, and adbd
may die.

### Disagreements found

Six runs are expected to be violated. Each checks what a comment or a message in
the code says (`PROJECT.json`, "findings"):

1. `tfa_heap`: `clock_enabled` is read (tfa.c:202) before it is set (tfa.c:256).
2. `tfa_stale`: a writer that failed leaves `writing` set (tfa.c:88-93), and the
   next `tfa_clock_on` does not wait.
3. `amp_busy`: `amp_dev_close` leaves the static pointer (amplifier.c:130-139).
4. `camera_bounds`: `>` for `>=` (CameraWrapper.cpp:264).
5. `camera_fatal`: camera3.h:337 and 3242 want NULL of a device that has met a fatal
   error; the wrapper adds its entry to whatever it gets (CameraWrapper.cpp:148).
6. `usb_hidden`: usb.rc:245 names `diag,acm,adb`; there is a trigger for
   `dm,acm,adb`.

The passing properties name what these leave open: `fault`, `phase =
"powerdown1"` and the like are the exact conditions under which the stronger
statement fails.

## 4. Proofs

TLAPS proves the theorems listed in `PROJECT.json` for every value of the
constants that satisfies the named assumptions: any number of callers, writers,
camera threads, devices and cameras, any vendor results, any panel, any set of
requested configurations, any number of requests and deaths.

**Driver** (`TfaProofs`). None of the properties is inductive. `IInv` adds

* `LockInv`: the owner of each mutex is who stands in its critical section;
* `PhaseInv`: outside of `open` only the opener acts;
* `ClockInv`: what `clock_enabled`, `initializing`, `writing` and `write_thread`
  are at each point of `tfa_power`;
* `ThreadInv`: a caller that will join has started a writer, with two excuses;
* `PoweredDownInv`: the last power down of `tfa_device_open`;
* `WriterInv`: there is one writer, which `write_thread` names, how far it can be,
  and that its loop ends only when its caller is joining;
* `HandshakeInv`: without a fault, `writing` is the doing of the writer that is
  streaming now;
* `WakeInv`: a writer does not end without its signal, what has been signalled is
  still in `writing` for the caller of the handshake, and nobody sleeps over it.

The heart of the argument is that `write_thread # NoThread` holds exactly while a
writer lives (`WriterInv`) and that `tfa_lock` is not released before it is
NoThread again (`ClockInv`). `HandshakeInv` is what a stale flag breaks, and why
`EnableClocked` has `fault` in it. Each conjunct has a lemma that every action
keeps it; `Inductive` collects them, and the safety theorems follow by cases on
where a caller stands. `OpenedOff` holds for any results: `OpenedPoweredDown` names
the positive one of the last power down, which `tfa_device_open` takes for success, as
the only case in which a device is handed out that may be powered.
`WakeupsAreKept` is the safety half of `PowerReturns`, and holds with every fault: a
caller in the handshake either finds `writing` set or has a writer with the signal
still to give. The other half, that the writer is scheduled, stays with TLC.

`PowerImplemented` is the refinement: `Enable` maps to the atomic `Command`,
entering and leaving map to `Invoke` and `Respond`, a death to `Die`, all else
to stuttering.

**HAL** (`AmplifierProofs`). `AmpInv` says in addition what the call under way is
about (`JobInv`), where the IC is in the middle of a handler (`MirrorInv`), and that a
mode in use has power, or one of the three reasons of `excused`, or is being powered up
(`ExcuseInv`).
Type correctness needs no assumption on the vendor. The other theorems assume
that `tfa_enable` fails with negative results: `tfa_device_open` looks at
`rc < 0` only, so with a positive result a device could be handed out powered.

**HAL on driver** (`StackProofs`). Three steps lead from the theorems about each
program to the two together. Every step of the stack is one of `Tfa` for the driver's
part (`DriverRuns`), so that `IInv` holds under the HAL without a new proof: the theorem
of `TfaProofs` is cited through an INSTANCE of it, `Proved`. `StepInv` then says that
the driver is where the handler under way has called it and with what it was told, and
that nobody else is in it; with `PhaseInv` of the driver it is inductive. From it
every step of the stack is a step of `Amplifier` or invisible to it (`HALStep`), which
makes the invariants of `Amplifier` available again and gives `HALImplemented`, and
`PromisesKept` carries the theorems of `AmplifierProofs` over. `DriverIsQuiet` joins
both sides: no handler means nobody inside the driver (`StepInv`), hence `tfa_lock` free
(`LockInv`), hence no clock and no writer (`ClockInv`, `WriterInv`). Only `PromisesKept`
needs negative results.

**Camera** (`CameraProofs`). `CamInv` adds where a thread can be in which entry
point (`PlaceInv`) and that the lock is held by whoever is inside
(`CamLockInv`). `CallsReachDevice` is the theorem about the operations without a
lock: it rests on `~InUse` in `CallClose`, and on `HeldOnce`, by which nobody else's
close is of the same device. `LeaseImplemented` is the refinement to `DeviceLease`: a
step of a thread moves the device it has in its hands and no other (`LeaseStays`, from
`HeldOnce`), and moves it one step on its way; all other steps move none.
`AnswerIsTrue` is the action property that an open answers success exactly if it has
handed out an open device; its one exception is `open_legacy` without a vendor module.

**LiveDisplay** (`DisplayProofs`). `DisplayInv` adds who is calling and how far
the call can be (`CallInv`), and that memory and file agree or the file is on
record as spoilt (`DefaultInv`). `ServiceRefinesDisplay` shows that the whole service
implements `LiveDisplay`, each of its steps being one of the display modes or a
stutter, so that all theorems about the display modes hold of it. `ServiceInv` adds
where a mode beyond `mode_max` can come from (`ShowInv`), what a call that is under
way has already kept of its answer, `true` or `false` (`ToldInv`), and what a node can
hold (`NodesInv`).

**USB** (`UsbProofs`). The queue is why nothing is inductive as it stands. `LastInv`
and `FreshInv` say what is in it: the last setting of `sys.usb.config` is its value,
and so is everything behind the last `none`. `RunningInv` relates the trigger under
way to it, `SetUpInv` says what that trigger has already written, and `ClassInv`
that the class of another configuration is reset by a `none` that is still to
come. `SettledInv` is `Settles` for a moment when other events are waiting: nothing is
left to be done for the configuration that is asked for, or adbd or its event is
on the way. `AnswerInv` is what makes an answer true: who has not come too early
waits while no `none` is unfinished. `PhaseInv` and `AdbdInv` hold the boot and adbd.

Only model-checked: `PowerReturns` and `ConfigShown` (liveness under fairness is out
of the prover's reach). Nothing here is recursive or needs induction over data.

Assumptions from outside of the repository: the audio HAL's lock around the
amplifier's handlers; that it does not close a device it is using; negative
results of `tfa_enable` (where named); that the camera service gives up a handle
when it closes it and closes a device that is not in use; the single thread of the
HIDL pool; init's queue of property events and AOSP's trigger of `none`; the
framework's order of `none`, wait, configuration; an adbd that says it is ready
whenever it has come up.

## 5. Not modelled, and why

* Vendored headers (`include/`): 11.6 of the 13.8 thousand lines of C and C++ here are
  interfaces and constants copied from AOSP and Samsung, without a program. What
  the modules stand for is most of the rest that is code, about 1,100 lines, and a
  small share of all lines; without the headers there are not enough of them to be
  a third. What `camera3.h` promises of a device is
  where `FatalErrorsPass` and `~InUse` come from.
* The services of modem and RIL and their `onrestart` lines: the daemons are prebuilt,
  and what init does with a service it does not know is decided outside of this
  repository.
* Buffers, logging, `dlopen` and its results beyond "it failed"; the settings that
  `construct_default_request_settings` clones and nobody frees (CameraWrapper.cpp:166):
  memory is not counted.
* Shims, configuration, overlays, policy, make files: no protocol or no program.
  Scripts that run at build time: one thread, seen by who runs them.
* A power cut that loses written pages of the default file: the code never
  syncs, so nothing could be promised.
* The names of the modes and the digits of a calibration: no property tells them
  apart.

## 6. Plan

*Done*: driver, HAL, the two together, camera wrapper with the operations of its
devices, the whole livedisplay service, the USB triggers with the boot that precedes
them: models, runs, theorems.

*Left*, in order:

1. Liveness of the stack: that a handler returns (`job` against `PowerReturns` under the
   fairness of `Tfa`), for TLC.
2. The argument parser of `extract-files.sh` as a function of its arguments, against
   a reference definition.
3. `Services`: the `onrestart` chains, if the behaviour of init is described in this
   repository.
