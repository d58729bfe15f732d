# Verification of the device code of the ASUS Transformer Pad Infinity (TF700T)

The repository holds what CyanogenMod needs to run on one tablet: an audio HAL
in C, a native and Java library for the keyboard dock, a settings application,
small start-up programs, and the scripts that build update packages.  These
modules specify the parts of it that keep state, have TLC check them on small
instances and TLAPS prove what matters most for every instance.

Every action is translated from the source; `PROJECT.json` gives the lines of
each definition.  Properties whose violation is expected state what a comment
of the repository says and the code does not do; they are the findings.

## 1. Inventory

| part | state | operations | hard about it |
|---|---|---|---|
| **audio HAL** `audio/audio_hw.c` | device: mutex, `devices`, `orientation`, `screen_off`, `active_out`, `active_in`, `mic_mute`; per stream: mutex, `standby`, `pcm`, configuration, buffer type, thresholds, capture buffer | the functions put in the tables of `adev_open`, `adev_open_output_stream`, `adev_open_input_stream` | called from several threads of the audio server; two levels of locks, one of which is let go for each transfer; one direction stops the other; pacing against a kernel buffer that drains by itself |
| **audio routing** `audio/audio_route.c`, `configs/mixer_paths.xml` | paths; for each control the remembered, wanted and reset value | parse at start; reset, apply, update at each routing | only changes are written, so a wrong memory shows much later |
| **dock keys** `asusdec/.../KeyHandler.java`, `jni/...KeyHandler.cpp` | docked, touchpad on or off, the screenshot connection and its timer | dock events, key events, service callbacks | asynchronous services, a timeout that races with a late reply |
| **dock battery** `asusdec/.../DockBatteryHandler.java`, `jni/...DockBatteryHandler.cpp` | paths found at load, last reported values | `update`, `process`, `hasNewData` | separate calls over six files that change between them |
| **dock embedded controller** `asusdec/.../DockEmbeddedController.java` | wake-up flag | read, set | a shadow of a device register |
| **AutoParts** `AutoParts/.../DeviceBroadcastReceiver.java` | the notification, timers | broadcasts | a receiver object lives for one broadcast, its timer longer; the process may end in between |
| **Wi-Fi MAC writer** `wifimacwriter/wifimacwriter.c` | `/data/misc/wifi/nvram.txt` | one run at each start of the tablet | power loss between steps, a file that exists counts as done |
| **update packages** `releasetools/` | lists of files, the permission tree, worker threads over one iterator | full and incremental package | threads sharing a lock; a long sequential script |
| **blob packer**, **hardware settings**, **mischelp** | none, or one sysfs file | one function each | nothing beyond arithmetic and I/O |
| data: overlays, `idc`, `prebuilt`, `ramdisk`, `selinux`, `bluetooth`, `configs` | | | read by other programs |

How they meet: the audio server calls the HAL, the HAL calls the routing code
under its device mutex and the kernel PCM under a stream mutex.  The window
manager hands key events to `KeyHandler`, which tells AutoParts by broadcast
what it did.  The battery service calls `DockBatteryHandler`.  `init` runs the
MAC writer before the Wi-Fi driver is loaded.

What would make each correct: the HAL never transfers on a closed PCM, never
follows a dangling `active_*`, always shows the present routing, and serves a
routing call while music plays; the battery service is told what the kernel's
files say, and nothing twice; a write paces itself without long sleeps or
jumps; a read hands out each captured sample once and in order; the routing
shows the last selection and nothing older; the keyboard's notification and the
hardware agree with the state kept in software, and a screenshot connection is
let go; the MAC file survives a power loss; the package tool ends and loses no
file.

## 2. Modules

| module | models | relation |
|---|---|---|
| `AudioHal` | `audio_hw.c`: devices, streams, locks, routing, starting and stopping | |
| `AudioDevice` | what the HAL promises of streams and routes, in four actions without threads | implemented by `AudioHal` |
| `WriteThreshold` | `audio_hw.c:659-809`: pacing of writes | the running part of a write of `AudioHal`, on one stream |
| `CaptureBuffer` | `audio_hw.c:442-538, 846-1010`: capture buffer, conversion, end of a read | the running part of a read of `AudioHal`, on one stream |
| `AudioRoute` | `audio_route.c`: parse, apply, update | what `select_devices` of `AudioHal` calls |
| `Codec` | what the routing promises, in three actions | implemented by `AudioRoute` |
| `KeyHandler` | `KeyHandler.java`: dock events, touchpad key, screenshot | |
| `DeviceBroadcastReceiver` | `DeviceBroadcastReceiver.java`: notification, timers, wake-up flag | |
| `DockNotification` | the two above with the broadcasts between them | composes `KeyHandler` and `DeviceBroadcastReceiver` |
| `DockBattery` | `DockBatteryHandler.java` and its native half, with the kernel that changes the files | |
| `WifiMac` | `wifimacwriter.c`, with the flash behind it and the power | |
| `*_proofs` | theorems of the module they extend | |
| `MC*` | constants for TLC | |

Definitions marked `\* mistake` are variants of a definition with a bug one
could plausibly make; no behaviour uses them, they serve to show that each
property notices its bug.

### AudioHal

Threads call functions of the tables; `pc[t]` is where a call stands, `op[t]`
and `on[t]` which call and which stream.  A call is cut where it takes or
releases a mutex, since between two such places no other thread can see what it
does, with two exceptions the code itself makes: `screen_off` is written with no
lock (`SetScreenState`), and the transfer happens in place `io` with the stream
mutex alone.  The places: `adev` waits for the device mutex, `stream` for the
stream mutex with the device mutex in hand, `start` for the mutex of the other
direction's stream inside `start_*_stream`, `select` is inside
`select_devices`, `io` is the transfer, `free` the end of a close.

`mixer` and `dsp` are the codec and the voice DSP: `select_devices` sets them
from `devices` and `orientation` in one step, under the device mutex.  The open
of the DSP's device and each ioctl may fail (`audio_hw.c:201-242`, where it is
only logged, or not even that): then `dsp` is "unknown", which stands for any
mode an earlier routing, or the part of this one that got through, has left it
in.  `DspMatchesRoute` says that the next routing whose controls arrive makes
that good, and that nothing else makes the DSP differ from the route.  Device
masks are sets; `devices` merges outputs and inputs as the code does.
`stale` is a history variable: the outputs that have not written since the
conditions for the buffer type changed.  A start that fails gives back the
device mutex at once (`StartFailed`) and its stream's only at the exit of the
call (`ExitAfterFailure`): `out_write` before its sleep, `in_read` after it.
The rate test in `start_*_stream`, which would stop the other direction and then
unlock through the pointer it has cleared, fails for the rates of the #defines,
all of one group, whatever the comments there say of SCO: `RatesAssumption`
states that, and the branch is not modelled.
`pcm_open` fails when the kernel refuses (`PcmBusy`, external) or for no reason.
A client does not call a stream it has closed or is closing (`InUse`,
`Closing`), which is the contract of the HAL interface.

`ActsAsDevice` maps the HAL to `AudioDevice`: `link[s]` are the Bluetooth
devices now routed for stream s, `playing[s]` the PCM it has open while it is
not in standby, `due` the paths of the present routing and orientation, `shown`
those of the codec.  `Route` of the abstract device says when a routing call
interrupts: a stream falls silent in the very step that changes its Bluetooth
devices (`out_set_parameters`, `in_set_parameters`: the change and
`do_*_standby` are under one hold of both mutexes), while a stream whose Bluetooth devices stay
the same plays on.  It also says that nothing starts before the codec shows the
routing, and on which PCM it starts.  All that happens between lock operations
is a stutter.

### WriteThreshold

One write at a time on the main PCM.  `fill` is what the kernel holds and may
drain between any two steps (`Play`); `kernelFrames`, `total` and `nap` are the
locals, `known` tells whether `kernel_frames` was ever assigned in this call: if
`pcm_get_htimestamp` fails first, its value is any member of `Garbage`.
`tainted` remembers that a garbage value has decided the threshold; it
distinguishes what the code guarantees when the time stamp works.  A start or a
`pcm_write` that fails sleeps for the length of the frames at the end of the call
(`SleepAfterFailure`), without the stream mutex, so that standby may come in
between; an underrun (`-EPIPE`) does not sleep.  A quarter
period is `Quarter` units of length; times are counted in the frames that play
meanwhile.

### CaptureBuffer

One input stream.  Samples are numbers: the frame with number n has left sample
2n and right sample 2n+1, memory never written is `Junk`, so order, loss and
mixing of channels are visible.  The resampler is external: each `Pull` asks for
any number of frames up to `MaxNeed` and consumes what it gets.  `given` is what
it got since the last start, `content` says what the caller's buffer holds.

### AudioRoute and Codec

The document is the sequence of events expat delivers.  `todo` are the calls
still to come of `select_devices`; `asked` the selection it works on.  `Codec`
knows no parser, no wanted and no remembered values: it loads, is asked, and
shows the overlay of the paths asked for over the initial values.  What a
document means (`InitialValues`, `PathValues`) is defined from the nesting of
its tags, not by replaying the parser.  The step from `AudioRoute` to `Codec`
maps `hw` to `shown` and `resetValue` to `base`.  Setting a control may fail
(`Unreliable`: the controls that may), which the code does not look at: it
remembers the value all the same.  `missed` is a history variable, the controls
whose last setting failed; `RemembersTheCodec` and `Codec` except just these,
which keep what they had until another value is wanted.  Reads of the mixer at
the start, and at the end of the parse, are taken to succeed.  `path_apply` is written as what
its loop leaves behind: of each control the last setting.  `WellFormed` says of a
document what expat checks, that tags are nested, and what the code relies on,
that a setting is in a path and no path names itself; TLC evaluates it for the
documents of the runs.  `path_add_path` ends at the first setting
the path has already and so leaves out what follows: `DropsNothing` says that
what it leaves out is there already too, and is the condition under which a
path means what its text says.  `Tidy` is a condition on the text that is enough
for it: wherever a path is named inside another one, from the first of its words
that repeats a control on, all its words only repeat controls.  It holds of the
shipped file, no path of which names another, and of the nested one of the run,
in one path of which `path_add_path` does give up in the middle of a sub-path;
TLC evaluates it for both (`FilesAreTidy`).  A value stored behind the
list (see findings) is only noted: what it does to the heap is outside of the
module.

### KeyHandler

Two threads of the system process: `keyPc` (input thread, in
`toggleTouchpad`) and `dockPc` (main thread, in `mDockReceiver`) cut a handler
where it reads the shared `mTouchpadEnabled`, talks to the controller and
stores the setting.  Fields are read and written in memory, as Dalvik does; a
stale read would have the effect of the race the model has.  What is under
`mScreenshotLock` is one step.  `ec` is the touchpad as the controller has it:
any value when the tablet is put into the dock, since nothing says what it
starts with.  `Construct` is a restart of the system process at any point, with
the dock event that the system sends again then (external).

Two things the code does not promise are told apart by history variables:
`failed`, since the result of the ioctl is not looked at, and `raced`, since a
key handled while `mDockReceiver` is between its read and its ioctl is
overwritten until the next dock event (a hazard in the list).

The screenshot is a protocol with a service that answers, dies, is connected
again or is silent; connections are numbered, so that callbacks and answers of
an earlier one can arrive during a later one.

### DeviceBroadcastReceiver and DockNotification

AutoParts runs on one main thread.  Since its receiver is declared in the
manifest, each broadcast is received by a new object; `receivers` counts those
made for keys, and a timer belongs to the receiver that posted it.  So
`removeCallbacks` (line 180) removes nothing, and an earlier timer takes a later
notification away, though the comment at line 178 says "Cancel any running
notification callback": the model has that step (`mCancelKpNotifications`), and
no property claims what the comment says.  A key is three steps, receipt
(`checkKeyPadKeyPressed`), `displayNotification` and `PostCancellation`, between
which nothing but the end of the process can come.  An end before the
notification loses the key: `lost` is a history variable, such a loss of a
touchpad key until something is shown again.  An earlier notification may stay
then, its timer gone with the process, and say the opposite of the choice;
`TellsTheChoice` excepts just that.  Titles are reduced to the touchpad's two and
"other".

`DockNotification` joins both programs by the broadcasts: a queue of keys, and
one dock event per receiver, which a newer one replaces.  A restart of the
system process is one of all of Android.  The keys that only notify
(`KeyHandler.java:388-535`), and here the screenshot too, are `OtherKey`.

### DockBattery

The battery service (external) makes a round for each event of the kernel:
`at` counts through the six reads of `nativeDockBatteryUpdate`, then `process`
and `hasNewData`.  `files` is what the kernel's files hold and may change
between any two reads; a change sends an event (external: the power supply
class of the kernel does so, and an event that comes during a round leads to
another).  `found` are the paths the library found when it was loaded: where the
type of a directory could be read and `access` says that the file is there, which
says nothing of what a read of it will give.  A file that was not found, is not
there any more or cannot be read gives the default of its reader.  `told`
is what the last broadcast said.  `Restart` is that of the system process.

### WifiMac

A step is a system call that can fail or that changes `/data`.  `seen` is what
programs see of `/data`, `disk` what the flash holds; nothing is flushed, so
`WriteBack` (external) may bring any part of the text to the flash at any time,
and `PowerLoss` sets `seen` back to it.  The text is the set of its pieces: the
chip's, the MAC address, the line that overrides the driver's, and `junk`, the
byte `read_file` leaves unset before its terminator.  `old` says that the flash
has not heard yet of a truncation.  The code looks at the results of some calls
only, and has no defence against what it does not look at (these are in the list
of hazards); history variables tell such cases apart: `harmed`, a short write, or
a power loss before the text was on the flash; `overlooked`, a `stat` of the file
that failed in this run, for whatever reason, so that the run takes the file for
missing and truncates it; `stuck`, an `umount` or `rmdir` of this run that
failed.  The properties say what holds otherwise: `CleansUp` that a run whose
own two calls succeed puts right what any earlier one has left, `FileIsKept` that
the file stays through everything, and its text through all but a failing `stat`.

## 3. Runs

| run | question | result |
|---|---|---|
| `audio_hal` | 2 threads, 1 output, 1 input, three output devices (speaker, headset, SCO), microphone and SCO microphone, two orientations, starts and the voice DSP failing or not: do streams, locks, codec and routing agree, are they together the device of `AudioDevice`, and does a routing call get its stream mutex, and nobody before it? | six invariants, `NoCircularWait` among them, `NobodyOvertakes`, the refinement and `SetterIsServed` hold, 722,496 states |
| `audio_two_inputs` | two input streams: is only the main or the SCO PCM open for capture? | violated |
| `write_threshold` | any sizes of write, any draining, the buffer type changing at any call, starts and writes failing: thresholds, fill and sleeps | holds, 3,444,060 states |
| `write_reset` | is a reset of the threshold above the fill even when the time stamp fails? | violated |
| `capture` | reads at rates at and below the PCM's, failures, mute, standby, SCO: order, bounds, silence when muted | holds; every round of the loop brings its end nearer (`RoundsRunOut`), and every read ends |
| `capture_restart` | does the resampler get only captured frames? | violated |
| `audio_route` | the shipped file and one with nested paths, any value of the controls before, any sequence of selections, two controls that may refuse a value | implements `Codec`, what is remembered is what the codec has, and no setting is dropped, 134,034 states |
| `audio_route_list` | is every value stored in the list? | violated |
| `dock_keys` | docking, touchpad keys, restarts, two screenshots | holds, about 143,000 states; every screenshot ends |
| `dock_notification` | two keys or more after restarts, dock events, either process ending at any point | holds, 370,396 states; notifications go |
| `dock_battery` | two values of the level, the status and four switches, a file that comes and goes or cannot be read, directories that were not found, restarts in the middle of a round | at rest the system knows what the files say, and each broadcast is news; 1,394,304 states |
| `wifi_mac` | any number of starts, each call failing or not (`stat`, `umount` and `rmdir` too), power loss anywhere | the file is kept, and usable unless harmed; success is true; what earlier runs left mounted goes; 58,196 states |

Bounds.  Two threads are enough for every pair of calls to interleave, and each
thread performs any number of calls; a third adds no pair.  One stream per
direction is what the audio policy opens (`audio_two_inputs` shows what a second
one does).  The write sizes 3 and 8 of an 8-unit period reach a partial and a
whole period; `Garbage` has values on both sides of each comparison made on it.
`Period = 6`, `PcmRate = 4` and rates 1 to 4 give needs below, at and above a
period; `MaxNeed` bounds one request of the resampler, `MaxFrames` the frames
captured in a behaviour: enough for three refills and a restart.  The two
documents of `audio_route` are finite data; `Unreliable` are two controls, the
switches of speaker and microphone, since each further
one only multiplies the states.  `MaxShots = 2` lets the second
screenshot meet what is left of the first, `MaxKeys = 2` a notification the
timer of an earlier one; docking, undocking, touchpad keys and restarts are not
bounded in `dock_keys`.  A change from one Bluetooth device to
another, a new `link` on the same PCM, needs two of them: `ImplementsDevice`
covers it for any masks, the run has one.
In `dock_battery` two values of a file are enough to tell it from what was last
read, and the plug's three outcomes occur; rounds, changes and restarts are not
bounded.  `wifi_mac` has no bound at all.  `CHECK_DEADLOCK` is on in every run.

Fairness.  `AudioHal!FairSpec` asks that a thread in a call which can go on does
so (`WF_pc(Step(t))`): the scheduler runs every thread and a PCM transfer
ends.  It does not ask a mutex to be fair: a thread waiting for a mutex that is
free only now and then has no strong fairness.  `SetterIsServed` therefore holds
only because a write queues for the device mutex, as the comment at
`audio_hw.c:673` says.  `CaptureBuffer!FairSpec` asks that a read that is under
way goes on; calls are never forced to begin.  `KeyHandler!FairSpec` asks that a posted
timer of the handler runs out, and nothing of the screenshot service;
`DockNotification!FairSpec` that AutoParts ends what it has begun and its timers
run out, and nothing of keys or broadcasts, nor that the process lives.

## 4. Findings

1. `audio_two_inputs`: the start of a second input makes it `active_in` and
   forgets the first, whose PCM stays open: against the comment at 380-384, the
   main microphone and SCO PCMs can be open together.
2. `write_reset`: `kernel_frames` is read uninitialised if the first
   `pcm_get_htimestamp` fails (742-745, 785): the threshold may be set below the
   fill, against the comment at 771-773.
3. `capture_restart`: `frames_in` survives standby though its buffer does not;
   the first read after a restart hands unfilled memory to the resampler.
4. `audio_route_list`: the initial value for `DMIC Mute Right ` (with a space)
   in the shipped file finds no control and is stored behind the list.  Were the
   codec to spell it so, the four paths without the space would do the same.

Differences between comment and code that need no run to be seen, since one step
of the model shows them: `DeviceBroadcastReceiver.java:178`, "Cancel any running
notification callback", where the callback removed is that of an object just
made; and the comments at `audio_hw.c:326-331` and `393-398`, which give SCO a
rate of another group than the main PCM, where line 58 gives it the same.

## 5. Proofs

Theorems are of `Spec`, for every value of the constants that meets the named
assumptions of the modules.

* `AudioHal_proofs`.  `Inv == Typed /\ Holding /\ Calls /\ Running`.  The
  invariants of the runs are not inductive by themselves: that a running stream
  has an open PCM at place `io` rests on who holds which mutex at which place
  (`Holding`), that on which places a call of each kind passes (`Calls`), and
  both together give what a running stream looks like (`Running`).  Each action
  has a step, and under it one for each conjunct it can disturb.  `TypeCorrect`,
  `IoPcmStaysOpen`, `ActiveNeverDangles`, `MixerHasNoMemory` and
  `DspFollowsRoute` hold for any number of threads and streams;
  under `OneOfEach`, one stream per direction, there are three more.
  `RunsAsActive` is false without it (finding 1).  `ImplementsDevice` is the
  refinement: `ImplInv` joins the invariants above, `MapStutter`, `MapStop`,
  `MapStart` and `MapRoute` say when a step of the HAL maps to which step of the
  device, and `TogglingStep` that the code's test, which devices of the SCO mask
  differ, is the test of `AudioDevice`, whether `link` does.
  `LatencyIsThatOfBuffer` rests on `Buffered`, what a running output knows of
  its buffer at each place of a write.  `NobodyWaitsInACircle` is the absence of
  deadlock as far as it can be said without `ENABLED`: a start holds the device
  mutex and its stream's and asks for that of the other direction, but it is the
  only one, so who has the other is in a transfer and waits for nothing
  (`AtItsStream` and `Holding`).  `WaitingIsStandingStill` says that `WaitsFor`
  is a wait; that a thread inside a call which waits for nobody can go on is
  left to `SetterIsServed` and the deadlock check of the run.  `WritersQueue` is
  what `SetterIsServed` rests on, without its fairness: the mutex of a stream is
  only taken with the device mutex in hand, so while a call waits for it so,
  nobody else takes it.  `RunsOnTheRoutedPcm`, under `OneOfEach`, is the part of
  the refinement that can be said of a state: a running stream uses the PCM its
  present route asks for.
* `WriteThreshold_proofs`.  `Inv == Values /\ Stage /\ Filling /\ Sleeping /\
  Pace`.  The heart is `Pace`: unless garbage decided it, the threshold is at
  least five quarter periods, and at the beginning of a call the kernel holds at
  most seven quarters more than that, less than the longest sleep of eight; so
  the limit on sleeping never cuts a wait short.  `NeverSleepsLong` counts the sleep
  after a failure too: a period at most, and without the stream mutex.
* `KeyHandler_proofs`.  Two invariants that do not meet: for the touchpad, what
  is stored, on its way to the controller and set there at each place of the two
  handlers; for the screenshot, `BoundIsHeld` and `TimeoutIsOwn` themselves,
  which are inductive.  `TimeoutIsOwn` says both halves: no timeout outlives its
  connection, and no connection is without one, which is what `ScreenshotEnds`
  rests on when the service is silent.  For any number of screenshots.
* `DockNotification_proofs`.  The receiver's invariants need that an undock event
  to be delivered is about a tablet that is out (`Events`).  `TellsTheChoice`
  rests on `Told`: between keys, the last touchpad key in the queue or, if there
  is none, the one AutoParts has at hand or, if there is none either, the
  notification on display says what was chosen, unless a key after it was lost.
  For any number of keys.
* `CaptureBuffer_proofs`.  `Inv == Values /\ Call /\ Left /\ Content /\
  LeftSamplesInOrder`: `Content` says which captured frame is at which place of
  the period buffer after the right channel was thrown out in place.  Truth
  values are kept in a separate invariant, so that arithmetic and propositional
  leaves stay apart.  `MutedIsSilent` adds that who was muted at the begin and
  since is muted at the end.  `ReadsRunOut` is what `ReadEnds` comes to without
  fairness: `RoundsLeft`, a number computed from the frames to give, those the
  resampler may still ask for and the state of the period buffer, goes down in
  every round of the loop.  `OnlyLeftoversAreUncaptured` is the other side of
  finding 3: memory that was never filled gets to the resampler only after a
  start that kept `frames_in`.
* `DockBattery_proofs`.  While no event is pending, the fields read so far in the
  round are what the files say now, since a change would have sent an event;
  and `told` is `last` as soon as there was a first broadcast, so that the
  comparison with `last` is one with what the system knows.
* `AudioRoute_proofs`.  Three layers.  *Operators*: `MeaningOfAdded`,
  `MeaningOfJoined` and `MeaningApplied` say what `path_add_setting`,
  `path_add_path` and `path_apply` do to `Meaning`, the value a sequence of
  settings gives each control.  *Parser*: `IInv == ValuesOK /\ PathsOK /\ PhaseOK`
  in its parse part says which tag was opened where (`Depth`, `InsideTheLast`)
  and in its phases what the wanted values are before each call: the initial
  values as far as they are read, the paths of the selection laid over the reset
  values as far as they are applied; `Written` what an update makes of the codec
  when settings fail, from which `RemembersWhatWasSet` follows; `Built` says that each path means what the
  tags read so far inside it say.  *Refinement*: `SelectShows`, `InitLoads` and
  `SelectAsks` map the steps to those of `Codec`.  Where an induction over a
  document is needed it is one over the least counterexample (`WFMin`), for which
  no operator need be handed to a theorem: so `SaysOne` shows that only one
  function gives each path what is inside of it, `PathValuesAre` that
  `PathValues` is that function.  `ImplementsCodec` assumes `DropsNothing` of the
  behaviour; it is false without: a path that has already the first of two
  settings of a sub-path never gets the second.  `FlatFilesAreShown` needs no
  such thing, and is about every file shaped like `mixer_paths.xml`.
  `TidyFilesLoseNothing` replaces the hypothesis on the behaviour by one on the
  text for files with paths in paths too: its invariant `AsNamed` says that a
  path sets the controls named inside it so far, in the order in which they are
  named first, so that the settings of a sub-path from the first repeated one on
  are of words from the first repeating one on; `TidyFilesAreShown` joins it with
  `ImplementsCodec`.  `Tidy` contains the equation of the recursive function
  `PathControls`, since that this has a solution for every file is an induction
  over data; a file whose paths have different names and name only earlier ones
  has it.
  `KnownControlsStoreInTheList` is the other side of finding 4: only a name that
  no control has is stored behind the list.
* `WifiMac_proofs`.  `Order` says that before the open no file is seen or `stat`
  has failed, and that the flash holds nothing of the file's text which is not
  seen but for a truncation it has not heard of, so without such a failure the
  open with `O_TRUNC` meets no file on the flash either; `Success` follows the
  MAC address from the text to the file as long as there is no error, `Finished`
  the mode to the end of the program, and `Cleanup` the mount and its directory
  through `umount` and `rmdir`, each of which may fail.

Proved and not among the properties of a run: `TypeCorrect` of `AudioHal`,
`DockNotification`, `AudioRoute`, `DockBattery` and `WifiMac`;
`MixerHasNoMemory` (`MixerMatchesRoute`), which is part of
what `ActsAsDevice` says of `shown`; `RunsOnTheRoutedPcm`;
`OnlyLeftoversAreUncaptured`; and `KnownControlsStoreInTheList`, whose property
the run of finding 4 refutes for the shipped file.

Only model-checked: liveness (`SetterIsServed`, `ReadEnds`, `ScreenshotEnds`,
`NotificationGoes`), since fairness is beyond the prover, though for the first
three the safety half is proved (`WritersQueue`, `ReadsRunOut`,
`TimeoutsDoNotOutlive`); and the findings, which are counterexamples.

## 6. Not modelled, and why

Failing memory allocation; failing reads of the mixer; the branch of a start for
PCMs of different rate groups (`RatesAssumption`); functions of the tables that only return a constant
or a parameter; the text of parameters (`str_parms`), of which a call is the
mask it carries; the resampler's arithmetic.  A terminator written one byte
behind a buffer (`readFromFile`, `read_file`) and other undefined effects on the
heap are outside: of `read_file` the model has the unset byte, which reaches the
file.  Of the dock keys, what those for Wi-Fi, Bluetooth, brightness and volume
ask of services of the system; of the embedded controller, the copy of the
wake-up flag, which nobody asks for.  `mischelp` and the hardware settings write
one file of the kernel without state of their own.  The blob packer is one
sequential pass of arithmetic on offsets.

`releasetools` is a copy of the build scripts of AOSP which run on the host.
Only `ComputeDifferences` has threads, with one lock over one iterator (a worker
that fails with the lock in hand would leave the others waiting); signing, zip
files, edify text and image formats are I/O and wording.
Configuration and overlays are data.

## 7. What could follow

1. A write of `WriteThreshold` as the place `io` of `AudioHal`, so that a routing
   call meets the sleeps of a write.
2. `ComputeDifferences`: each difference computed once, all workers end.
