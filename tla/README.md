# Verification of the storage front panel firmware

The subject is `src/sw-frontpanel/main`: the firmware of a front panel (ESP32-C3, one core, FreeRTOS) for the PicoIDE
and BlueSCSI drive emulators. The panel shows the emulator's state on an OLED, lets the user browse and load disk
images with four buttons, serves a web interface over WiFi, and updates its own and the main board's firmware. All it
knows of the drive it learns over one SPI or I2C link to the *main board*, whose firmware is not in the repository.

The specifications are TLA+ modules translated from the C sources; each comment names the function it stands for, and
`PROJECT.json` maps every definition to its lines. TLC checks small instances, TLAPS proves what holds for every
instance.

## 1. The system

| Component | Source | State it keeps | Operations | Correct when |
|---|---|---|---|---|
| host_comm | `host_comm.c` | mutex, `tx_buffer`, `rx_buffer`, `link_up` | some forty commands: immediate reads, asynchronous ones polled until ready, fire-and-forget, reset | no path keeps the mutex; an answer is the call's own; every call returns |
| transport | `transport*.c` | driver handles, buffers | two-phase transaction over SPI or I2C | a reported success is one, as far as the bus can tell |
| host link | `host_link.c`, `main.c` | `host_comm_ready`, `auto_link_pending`, the saved transport, backoff | detection at boot, background probe, recovery, reconnection | a present board is found and nobody probes twice at a time |
| screens and mode | `main.c` | `current_screen`, `active_menu`, `operating_mode` | button events, status polls, update task | the menu fits the screen, the mode follows the board |
| directory browser | `main.c`, `menu_system.c`, `web_server.cpp` | `disc_menu`, `disc_list_loaded` | open, descend, load; web changes; re-enumeration after an error | what is selected is what is loaded, a stale list is read again |
| display power | `display_manager.c`, `main.c` | state, two timers, mutex, frame buffer and its flags | timer callbacks, wake, settings, the 30 Hz display task | panel, LED and timers agree with the state; the last frame painted is shown |
| firmware update | `ota_manager.c`, `main.c`, `web_server.cpp` | two OTA sessions, phase, chunk buffer, spare partition | check, download by chunks, verify, choose, restart; direct upload | the panel boots a whole image, panel and main board are updated together or not at all, every update ends |
| file transfers | `web_server.cpp` | progress of the one request in hand | upload, download, delete, rename, create | what is reported stored or sent is what the card holds; a changed card is listed again; every request is answered |
| web server, the rest | `web_server.cpp`, `json_stream.cpp` | server handle, settings | start, stop, status, settings, static files | (not modelled) |
| WiFi manager | `wifi_manager.c` | settings in flash and in memory, state, retry count, driver mode | connect, retry, access point, scan, rename, reset, migration | only credentials that worked are saved, a reset is final, a scan leaves no trace, no attempt lasts for ever |
| LED | `led_driver.c` | colour, pulse and breathe tasks | set, start, stop | at most one task drives the strip |
| buttons, activity | `gpio_handler.c` | debounce state, timers, two queues | interrupt, debounce, long press, repeat | no event out of order |
| menu system | `menu_system.c` | rows, cursor, scroll | add, clear, navigate | cursor within rows |
| status polling, policy | `main.c`, `panel_policy.c` | device list, names, image and playback status | polls of a second or ten | caches follow the active device |
| test hooks | `main.c`, `test_hooks.h` | UI snapshot, frame copy | publish, read under a sequence lock | a reader sees one snapshot |

**Interaction.** Several tasks run at fixed priorities: timers 22, button events 10, firmware update 10, web server and
display 5, status polling 4, LED 3, `app_main` 1. All of them call host_comm, which serialises them with one mutex, and
most of them read and write `main.c`'s file-scope variables, which nothing serialises. On one core a task is interrupted
only by one of a higher priority, and lets the lower ones run only where it waits (for the main board, a mutex, a
delay). Much of what is hard here is about which of these interruptions matter: the modules model exactly that
granularity.

**Hard behaviours**, listed with their lines under `hazards` in `PROJECT.json`: a call that timed out while the board
still works on its command; a bus on which a missing board "answers"; a probe in two tasks; a board that changes mode or
disappears while screens are open; a listing rebuilt in one task, drawn in a second and invalidated by a third; a timer
callback that waits for a mutex while a click undoes it; a power failure between two keys of one setting; an event of
the WiFi driver that belongs to the attempt before; two update tasks and an upload over one spare partition; a body
that arrives cut anywhere, while another task resets the board's session.

## 2. Modules

| Module | Models | Composition |
|---|---|---|
| `HostCommands` | the table of commands: kind, timeout, what each function checks of the reply | used by `HostComm` |
| `HostService` | abstract: what a caller may assume of the API | refined by `HostComm` |
| `HostComm` | `host_comm.c` over both transports, and the board's single operation slot | refinement `Service` |
| `HostComm_proofs` | theorems about `HostComm` | extends it |
| `HostLink` | detection, background probe, recovery, restart, saved transport | its probes behave as `HostComm`'s run `host_comm_spi` shows |
| `PanelScreens` | navigation, operating mode, menus of the BlueSCSI build | |
| `DirBrowser` | the cached listing between four tasks | |
| `DisplayPower` | idle chain, wake, settings, frame transfer | |
| `WifiManager` | settings in flash, station and access point, scan, reset | |
| `HostLink_proofs`, `PanelScreens_proofs`, `DirBrowser_proofs`, `DisplayPower_proofs`, `WifiManager_proofs`, `FirmwareUpdate_proofs`, `FileTransfer_proofs` | theorems about these modules | each extends its module |
| `FirmwareUpdate` | the panel's and the web's update tasks, the upload, both products | the sessions of `ota_manager.c` are one set of actions, used by both tasks |
| `FileTransfer` | requests for files, their bodies, the board's session | a host_comm call ends as `HostComm` allows: done, refused, lost, late, run twice |
| `MC...` | the bounds of each model | |

### HostComm

`pc[t]` is where task `t` is in a call: `idle`, `want` (in `xSemaphoreTake`), `locked`, `poll` (the loop of
`execute_async`), `copy` (the `memcpy` out of `rx_buffer`), `unlock`. One action per step and per outcome, error paths
included (`SendFails`, `PollFindsError`, `PollTimeout`, `RejectArg`, ...). Data is abstracted to *whose* bytes they are:
a tag `<<task, call>>`; `rx` holds the owner of the front part and of what an earlier, longer answer left behind it. The
board is external: one slot for an asynchronous operation, finished, failed or forgotten (reboot) at any time.
Transports are modelled by what they can do: `SilentLoss` (an SPI transaction succeeds with nobody listening; the
read returns noise), `AckLost` (an I2C send reports an error although the board heard it). Noise is what the panel's
tests can tell of it: uniform or not, the alive magic in its place or not, known flags only or not. Noise with the magic
that is not uniform and has known flags only passes `host_comm_probe_alive`, in the code and in the model. Noise in
place of a poll's status is assumed to be neither of the two codes that end the loop.

### HostLink

`boot` is `app_main`'s progress through `establish_host_link`, `st` the statement `status_refresh_task` is at, `handle`
the shared `host_comm` with its bus. `build` chooses AUTO or a fixed transport. Millisecond counters keep the code's
arithmetic (backoff doubling, the sleep shortened to the next probe by an unsigned comparison). The board is switched on and off and exchanged
between restarts of the panel; NVS (`saved`) survives.

### PanelScreens

`screen`, `menu`, `info`, `mode` are the file-scope variables; `gp` and `st` say what the button and the status task
wait for. The status task's move of the screen takes three statements (`test`, `jump`, `remenu`), between which the
button task may run a whole handler or come back from a wait. One thing is assumed of the scheduler: a wait that the
button task begins there is long enough for the status task to finish the move (`parked`), because the display and httpd, which come
between the two in priority, do not keep the processor for a whole exchange with the main board.

### DirBrowser

`rows` is `disc_menu`, each row with what it shows and the index that selecting it sends. `refresh_directory_list` is
taken apart at every call to the board (`count`, `entry`, `stamp`, `mark`, `end`) in both tasks that run it. The board's
listing is numbered: the web server, or a selection, makes a newer one. The web server invalidates at any moment, the
middle of a rebuild included; `owed` records the last change it invalidated for outside every rebuild, `due` what that was
when the list was last opened. `recovers` tells the build whose status task
re-enumerates after an error (BlueSCSI) from the one whose does not.

### DisplayPower

Timers hold the ticks left to their callback; a timer that is due may fire at any later point, the middle of a wake
included. `display_manager_wake` is taken apart into reading the state, stopping the timers, changing the state, the
LED callback (which sleeps), talking to the controller, restarting the chain. The mutex is held exactly while the
display task sends. The three reads of the state at the head of a wake are one step. `shown` says whether the panel has received what is in the frame buffer.

### WifiManager

`nvs` is the flash, key by key; `writes` the keys a save has still to write, each an action, so that the power
(`PowerCut`) goes between any two. `mgr` and `ram` are the fields of `wifi_manager_t`, `drv` the driver's mode,
configuration and link. `events` is the queue of the event task, which outranks every caller of the API: `pc` of the
button task, the web server and `app_main` moves only while that queue and `writes` are empty. The driver is external:
an attempt ends in an address, a refusal or a dropped association; a configuration set during an attempt applies to the
next one. A key that cannot be erased, or a flash that cannot be opened, is passed over by the reset as in the code
(`EraseFails`); only a reset that erased every key counts as done. `MaxRetries` stands for `max_retry_attempts`.

### FirmwareUpdate

`ota` holds the two managers, the panel's and the web's; `flash` the content of the spare partition chunk by chunk,
`buffer` the static `chunk_buffer`, `boot` what `esp_ota_set_boot_partition` chose. `pc` says where the button task, the
two update tasks and httpd are. The three tasks of priority 10 interleave; httpd acts only when no update task has
the processor (`HttpdRuns`), that is while they wait for the board or in a delay: this is why a task that never waits
stops the web server (`firmware_check`). Every `xTaskCreate` may fail, that of the restart after an upload included, and
every answer of the board may be lost after it has done what it was asked. `build` chooses the product, since `web_server.cpp` differs: PicoIDE updates
the panel and then restarts, BlueSCSI updates the panel, the main board or both.

### FileTransfer

`pc` is where the one httpd task is in a handler; `body` what it has not read, in pieces of any size (`Receives`).
Every host_comm call is `Call`: the board carries it out and the answer arrives, or twice (an I2C resend), or it is
refused, lost, or carried out and the answer missed. `Reconnects` is another task's RESET between two calls.
`PanelLists`, `PanelAsks` and `PanelEnds` are the panel's own re-enumeration, a call at a time between the calls of a
request, whose end declares the cache valid whatever was invalidated meanwhile (`overtook`). The first piece of an
upload may end anywhere: inside the file name (the search for its closing quote then runs on into whatever the buffer
holds: the name is another one, `request.to`, or is found missing and the upload refused), between the name and the blank
line, or behind it. A file is a sequence of tagged numbers, so a byte out of place shows. The
counters are modulo `Word`. The board is external: START opens (and truncates) the file, FINISH returns the hash of what
was stored, for which the content itself stands.

## 3. Runs

| Run | Checks | Instance |
|---|---|---|
| `host_comm_i2c` | `TypeOK`, `LockDiscipline`, `AnswersOwn`, `CallsReturn`, refinement `ImplementsService` | 2 tasks, 2 calls each, an asynchronous command for each way of treating the reply's size (looked at, copied by count, refused), acknowledgements lost, short replies |
| `host_comm_spi` | `RunIsAnswered` | 2 symmetric tasks, 2 calls each, commands of every kind, silent loss, a board that ignores commands while it works, short and overlong replies |
| `host_link` | `OneLooks`, `OnlyLiveBuses`, `ProbeOnTime`, `FindsBoard`, `RecoversAwake`: exactly one task looks for the board until it is found, every handle and every saved transport is one that worked, probes come on time, a board is found, and found again | 3 builds, window of six tries, backoff with the code's times up to its third step, 2 faults, 3 flips of power, 2 boots |
| `panel_screens` | `NoWrongMenu`, `UpdateUndisturbed`, `LearnsMode` | all screens, 2 changes of the board, 1 failed poll |
| `dir_browser` | `LoadsWhatIsShown`, `ReloadsOnOpen` | both builds, 3 listings (files and directories, one with the board's own "..", an empty one), 1 fault |
| `display_power` | `PanelFollowsState`, `SaverErased`, `ChainGoesOn`, `OffOnTime` | both idle modes, idle after 1 or 2 ticks or Never, off after 3 or 4 or Never, 1 wait for the mutex that times out |
| `wifi_manager` | `ResetIsFinal`, `ScanRestoresMode`, `SavesWhatWorked`, `ConnectingEnds` | 1 network, asked for with its password and without, 3 requests, 1 retry, 1 power failure at any step, keys that cannot be written or erased, fresh panels and panels with old settings |
| `wifi_migration` | `MigrationSurvives`, **violated** | 2 networks, 2 requests, else the same |
| `firmware_update` | `UploadRunsAlone`, `VersionsMatch`, `PanelUpdateEnds`, `ChosenIsBooted` | BlueSCSI with an image for the panel or for the main board on its card, PicoIDE with both; images of 2 chunks, 2 tries of a chunk (`OTA_MAX_RETRIES` is 3), 2 sessions |
| `firmware_check` | `CheckIsAnswered`, **violated** | the same |
| `file_transfer` | `VerifiedIsStored`, `DownloadIsWhole`, `ChangesAreListed`, `RefusedForAReason`, `RequestEnds` | 2 names, files of 0, 3 and (on the card) 6 numbers, chunks of 5, 2 requests, 1 kind of mishap |
| `file_saved` | `SavedIsStored`, **violated** | files of 0, 1, 6, 1 request, no mishap at all |

Of the passing runs, the one that heads each module's group also checks its `TypeOK`. Every property of a passing run
has a mutant (a definition named `<definition>_<what is wrong>` above the one it changes) that violates it.

**Why the bounds suffice.** Two tasks with two calls each are the least in which one task's abandoned operation meets
the other's command and its own next one; the poll interval is scaled to five seconds so that every loop used polls
once or twice, and ends on each of its exits. Six tries cover the exclusive part of the detection window and the
alternation after it; three power flips are off-on-off and on-off-on. Two changes of the board are a change and its
reversal, the pattern of an imaging run. Three listings are one older, one newer and one empty. An idle
stage after 1 or 2 ticks and an off stage after 3 or 4 lie next to each other and apart, and change either way.
A request without the password stands for every attempt that fails; three requests are a connect, scan, rename or reset,
one that falls into it and one that finds what the two left behind (a reset inside a connect, then a scan whose client
leaves); a retry more would only repeat the same two events. Two sessions are one that fails or waits and
one begun over it, with an image of a first and a last chunk and a chunk that is tried again. A file of 6 with chunks of
5 takes a full chunk and a rest; the header in three pieces is cut everywhere the parser looks. Two requests are an
interrupted one and its successor, or a change and the one that trips over it.

**Fairness.** `HostComm`: each task's own steps (the scheduler runs it, the timeouts fire); nothing is assumed of the
board. `HostLink`: the boot and status tasks, and the end of a recovery once begun; neither user nor board need act.
`PanelScreens`: the status task, and the end of a handler once begun. `DirBrowser` and `DisplayPower` check safety only.
`WifiManager`: every task runs, an attempt to connect ends somehow, and an association gets an address or is dropped (it
is assumed of the driver and the network: `connection_timeout_ms` is stored and never read). The user need not act.
`FirmwareUpdate`: weak fairness of each task of priority 10, of the handlers of the buttons once begun and of a restart
that is due; strong fairness of httpd, which gets the processor only in their pauses. `FileTransfer`: httpd runs, and
gives up on a client that is gone (`recv_wait_timeout`).

**Deadlock** is checked in `HostLink`, `PanelScreens`, `DirBrowser` and `DisplayPower`. The other four stop when their
bounded calls, requests or sessions are used up.

## 4. What the violated runs show

* `wifi_migration`. The settings of an older firmware, one blob, are imported when no new key is in flash
  (`wifi_manager.c:500`) and then written back key by key. A power failure after the first key leaves a device that has a
  key and never looks at the blob again: it opens its access point and has forgotten the network.
* `firmware_check`. A request to check for firmware sets the shared manager up anew. In the half second an update waits
  before it reads a chunk again, its task then finds a manager that has nothing to do, which is neither an end nor an
  error, and calls it again for ever, at priority 10: the web server is not "without blocking" (`web_server.cpp:230`), it
  does not run any more.
* `file_saved`. If a body is cut between the file name and the blank line after it, the handler counts the whole file as
  still to come (`web_server.cpp:2223`) and stores the rest of the header in front of it, and as much less of its end. It
  answers success; `uploadFile` notices by the hash, the uploads of a configuration or of the main board's firmware
  (`app.js:1336`, `app.js:1415`) do not look at it.

Further disagreements met while modelling, which no run of the project checks. Where a formula is given, adding it to
the module and to its configuration reproduces a counterexample.

*Screens.* "Only from the two status screens, so a user in a menu is left alone" (`main.c:1495`): the status task tests the
screen and assigns it a statement later; a click in between has left the status screen for a menu, and the user is taken
out of it again: `[][StatusStep /\ screen' # screen => screen \in Homes]_vars` fails in `PanelScreens`. `main.c:1492-1494` wants a board that changes mode to move the panel with it, but `refresh_device_list` and
`refresh_initiator_status` (`main.c:1598`, `main.c:1653`) store the mode as well: when one of them learns it first, the
next poll finds no change and the panel stays:
`\A m \in Modes : <>[]Watching(m) => <>[](screen = HomeOf(m))` fails in `PanelScreens`. The main menu of an imaging board
offers what it refuses (`main.c:694`).

*Listing.* A web handler invalidates the cached listing so that "the browser reloads on its next open" (`main.c:160-162`).
If `refresh_directory_list` is running, `disc_list_loaded = true` near its end (`main.c:1872`) undoes that: rows read
before the change are shown until something else invalidates them. This is in the model; `Promises` says what is left.
With `Promises == owed' = now` in its place, `ReloadsOnOpen` fails in `DirBrowser`. In the same way `ChangesAreListed` fails
without its `~overtook`. The display task walks the live menu, which `main.c:1063-1065` explains no foreign task
may: the invariant `draw # "freed"` fails. Switching devices keeps the other device's listing (`main.c:807`), and a
re-enumeration that fails leaves its placeholder marked as loaded (`main.c:1819`).

*Display.* `needs_update` is cleared after the transfer (`main.c:1311`), so a screen painted meanwhile (the button task
paints the info screen) is not sent and the panel keeps a mixture until something else paints: the invariant
`AllIdle /\ state # "off" /\ ~needsUpdate /\ ~needsRedraw /\ ~(dirty /\ screen \in Menus) => shown` fails in `DisplayPower`.
`redraw_current_screen` (`main.c:1209-1241`) has no case for Select Device, so that after a screensaver the wake leaves
its last picture there: `\A s \in Menus : SaverLeft(s) /\ state = "full" => needsRedraw \/ dirty` fails; nor has it one for
the firmware-update screen. A timer callback that overlaps a wake (it waits for the mutex during a transfer, or fires
between the wake's reading of the state and its stopping of the timers) can leave the chain with no timer or one too
many, and `display_is_off` true on a lit display; `ChainGoesOn` and `OffOnTime` are therefore stated off these overlaps,
`PanelFollowsState` and `SaverErased` across them.

*Link.* Over SPI a read from a bus without a board succeeds. The poll that looks for a lost board takes a command whose
reply nothing validates (`main.c:1438`), so that after every failed reconnection `link_up`, "the main board is answering"
(`host_comm.h:45`), is raised again with no board there: `[][StatusArms /\ linkUp' /\ ~linkUp => power]_vars` fails in
`HostLink`. The mutex is given back when a poll loop gives up, while the board may still be working (`host_comm.c:558`).
Answers carry no tag: on a board that ignores a command while it works on an abandoned one, or over SPI when a command is
not heard, the next call takes the earlier one's answer for its own (`AnswersOwn` fails in `host_comm_spi`; what is left
is `RunIsAnswered`). Recovery stops while the display is off
(`main.c:48-50`), hence the "while the display is on" in `RecoversAwake`; in a fixed build `host_comm_init` works on the
handle other tasks already see (`main.c:1331-1333`).

*WiFi.* A reset between a connect request's change of mode and its last statements leaves the state CONNECTING for ever in
access-point mode, and in the mode for scanning if the client of a later scan leaves (`ConnectingEnds` speaks of
stations); a reset reports success although the flash could not be opened or a key not be erased
(`wifi_manager.c:528-544`); and a reset during a scan begun as a station is undone by the scan's clean-up: the properties speak of
resets off these overlaps. An address of the old network that is handled after a new request has put its names in
memory saves these unproved (`wifi_manager.c:409` says they are saved once they worked). A client that leaves before the
list of a scan begins leaves the panel in the mode for scanning.

*Firmware.* Asking for the status turns SUCCESS into IDLE also in the two seconds before the restart, so that another
update may erase the image just chosen (`web_server.cpp:1844`). An upload is refused only while the web's own update
task exists (`web_server.cpp:2361`): the panel's task and the two seconds after another upload are not looked at. A client
that is gone when an upload is answered keeps the restart from happening (the comment at `web_server.cpp:2339` promises
it), and so does a lack of memory for the task that restarts (`web_server.cpp:2479`), which nobody looks at: the client has
been told of a success, and the panel goes on running the old image
(`boot = "spare" ~> (boot = "runs" \/ "gone" \in mishaps)` fails in `FirmwareUpdate`). A check that fails during an update of both counts as "nothing for the panel", and the main board is updated
beside an old panel. The results of `xTaskCreate` at `main.c:2250` and `main.c:2321` are not looked at either. `VersionsMatch` and
`ChosenIsBooted` name these cases in their hypotheses (`mishaps`).

*Files.* An upload broken off after START leaves a new file on the card that the listing does not have. An answer to FINISH
other than OK is sent without reading the closing boundary first, so that the server drops the socket and "Insufficient
space" is never read (`web_server.cpp:2115-2118` knows the effect). An empty file cannot be uploaded: a chunk of no bytes
is an invalid argument. A download that cannot start for any reason, a timeout included, is answered "not found". A chunk
of an upload has no index, so that one the I2C driver sends twice is stored twice. A body whose first piece ends inside the file
name is refused as "missing filename", or goes on under another name, because the handler does not wait for more and
`strchr` (`web_server.cpp:2087`) does not know where the bytes received end; an empty file is even verified under that
name. `RefusedForAReason`, `VerifiedIsStored` and `SavedIsStored` leave this cut out by name.

## 5. What is proved

Every safety invariant and every action property that a passing run checks is also a theorem, for every value of the
module's constants. A theorem that needs a hypothesis beyond the module's `ASSUME`s says so in its statement: there are
two, `GoodBoard` and `Roomy`, explained below.

`HostComm_proofs`, for any number of tasks, any set of commands, any bounds and timeouts:

* `TypeCorrect`: `Spec => []TypeOK`. The types alone are not inductive: a tag is a tag only if the call has been counted.
  The strengthening is `Types /\ Counted /\ PollBound`; the last keeps `elapsed_ms` under the timeout, with
  `PollLimitIsNat` for the arithmetic.
* `MutexSafe`: `Spec => []LockDiscipline`, inductive with the types: every action either leaves `lock` and `Holding`
  alone or moves one task across `HOST_COMM_LOCK` or `HOST_COMM_UNLOCK`.
* `AnswersAreOwn`: `GoodBoard => (Spec => []AnswersOwn)`, where `GoodBoard` says that a new command takes the board's slot and that
  transactions do not vanish unnoticed; section 4 shows what happens on others. The inductive invariant adds: while a
  task polls, the slot is empty, failed or holds that task's own
  tag, because the mutex (`LockDiscipline`) keeps all other commands away and because its own command replaced whatever
  an abandoned call had left; and while it copies, `rx_buffer` starts with its own answer, followed by nothing foreign
  unless the reply was short and the function does not look.
* `RunsAreAnswered`: `Spec => []RunIsAnswered`, on any board and over any bus, without `GoodBoard`. The invariant follows
  the tag of a call from the moment the board hears it (`Heard`): a command not heard when its poll loop begins is never
  heard (`Fresh`: the board knows no tag before it is sent), and one that was heard has put its own tag into the slot,
  which nobody else can take while the mutex is held (`HeardOwn`).
* `Implements`: `GoodBoard => (Spec => ImplementsService)`, the refinement of `HostService`. Initial states are initial
  states of the service; `ServiceStep` maps each action: `Call` to `Issue`, the steps at which the
  board runs a request to `Serve`, a return to `Answer` or `NoAnswer`, all else to a stutter. `Answer` is only allowed
  for a request that has been run, which needs `Ran`: what the slot holds ready has been run, and so has what is being
  copied or handed over. `AnsweredWereRun` draws the conclusion the service is there for: no call has ever returned with
  an answer to a request the board has not run.

`HostLink_proofs`, in every build, for any detection window, any limits of the backoff, any number of faults, power flips
and restarts:

* `TypeCorrect`: `Spec => []TypeOK`, which bounds `probe_backoff_ms`; inductive as it stands.
* `OneTaskLooks`: `Spec => []OneLooks`. The strengthening `HandOver` says that the end of detection, and nothing else, arms the background
  probe, and that only the task that runs it ends it; `BootOfBuild` which statements of `app_main` a build has.
* `LiveBusesOnly`: `Spec => []OnlyLiveBuses`. Between the probe that heard a board and the save of its transport, the
  shared handle is brought up on the bus in `next`; `HeardOnNext` says that it is still the bus that was heard.
* `ProbesOnTime`: `Spec => ProbeOnTime`, an action property. A pass of the status task that comes to its sleep has made the probe that was
  due, also when `app_main` arms the probe in the middle of that pass (`ProbedFirst`).

`PanelScreens_proofs`, for any number of mode changes and faults:

* `Types`, `MenusMatch`: `Spec => []TypeOK`, `Spec => []NoWrongMenu`; and `UpdateIsUndisturbed`: `Spec => UpdateUndisturbed`. One
  invariant serves all three. `UpdateAlone` adds that an update begins on the firmware's status screen, and that a status
  task that is about to move the screen finds the panel neither there nor on the progress screen, but while the check of
  the firmware waits with the move overdue (`parked`): the move then falls into that wait, and the handler, which does not set the
  screen again when it comes back, leaves the panel where the move has put it.

`DirBrowser_proofs`, for any listings of the board, both builds, any number of failing calls:

* `BrowserTyped`: `Spec => []TypeOK`. A task that asks for an entry has one to ask for (`Counts`), through the
  interruptions of the re-enumeration by the other task.
* `LoadsWhatShows`: `Spec => LoadsWhatIsShown`. Where one task alone rebuilds the rows, each row carries the index of
  the entry it shows, but for the last one while it is being added (`Stamped`); what was selected still carries it.
* `OpensRecent`: `Spec => ReloadsOnOpen`. A listing that counts as loaded, or is being built, has no row
  older than the last change the web server has invalidated for (`LoadedIsRecent`), and an opening that is under way none older than the changes
  completed when it began (`OpenedIsRecent`). Web changes fall into rebuilds as into anything else;
  what was invalidated there is not promised, and is not kept (section 4).

`DisplayPower_proofs`, for any timeouts and any number of waits for the mutex that time out:

* `Types`: `Spec => []TypeOK`; with it, `off_timeout_ms - idle_timeout_ms` never wraps.
* `PanelFollows`: `Spec => []PanelFollowsState`. Contrast and power are written after the state, without the mutex held
  throughout; `PanelLags` says which statement is still owed at each place of the timer's callback and of a wake, and
  `DueBefore` why the two cannot undo each other: time passes only between operations, so that a timer that is due fell
  due before the wake under way stopped it.
* `SaverIsErased`: `Spec => []SaverErased`. A task that has found the screensaver on asks for a redraw later;
  `SaverOwed` follows that debt from the state change to the display task's pass.
* `ChainIsArmed`, `OffIsOnTime`: `Spec => []ChainGoesOn`, `Spec => OffOnTime`. Off the overlaps, the time an armed timer has
  left and the time since the last wake add up to its timeout (`OnTime`), one is armed unless the operation under way
  will do it (`GoesOn`), and the LED is told (`Led`).

`WifiManager_proofs`, for any networks, retries, requests and power failures:

* `WellTyped`: `Spec => []TypeOK`, with what each key of the flash can hold (`Stored`).
* `ResetStays`: `Spec => []ResetIsFinal`. `ResetWorks` says what is gone of memory and flash at each key that the reset
  has reached, so that a power failure between two keys, and the boot after it, is a case of the same invariant.
* `ScansRestore`: `Spec => []ScanRestoresMode`, with the mode that a scan remembers (`ScanWorks`).
* `SavedNamesWork`: `Spec => SavesWhatWorked`. A link, and an address still waiting in the event queue, belong to the names the
  driver has (`LinkWorks`); and the driver has the names in memory, unless a request or a reset is under way or no link
  can come of them (`NamesWork`). This holds after any number of finished resets.

`FirmwareUpdate_proofs`, for both products, any images on the card, any numbers of chunks, retries and sessions:

* `ManagersTyped`: `Spec => []TypeOK`. A task that tries a chunk has an attempt left (`Counters`), and the panel's task is created
  once, because nothing leaves the update's screen (`OnScreen`).
* `UploadAlone`: `Spec => []UploadRunsAlone`, with the types of `pc`. Only httpd
  creates the web's update task, and httpd is busy with the upload as long as that lasts.
* `BoardsMatch`: `Spec => []VersionsMatch`. The inductive invariant `UInv` follows the image from the card to the partition
  that boots: from a session's start to its end the spare partition holds nothing but chunks of the card's image
  (`OnlyCard`); one session is open at most (`OneOpen`) and nothing has been written from its next chunk on (`Ahead`),
  so that nobody writes once an image is chosen (`ChosenIsCard`); an update that has anything to do knows of a panel image that is due
  (`Heard`) and comes to the main board's after it has chosen that (`PanelFirst`). It holds while nothing is "astray",
  which is the hypothesis of `VersionsMatch`. `Calm` names what the many steps have in common that touch neither the partition nor
  the board.

`FileTransfer_proofs`, for any names, file sizes, chunk size, requests and mishaps:

* `VerifiedMeansStored`: `Spec => []VerifiedIsStored`. A session of the board that is open for writing while an upload writes
  is that upload's own (`OwnSession`), so the hash in the answer to FINISH is of what the request's file holds (`ToldIsStored`).
* `ChangesListed`: `Spec => []ChangesAreListed`. The invalidation falls between the change and the answer; a listing that was
  not under way then was begun after it, and each of its calls reads the changed card (`Lists`).
* `CompleteIsWhole`: `Spec => []DownloadIsWhole`. Before each call the page's copy is the file's first `index * ChunkSize` numbers
  (`Reading`); `NextChunk` is the arithmetic of the last, shorter chunk and of the empty one that ends a download.
* `RefusesForAReason`: `Spec => []RefusedForAReason`. In an undisturbed upload the body still to be read is never shorter
  than the bytes the loop waits for, wherever the first piece (behind the file name) and the chunks are cut, and the board's session stays open
  until FINISH (`Smooth`).
* `TransfersTyped`: `Roomy => (Spec => []TypeOK)`: the counts of bytes do not pass the size, so that the unsigned
  "remaining" does not wrap. `Roomy` says that twice the size of a file fits a counter of 32 bits: a chunk
  that the I2C driver sends again is stored twice, so the file on the card may be that long, and the panel has to count
  it when it is downloaded. The other four theorems do not need it.

All rest on the modules' `ASSUME`s, which TLC evaluates in every run: in `HostComm`, that bounds are naturals, every used
command is in the table with a timeout, and every asynchronous one has one of the known reply checks; in `HostLink`, that
the times are positive and `MinMs <= MaxMs`; in `DirBrowser`, that there is at least one listing and each is a sequence of
kinds of entries; in `DisplayPower`, the modes, and that every idle timeout is below every off timeout; in `WifiManager`, that the
marks for an absent and an empty key are no networks; in `FirmwareUpdate`, at least one chunk, retry and session; in
`FileTransfer`, that sizes fit their counter, a chunk is longer than the header and there is a name. The bounds on faults,
requests and the like are only known to be naturals.

The strengthened invariants are plain state predicates: given as an INVARIANT to TLC, which knows the proof modules'
definitions, they hold on the instances of section 3. No module uses a `RECURSIVE` operator.

Model-checked only: liveness (`CallsReturn`, `FindsBoard`, `RecoversAwake`, `LearnsMode`, `ConnectingEnds`, `PanelUpdateEnds`,
`ChosenIsBooted`, `RequestEnds`). It rests on fairness and so on ENABLED, which is beyond this prover. What the
runs of section 4 violate cannot be proved.

## 6. Plan

Done: the link (`HostComm`, `HostLink`), what the user sees of it (`PanelScreens`, `DirBrowser`, `DisplayPower`), and what
goes over WiFi (`WifiManager`, `FirmwareUpdate`, `FileTransfer`). Proofs: safety of all eight, and the refinement of
`HostService` (section 5).

Next: facts that the violated runs suggest and no run asks for yet, as theorems of the same modules. For `SaverErased`
and `ChainGoesOn`, that the display recovers from an overlap at the next wake; for `FileTransfer`, what a page may
conclude from "saved" without a hash.

### Not modelled

* **LED.** `led_driver.c` is two tasks at the driver's level that touch nothing else. One race is known from reading: a
  stop followed at once by a start creates a second breathe task while the first is on its way out, and the first then
  clears its successor's handle (`led_driver.c:353-380`), so that the breathing cannot be stopped and `led_set_rgb` draws
  nothing from then on.
* **Buttons.** The two queues are filled without waiting; a full one drops a release or a click, and an activity event
  that is dropped leaves a stale pin state until the next edge. What the events do is in `PanelScreens` and `DisplayPower`.
* **Of modelled parts:** the rollback of an image that never confirms itself (`main.c:2749`), progress percentages, the
  handlers of BlueSCSI's separate update of the main board, an upload that starts without a check before it; the
  transports' wire format, checksums and DMA set-up; the start-up re-initialisation of the OLED; in `WifiManager`
  `stop_ap`, `deinit` and `set_callbacks`, which nothing calls.
* **No control state, or sequential and unit-testable:** drawing, sprites, JSON, the web pages, static files, the settings
  requests, cursor and scroll arithmetic of the menus, device names and playback fields, hardware and enclosure.
