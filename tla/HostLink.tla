------------------------------- MODULE HostLink ------------------------------
(***************************************************************************)
(* How the panel finds its main board and notices that it is gone or back: *)
(* establish_host_link and the rest of app_main's boot, the background     *)
(* probe and the recovery poll of status_refresh_task, reconnect_to_host,  *)
(* in the AUTO build (the board may be on SPI or I2C) and in the builds    *)
(* with a fixed transport.                                                 *)
(*                                                                         *)
(* What a probe returns is what HostComm shows of it: probe_alive succeeds *)
(* only if a board answered, while a plain read over SPI succeeds always.  *)
(***************************************************************************)
EXTENDS Integers

CONSTANTS
  Builds,       \* the builds: "auto", or the transport compiled in
  WindowMs,     \* HOST_COMM_STARTUP_TIMEOUT_MS
  ExclusiveMs,  \* HOST_LINK_SAVED_EXCLUSIVE_MS
  RetryMs,      \* HOST_COMM_RETRY_INTERVAL_MS
  MinMs, MaxMs, \* HOST_LINK_PROBE_MIN_MS and HOST_LINK_PROBE_MAX_MS
  MaxFaults,    \* bound: how often a call to a board that is there fails, or host_comm_init
  MaxFlips,     \* bound: how often the board is switched on or off
  MaxBoots      \* bound: how often the panel itself starts

PollMs  == 1000    \* the pass of status_refresh_task with the display on
IdleMs  == 10000   \* the same with the display off
FloorMs == 100     \* its shortest sleep

Buses == {"spi", "i2c"}
Other(b) == IF b = "spi" THEN "i2c" ELSE "spi"

ASSUME BuildAssumption == Builds \subseteq Buses \cup {"auto"}
ASSUME TimesAssumption ==
  /\ {WindowMs, ExclusiveMs, RetryMs, MinMs, MaxMs} \subseteq Nat \ {0}
  /\ MinMs <= MaxMs
ASSUME BoundAssumption == {MaxFaults, MaxFlips} \subseteq Nat /\ MaxBoots \in Nat \ {0}

VARIABLES
  build,    \* the transport the panel is compiled for; it never changes
  boot,     \* app_main: opening, detecting (fixed builds), detect (AUTO), blink or up
  current,  \* the transport establish_host_link tries next
  elapsed,  \* milliseconds of its window used
  st,       \* status_refresh_task: pass, probing, opening, arms or sleep
  next,     \* next_type of auto_link_probe_once
  backoff,  \* probe_backoff_ms
  due,      \* probe_due_in_ms
  pending,  \* auto_link_pending
  handle,   \* the shared host_comm: none, opening (its mutex is visible) or up, and its bus
  ready,    \* host_comm_ready
  linkUp,   \* host_comm.link_up
  ui,       \* the task that recovers from a communication error: calm or reconnecting
  blank,    \* display.state = DISPLAY_STATE_OFF
  saved,    \* NVS: the saved transport
  power,    \* the main board is running
  bus,      \* the transport the main board is wired to
  seen,     \* history: the transports a running board has been on
  faults, flips, boots

bootVars   == <<boot, current, elapsed>>
probeVars  == <<next, backoff, due>>
handleVars == <<handle, ready, linkUp, pending, saved>>
boardVars  == <<power, bus, seen, flips>>
vars == <<bootVars, st, probeVars, handleVars, ui, blank, boardVars, faults, boots, build>>

AutoBuild == build = "auto"

-----------------------------------------------------------------------------
NoHandle == [st |-> "none", bus |-> "spi"]
Opened(b) == [st |-> "up", bus |-> b]
Opening(b) == [st |-> "opening", bus |-> b]

Answers(b) == power /\ bus = b

(* A call or a driver fails for no reason the panel could see.             *)
Faulty == faults < MaxFaults /\ faults' = faults + 1
NoFault == UNCHANGED faults

(* Two host_comm_probe_alive calls on the scratch handle.                  *)
ProbeSees(b) == Answers(b) /\ NoFault
ProbeMisses(b) == IF Answers(b) THEN Faulty ELSE NoFault

(* host_comm_get_device_status on the shared handle: what an SPI bus with  *)
(* no board on it delivers is taken for an answer.                         *)
ReadSucceeds(b) == (Answers(b) \/ b = "spi") /\ NoFault
ReadFails(b)    == IF ~Answers(b) /\ b = "i2c" THEN NoFault ELSE Faulty

(* Without a saved transport detection starts with I2C.                    *)
FirstTry(s) == IF ~AutoBuild THEN build ELSE IF s = "none" THEN "i2c" ELSE s
BootStart   == IF AutoBuild THEN "detect" ELSE "opening"

(* Mutant: the background probe is armed from the start.                   *)
PendingAtStart_Armed == AutoBuild

PendingAtStart == FALSE

Init ==
  /\ build \in Builds
  /\ saved \in IF AutoBuild THEN Buses \cup {"none"} ELSE {"none"}
  /\ boot = BootStart /\ current = FirstTry(saved) /\ elapsed = 0
  /\ st = "pass" /\ next = "i2c" /\ backoff = MinMs /\ due = 0
  /\ handle = NoHandle /\ ready = FALSE /\ linkUp = FALSE /\ pending = PendingAtStart
  /\ ui = "calm" /\ blank = FALSE
  /\ power \in BOOLEAN
  /\ bus \in IF AutoBuild THEN Buses ELSE {build}
  /\ seen = (IF power THEN {bus} ELSE {}) \cup ({saved} \ {"none"})
  /\ faults = 0 /\ flips = 0 /\ boots = 1

-----------------------------------------------------------------------------
(* app_main *)

(* The saved transport has the first part of the window to itself.         *)
MayAlternate == saved = "none" \/ elapsed >= ExclusiveMs

(* Mutant: the winner is saved before it has answered.                     *)
BootMiss_SavesEarly ==
  /\ boot = "detect"
  /\ ProbeMisses(current)
  /\ saved' = current
  /\ IF elapsed >= WindowMs
       THEN /\ boot' = "blink"
            /\ pending' = TRUE
            /\ UNCHANGED <<current, elapsed>>
       ELSE /\ elapsed' = elapsed + RetryMs
            /\ current' = IF MayAlternate THEN Other(current) ELSE current
            /\ UNCHANGED <<boot, pending>>
  /\ UNCHANGED <<st, probeVars, handle, ready, linkUp, ui, blank, boardVars, boots, build>>

(* Nobody answered, or the shared handle could not be brought up.  After   *)
(* the window the probe goes on in the background and the LED blinks.      *)
BootMiss ==
  /\ boot = "detect"
  /\ ProbeMisses(current)
  /\ IF elapsed >= WindowMs
       THEN /\ boot' = "blink"
            /\ pending' = TRUE
            /\ UNCHANGED <<current, elapsed>>
       ELSE /\ elapsed' = elapsed + RetryMs
            /\ current' = IF MayAlternate THEN Other(current) ELSE current
            /\ UNCHANGED <<boot, pending>>
  /\ UNCHANGED <<st, probeVars, handle, ready, linkUp, saved, ui, blank, boardVars, boots, build>>

BootFound ==
  /\ boot = "detect"
  /\ ProbeSees(current)
  /\ handle' = Opened(current)
  /\ linkUp' = TRUE
  /\ ready' = TRUE
  /\ saved' \in {current, saved}
  /\ boot' = "up"
  /\ UNCHANGED <<current, elapsed, st, probeVars, pending, ui, blank, boardVars, boots, build>>

(* The builds with a fixed transport bring the handle up first ...         *)
ForcedOpen ==
  /\ boot = "opening"
  /\ \/ /\ handle' = Opened(current)
        /\ linkUp' = TRUE
        /\ ready' = TRUE
        /\ boot' = "detecting"
        /\ NoFault
     \/ /\ Faulty
        /\ boot' = "up"
        /\ UNCHANGED <<handle, linkUp, ready>>
  /\ UNCHANGED <<current, elapsed, st, probeVars, pending, saved, ui, blank, boardVars, boots, build>>

(* ... and then poll the board with a plain read until the window is over. *)
ForcedPoll ==
  /\ boot = "detecting"
  /\ \/ /\ ReadSucceeds(current)
        /\ boot' = "up"
        /\ UNCHANGED elapsed
     \/ /\ ReadFails(current)
        /\ IF elapsed >= WindowMs
             THEN boot' = "blink" /\ UNCHANGED elapsed
             ELSE elapsed' = elapsed + RetryMs /\ UNCHANGED boot
  /\ UNCHANGED <<current, st, probeVars, handleVars, ui, blank, boardVars, boots, build>>

(* Six blinks later, app_main declares the link down and boots on.         *)
BootDegraded ==
  /\ boot = "blink"
  /\ linkUp' = (linkUp /\ ~ready)
  /\ boot' = "up"
  /\ UNCHANGED <<current, elapsed, st, probeVars, handle, ready, pending, saved,
                 ui, blank, boardVars, faults, boots, build>>

-----------------------------------------------------------------------------
(* status_refresh_task *)

StatusPass ==
  /\ st = "pass"
  /\ IF pending
       THEN st' = (IF due <= 0 THEN "probing" ELSE "arms") /\ UNCHANGED <<backoff, due>>
       ELSE st' = "arms" /\ backoff' = MinMs /\ due' = 0
  /\ UNCHANGED <<next, bootVars, handleVars, ui, blank, boardVars, faults, boots, build>>

(* Mutant: the backoff doubles without a cap.                              *)
BackOff_NoCap ==
  /\ backoff' = IF backoff < MaxMs THEN 2 * backoff ELSE backoff
  /\ due' = backoff'
  /\ next' = Other(next)

(* Mutant: the probe does not alternate.                                   *)
BackOff_SameBus ==
  /\ backoff' = IF 2 * backoff > MaxMs THEN MaxMs ELSE 2 * backoff
  /\ due' = backoff'
  /\ next' = next

(* A background probe that found nothing.                                  *)
BackOff ==
  /\ backoff' = IF 2 * backoff > MaxMs THEN MaxMs ELSE 2 * backoff
  /\ due' = backoff'
  /\ next' = Other(next)

StatusProbe ==
  /\ st = "probing"
  /\ \/ /\ ProbeSees(next)
        /\ handle' = Opening(next)
        /\ st' = "opening"
        /\ UNCHANGED probeVars
     \/ /\ ProbeMisses(next)
        /\ BackOff
        /\ st' = "arms"
        /\ UNCHANGED handle
  /\ UNCHANGED <<bootVars, ready, linkUp, pending, saved, ui, blank, boardVars, boots, build>>

(* transport_init failed: host_comm_init deletes the mutex it created.     *)
StatusOpenFails ==
  /\ st = "opening"
  /\ Faulty
  /\ handle' = NoHandle
  /\ BackOff
  /\ st' = "arms"
  /\ UNCHANGED <<bootVars, ready, linkUp, pending, saved, ui, blank, boardVars, boots, build>>

StatusOpened ==
  /\ st = "opening"
  /\ handle' = Opened(next)
  /\ linkUp' = TRUE
  /\ ready' = TRUE
  /\ pending' = FALSE
  /\ saved' \in {next, saved}
  /\ next' = Other(next)
  /\ backoff' = MinMs /\ due' = MinMs
  /\ st' = "arms"
  /\ UNCHANGED <<bootVars, ui, blank, boardVars, faults, boots, build>>

(* Mutant: the sleep is not cut short.                                     *)
Charge_WholeSleep == due' = due - (IF blank THEN IdleMs ELSE PollMs)

(* The sleep of a pass, never past the next probe, is charged against it.  *)
(* The comparison is unsigned: a negative time is longer than any delay.   *)
Charge ==
  LET delay == IF blank THEN IdleMs ELSE PollMs
      slept == IF pending /\ due \in 0 .. delay - 1
                 THEN (IF due > FloorMs THEN due ELSE FloorMs) ELSE delay
  IN due' = due - slept

(* Mutant: the poll for a lost board stops once the handle is up.          *)
StatusArms_NoRecovery ==
  /\ st = "arms"
  /\ UNCHANGED linkUp
  /\ Charge
  /\ st' = "sleep"
  /\ UNCHANGED <<bootVars, next, backoff, handle, ready, pending, saved, ui, blank, boardVars, faults, boots, build>>

(* With the display on, a link that is down is polled for with a plain read. *)
StatusArms ==
  /\ st = "arms"
  /\ \/ /\ ~blank /\ ready /\ ~linkUp
        /\ \/ ReadSucceeds(handle.bus) /\ linkUp' = TRUE
           \/ ReadFails(handle.bus) /\ UNCHANGED linkUp
     \/ /\ blank \/ ~ready \/ linkUp
        /\ UNCHANGED linkUp /\ NoFault
  /\ Charge
  /\ st' = "sleep"
  /\ UNCHANGED <<bootVars, next, backoff, handle, ready, pending, saved, ui, blank, boardVars, boots, build>>

StatusWake ==
  /\ st = "sleep"
  /\ st' = "pass"
  /\ UNCHANGED <<bootVars, probeVars, handleVars, ui, blank, boardVars, faults, boots, build>>

-----------------------------------------------------------------------------
(* The tasks that use the link. *)

(* handle_comm_error after a failed command: reset, then list again.       *)
Reconnect ==
  /\ ui = "calm"
  /\ boot = "up" /\ linkUp /\ ~blank
  /\ ui' = "reconnecting"
  /\ UNCHANGED <<bootVars, st, probeVars, handleVars, blank, boardVars, faults, boots, build>>

Reconnected ==
  /\ ui = "reconnecting"
  /\ \/ ProbeSees(handle.bus) /\ UNCHANGED linkUp
     \/ ProbeMisses(handle.bus) /\ linkUp' = FALSE
  /\ ui' = "calm"
  /\ UNCHANGED <<bootVars, st, probeVars, handle, ready, pending, saved, blank, boardVars, boots, build>>

(* The display goes off when idle and on at a button press.                *)
Blank ==
  /\ blank' = ~blank
  /\ UNCHANGED <<bootVars, st, probeVars, handleVars, ui, boardVars, faults, boots, build>>

-----------------------------------------------------------------------------
(* The world outside the panel. *)

BoardFlips ==
  /\ flips < MaxFlips
  /\ flips' = flips + 1
  /\ power' = ~power
  /\ seen' = IF power' THEN seen \cup {bus} ELSE seen
  /\ UNCHANGED <<bootVars, st, probeVars, handleVars, ui, blank, bus, faults, boots, build>>

(* The panel restarts, perhaps on another board: only NVS survives.        *)
Restart ==
  /\ boots < MaxBoots
  /\ boots' = boots + 1
  /\ boot' = BootStart /\ current' = FirstTry(saved) /\ elapsed' = 0
  /\ st' = "pass" /\ next' = "i2c" /\ backoff' = MinMs /\ due' = 0
  /\ handle' = NoHandle /\ ready' = FALSE /\ linkUp' = FALSE /\ pending' = PendingAtStart
  /\ ui' = "calm" /\ blank' = FALSE
  /\ bus' \in IF AutoBuild THEN Buses ELSE {build}
  /\ seen' = IF power THEN seen \cup {bus'} ELSE seen
  /\ UNCHANGED <<saved, power, faults, flips, build>>

BootStep == BootMiss \/ BootFound \/ ForcedOpen \/ ForcedPoll \/ BootDegraded
StatusStep == \/ StatusPass \/ StatusProbe \/ StatusOpenFails \/ StatusOpened
              \/ StatusArms \/ StatusWake
UserStep == Reconnect \/ Reconnected \/ Blank

Next == BootStep \/ StatusStep \/ UserStep \/ BoardFlips \/ Restart

Spec == Init /\ [][Next]_vars

(* The two tasks are scheduled and their calls return (HostComm); a        *)
(* recovery that was begun ends.  Nothing makes the user or the board act. *)
FairSpec == Spec /\ WF_vars(BootStep) /\ WF_vars(StatusStep) /\ WF_vars(Reconnected)

-----------------------------------------------------------------------------
(* Properties. *)

(* The variables keep their types; the backoff stays between its limits.   *)
TypeOK ==
  /\ boot \in {"opening", "detecting", "detect", "blink", "up"}
  /\ current \in Buses /\ next \in Buses /\ bus \in Buses
  /\ elapsed \in Nat
  /\ st \in {"pass", "probing", "opening", "arms", "sleep"}
  /\ backoff \in MinMs .. MaxMs
  /\ due \in Int
  /\ handle \in [st : {"none", "opening", "up"}, bus : Buses]
  /\ pending \in BOOLEAN /\ ready \in BOOLEAN /\ linkUp \in BOOLEAN
  /\ blank \in BOOLEAN /\ power \in BOOLEAN
  /\ ui \in {"calm", "reconnecting"}
  /\ saved \in Buses \cup {"none"}
  /\ seen \subseteq Buses
  /\ build \in Builds /\ faults \in 0 .. MaxFaults
  /\ flips \in 0 .. MaxFlips /\ boots \in 1 .. MaxBoots

(* One looks for the board, and only one: app_main's detection and the     *)
(* background probe never use probe_comm, which has no lock, at the same   *)
(* time, and after detection there is a link or a probe to come.           *)
OneLooks ==
  /\ ~(boot = "detect" /\ st \in {"probing", "opening"})
  /\ AutoBuild /\ boot # "detect" => pending \/ ready

(* AUTO never brings the shared handle up on a bus its board is not on,    *)
(* and NVS only ever holds a transport on which a running board has been.  *)
OnlyLiveBuses ==
  /\ AutoBuild /\ handle.st # "none" => handle.bus = bus
  /\ saved # "none" => saved \in seen

(* The task never sleeps past the next probe by more than its shortest     *)
(* sleep, even when it sleeps ten seconds because the display is off.      *)
ProbeOnTime == [][st = "arms" /\ st' = "sleep" /\ pending => due' >= - FloorMs]_vars

(* AUTO: a board that stays on is found, whatever the display does.        *)
FindsBoard == <>[]power => <>[](ready \/ ~AutoBuild)

(* A board that stays on is seen as linked for good once the display is on *)
(* long enough, however the link was lost; only a fixed build whose driver *)
(* failed at boot has nothing to poll.                                     *)
RecoversAwake == <>[](power /\ ~blank) => <>[](linkUp \/ (~AutoBuild /\ ~ready))
=============================================================================
