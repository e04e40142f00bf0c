----------------------------- MODULE DisplayPower -----------------------------
(***************************************************************************)
(* The OLED's idle chain (display_manager.c): full brightness, then dimmed *)
(* or a screensaver, then off, driven by two one-shot timers and undone by *)
(* a wake; together with the display task that sends the frame buffer to   *)
(* the panel and the LED's copy of the off state (main.c).                 *)
(*                                                                         *)
(* One processor.  The timer task (priority 22) interrupts the wakers      *)
(* (10: the button task, and the firmware job, whose progress screen wakes *)
(* too), they interrupt the display task (5), each between two statements; *)
(* a task gives way only where it waits for spi_mutex or sleeps.  Only the *)
(* frame transfer is long enough to be interrupted with the mutex held, so *)
(* the mutex is taken exactly while the display task is sending.           *)
(***************************************************************************)
EXTENDS Integers

CONSTANTS Modes,        \* idle modes: "dim", "saver" (toasters and logo alike)
          IdleTimeouts, \* ticks to the idle stage; Never
          OffTimeouts,  \* ticks of inactivity to the off stage; Never
          MaxMissed     \* bound: how often a wait for spi_mutex times out

Never == 0

(* display_manager.c clamps every idle timeout below the smallest off      *)
(* timeout.                                                                *)
ASSUME ModesAssumption == Modes \subseteq {"dim", "saver"}
ASSUME TimeoutsAssumption ==
  /\ IdleTimeouts \cup OffTimeouts \subseteq Nat
  /\ \A i \in IdleTimeouts \ {Never}, o \in OffTimeouts \ {Never} : i < o
ASSUME MissedAssumption == MaxMissed \in Nat

VARIABLES
  state,        \* "full", "dimmed", "saver", "off"
  mode, idleAfter, offAfter,  \* idle_mode, idle_timeout_ms, off_timeout_ms
  dim, off,     \* the timers: ticks left, 0 when due, or Stopped
  panel,        \* what the controller was last told: power, contrast
  ledOff,       \* main.c's display_is_off
  screen,       \* menus repainted on their flag ("device" is Select Device);
                \* "info", drawn once; "update", drawn by the job
  needsRedraw,  \* needs_full_redraw
  dirty,        \* the menu's needs_redraw
  buffer,       \* the frame buffer: "frame" or "saver"
  needsUpdate,  \* needs_update
  shown,        \* the panel shows what is in the buffer
  pc,           \* where each task is
  was,          \* what a task read on entry: the state it found
  quiet,        \* history: ticks since a wake last stopped the timers
  overlapped,   \* history: a timer callback and a wake have overlapped
  missed        \* waits for the mutex that timed out

chain  == <<state, mode, idleAfter, offAfter, dim, off>>
frame  == <<screen, needsRedraw, dirty, buffer, needsUpdate, shown>>
hist   == <<quiet, overlapped, missed>>
vars   == <<chain, frame, hist, panel, ledOff, pc, was>>

Stopped  == -1
Wakers   == {"button", "job"}
Tasks    == Wakers \cup {"timer", "display"}
Priority == [t \in Tasks |-> CASE t = "timer"   -> 22
                               [] t \in Wakers  -> 10
                               [] t = "display" -> 5]
States   == {"full", "dimmed", "saver", "off"}
Menus    == {"menu", "device"}

Sending  == pc["display"] = "sending"
AllIdle  == \A t \in Tasks : pc[t] = "idle"
Waking   == \E w \in Wakers : pc[w] # "idle"

(* A task runs when none of a higher priority is ready to.                 *)
Ready(t)  == /\ pc[t] \notin {"idle", "asleep"}
             /\ ~(pc[t] \in {"contrast", "power", "light"} /\ Sending)
CanRun(t) == \A u \in Tasks : Priority[u] > Priority[t] => ~Ready(u)
GoesTo(t, at) == pc' = [pc EXCEPT ![t] = at]
Forgets(t)    == was' = [was EXCEPT ![t] = "full"]   \* the local goes out of scope

Init ==
  /\ state = "full" /\ mode \in Modes
  /\ idleAfter \in IdleTimeouts /\ offAfter \in OffTimeouts
  /\ dim = (IF idleAfter = Never THEN Stopped ELSE idleAfter)
  /\ off = (IF idleAfter = Never /\ offAfter # Never THEN offAfter ELSE Stopped)
  /\ panel = [on |-> TRUE, contrast |-> "high"]
  /\ ledOff = FALSE
  /\ screen = "menu" /\ buffer = "frame" /\ dirty = TRUE
  /\ needsRedraw = FALSE /\ needsUpdate = FALSE /\ shown = FALSE
  /\ pc = [t \in Tasks |-> "idle"] /\ was = [t \in Tasks |-> "full"]
  /\ quiet = 0 /\ overlapped = FALSE /\ missed = 0

-----------------------------------------------------------------------------
(* The mutex: a step that needs it either finds it free, or gives up after *)
(* 100 ms and goes on without the controller.                              *)
TellsPanel(on, contrast) ==
  \/ /\ ~Sending
     /\ panel' = [on |-> on, contrast |-> contrast]
     /\ UNCHANGED missed
  \/ /\ Sending /\ missed < MaxMissed
     /\ missed' = missed + 1
     /\ UNCHANGED panel

(* esp_timer_start_once refuses a timer that is already armed.             *)
Armed(timer, ticks) == IF timer = Stopped THEN ticks ELSE timer
(* Mutant: the sum for the difference.                                     *)
OffArmed_Sum == IF offAfter = Never THEN off ELSE Armed(off, offAfter + idleAfter)

OffArmed == IF offAfter = Never THEN off ELSE Armed(off, offAfter - idleAfter)

(* schedule_idle_timer, from given timers                                  *)
Schedule(d, o, idle, blank) ==
  IF idle # Never
    THEN dim' = Armed(d, idle) /\ off' = o
    ELSE dim' = d /\ off' = IF blank # Never THEN Armed(o, blank) ELSE o

(* An operation lasts a fraction of a second and the shortest timeout 30   *)
(* seconds: time passes between operations, and a timer that falls due may *)
(* run its callback at any later point, an operation's middle included.    *)
Tick ==
  /\ AllIdle /\ 0 \notin {dim, off} /\ {dim, off} # {Stopped}
  /\ dim' = (IF dim = Stopped THEN dim ELSE dim - 1)
  /\ off' = (IF off = Stopped THEN off ELSE off - 1)
  /\ quiet' = quiet + 1
  /\ UNCHANGED <<state, mode, idleAfter, offAfter, frame, panel, ledOff, pc, was,
                 overlapped, missed>>

-----------------------------------------------------------------------------
(* dim_timer_callback                                                      *)
DimFires ==
  /\ dim = 0 /\ pc["timer"] = "idle"
  /\ dim' = Stopped
  /\ overlapped' = (overlapped \/ Waking)
  /\ \/ state # "full" /\ UNCHANGED <<state, off, pc>>
     \/ /\ state = "full" /\ mode = "dim"
        /\ state' = "dimmed" /\ GoesTo("timer", "contrast")
        /\ UNCHANGED off
     \/ /\ state = "full" /\ mode = "saver"
        /\ state' = "saver" /\ off' = OffArmed
        /\ UNCHANGED pc
  /\ UNCHANGED <<mode, idleAfter, offAfter, frame, panel, ledOff, was, quiet, missed>>

(* The rest of enter_dimmed.                                               *)
Dims ==
  /\ pc["timer"] = "contrast"
  /\ TellsPanel(panel.on, "low")
  /\ off' = OffArmed
  /\ GoesTo("timer", "idle")
  /\ UNCHANGED <<state, mode, idleAfter, offAfter, dim, frame, ledOff, was,
                 quiet, overlapped>>

(* off_timer_callback                                                      *)
OffFires ==
  /\ off = 0 /\ pc["timer"] = "idle"
  /\ off' = Stopped
  /\ overlapped' = (overlapped \/ Waking)
  /\ \/ state = "off" /\ UNCHANGED <<state, was, pc>>
     \/ /\ state # "off"
        /\ was' = [was EXCEPT !["timer"] = state]
        /\ state' = "off" /\ GoesTo("timer", "power")
  /\ UNCHANGED <<mode, idleAfter, offAfter, dim, frame, panel, ledOff, quiet, missed>>

(* Mutant: enter_off forgets that the screensaver painted the buffer.      *)
PowersDown_NoRedraw ==
  /\ pc["timer"] = "power"
  /\ TellsPanel(FALSE, panel.contrast)
  /\ ledOff' = TRUE
  /\ GoesTo("timer", "idle") /\ Forgets("timer")
  /\ UNCHANGED <<chain, frame, quiet, overlapped>>

(* The rest of enter_off, on_display_off_state_change included.            *)
PowersDown ==
  /\ pc["timer"] = "power"
  /\ TellsPanel(FALSE, panel.contrast)
  /\ needsRedraw' = (needsRedraw \/ was["timer"] = "saver")
  /\ ledOff' = TRUE
  /\ GoesTo("timer", "idle") /\ Forgets("timer")
  /\ UNCHANGED <<chain, screen, dirty, buffer, needsUpdate, shown, quiet, overlapped>>

-----------------------------------------------------------------------------
(* display_manager_wake, by the task w: what it reads on entry.            *)
WakeReads(w) ==
  /\ was' = [was EXCEPT ![w] = state]
  /\ overlapped' = (overlapped \/ pc["timer"] # "idle")
  /\ UNCHANGED quiet

Click ==
  /\ CanRun("button") /\ pc["button"] = "idle"
  /\ WakeReads("button") /\ GoesTo("button", "stop")
  /\ UNCHANGED <<chain, frame, panel, ledOff, missed>>

(* ui_draw_firmware_update paints the progress screen and then wakes.      *)
Progress ==
  /\ CanRun("job") /\ pc["job"] = "idle"
  /\ screen' = "update" /\ buffer' = "frame" /\ needsUpdate' = TRUE /\ shown' = FALSE
  /\ WakeReads("job") /\ GoesTo("job", "stop")
  /\ UNCHANGED <<chain, needsRedraw, dirty, panel, ledOff, missed>>

(* Mutant: only the dim timer is stopped.                                  *)
StopsTimers_DimOnly(w) ==
  /\ pc[w] = "stop" /\ CanRun(w)
  /\ dim' = Stopped /\ off' = off /\ quiet' = 0
  /\ GoesTo(w, IF was[w] = "full" THEN "schedule" ELSE "bright")
  /\ UNCHANGED <<state, mode, idleAfter, offAfter, frame, panel, ledOff, was, overlapped, missed>>

StopsTimers(w) ==
  /\ pc[w] = "stop" /\ CanRun(w)
  /\ dim' = Stopped /\ off' = Stopped /\ quiet' = 0
  /\ GoesTo(w, IF was[w] = "full" THEN "schedule" ELSE "bright")
  /\ UNCHANGED <<state, mode, idleAfter, offAfter, frame, panel, ledOff, was, overlapped, missed>>

Brightens(w) ==
  /\ pc[w] = "bright" /\ CanRun(w)
  /\ state' = "full"
  /\ GoesTo(w, IF was[w] = "off" THEN "led" ELSE "light")
  /\ UNCHANGED <<mode, idleAfter, offAfter, dim, off, frame, panel, ledOff, was, hist>>

(* on_display_off_state_change(false): led_stop_breathe sleeps 40 ms       *)
LedBack(w) ==
  /\ pc[w] = "led" /\ CanRun(w)
  /\ ledOff' = FALSE
  /\ GoesTo(w, "asleep")
  /\ UNCHANGED <<chain, frame, panel, was, hist>>

(* Mutant: the power-up is issued only by a wake that found the display off. *)
Lights_IfWasOff(w) ==
  /\ pc[w] \in {"asleep", "light"} /\ CanRun(w)
  /\ TellsPanel(panel.on \/ was[w] = "off", "high")
  /\ needsRedraw' = (needsRedraw \/ was[w] = "saver")
  /\ needsUpdate' = TRUE
  /\ GoesTo(w, "schedule")
  /\ UNCHANGED <<chain, screen, dirty, buffer, shown, ledOff, was, quiet, overlapped>>

Lights(w) ==
  /\ pc[w] \in {"asleep", "light"} /\ CanRun(w)
  /\ TellsPanel(TRUE, "high")
  /\ needsRedraw' = (needsRedraw \/ was[w] = "saver")
  /\ needsUpdate' = TRUE
  /\ GoesTo(w, "schedule")
  /\ UNCHANGED <<chain, screen, dirty, buffer, shown, ledOff, was, quiet, overlapped>>

(* Mutant: only a wake that found the display idle restarts the chain.     *)
Schedules_IfIdle(w) ==
  /\ pc[w] = "schedule" /\ CanRun(w)
  /\ IF was[w] = "full" THEN UNCHANGED <<dim, off>>
     ELSE Schedule(dim, off, idleAfter, offAfter)
  /\ GoesTo(w, IF w = "button" /\ was[w] = "full" THEN "act" ELSE "idle")
  /\ Forgets(w)
  /\ UNCHANGED <<state, mode, idleAfter, offAfter, frame, panel, ledOff, hist>>

(* A click that woke the display does nothing else.                        *)
Schedules(w) ==
  /\ pc[w] = "schedule" /\ CanRun(w)
  /\ Schedule(dim, off, idleAfter, offAfter)
  /\ GoesTo(w, IF w = "button" /\ was[w] = "full" THEN "act" ELSE "idle")
  /\ Forgets(w)
  /\ UNCHANGED <<state, mode, idleAfter, offAfter, frame, panel, ledOff, hist>>

-----------------------------------------------------------------------------
(* What a click then does: set_idle_mode, set_idle_timeout and             *)
(* set_off_timeout, which restart the chain at full brightness, ...        *)
ActsOn(m, i, o) ==
  /\ pc["button"] = "act" /\ CanRun("button") /\ screen = "menu"
  /\ mode' = m /\ idleAfter' = i /\ offAfter' = o
  /\ IF state = "full" THEN Schedule(Stopped, Stopped, i, o) ELSE UNCHANGED <<dim, off>>
  /\ dirty' = TRUE
  /\ GoesTo("button", "idle")
  /\ UNCHANGED <<state, screen, needsRedraw, buffer, needsUpdate, shown, panel,
                 ledOff, was, hist>>

SetMode == \E m \in Modes \ {mode} : ActsOn(m, idleAfter, offAfter)
SetIdle == \E i \in IdleTimeouts \ {idleAfter} : ActsOn(mode, i, offAfter)
SetOff  == \E o \in OffTimeouts \ {offAfter} : ActsOn(mode, idleAfter, o)

(* ... moving to a menu, which only sets its flag, ...                     *)
OpenMenu ==
  /\ pc["button"] = "act" /\ CanRun("button") /\ screen # "update"
  /\ screen' \in IF screen = "info" THEN {"menu"} ELSE Menus
  /\ dirty' = TRUE
  /\ GoesTo("button", "idle")
  /\ UNCHANGED <<chain, needsRedraw, buffer, needsUpdate, shown, panel, ledOff, was, hist>>

(* ... and the info screen, which the button task paints itself.           *)
OpenInfo ==
  /\ pc["button"] = "act" /\ CanRun("button") /\ screen # "update"
  /\ screen' = "info" /\ buffer' = "frame" /\ needsUpdate' = TRUE /\ shown' = FALSE
  /\ GoesTo("button", "idle")
  /\ UNCHANGED <<chain, needsRedraw, dirty, panel, ledOff, was, hist>>

(* During a firmware update the button does nothing.                       *)
Ignores ==
  /\ pc["button"] = "act" /\ CanRun("button") /\ screen = "update"
  /\ GoesTo("button", "idle")
  /\ UNCHANGED <<chain, frame, panel, ledOff, was, hist>>

(* The task paints the main menu; the display task, if no screensaver is   *)
(* on in its next pass, paints it once more, because the screen changed.   *)
JobEnds ==
  /\ pc["job"] = "idle" /\ screen = "update" /\ CanRun("job")
  /\ screen' = "menu" /\ buffer' = "frame" /\ needsUpdate' = TRUE /\ shown' = FALSE
  /\ dirty' \in BOOLEAN
  /\ UNCHANGED <<chain, needsRedraw, panel, ledOff, pc, was, hist>>

-----------------------------------------------------------------------------
(* display_update_task, one pass of its loop that has something to do.     *)
(* redraw_current_screen has no case for SCREEN_DEVICE_SELECT.             *)
LoopBegins ==
  /\ pc["display"] = "idle" /\ CanRun("display")
  /\ needsRedraw \/ needsUpdate \/ state = "saver" \/ (dirty /\ screen \in Menus)
  /\ needsRedraw' = FALSE
  /\ dirty' = (dirty \/ (needsRedraw /\ screen = "menu"))
  /\ IF needsRedraw /\ screen = "info"
       THEN buffer' = "frame" /\ needsUpdate' = TRUE /\ shown' = FALSE
       ELSE UNCHANGED <<buffer, needsUpdate, shown>>
  /\ GoesTo("display", "paint")
  /\ UNCHANGED <<chain, screen, panel, ledOff, was, hist>>

(* The screensaver's state is read here and acted on in PaintsSaver.       *)
Paints ==
  /\ pc["display"] = "paint" /\ CanRun("display")
  /\ IF state # "saver" /\ screen \in Menus /\ dirty
       THEN buffer' = "frame" /\ needsUpdate' = TRUE /\ shown' = FALSE /\ dirty' = FALSE
       ELSE UNCHANGED <<buffer, needsUpdate, shown, dirty>>
  /\ GoesTo("display", IF state = "saver" THEN "saver" ELSE "send")
  /\ UNCHANGED <<chain, screen, needsRedraw, panel, ledOff, was, hist>>

PaintsSaver ==
  /\ pc["display"] = "saver" /\ CanRun("display")
  /\ buffer' = "saver" /\ needsUpdate' = TRUE /\ shown' = FALSE
  /\ GoesTo("display", "send")
  /\ UNCHANGED <<chain, screen, needsRedraw, dirty, panel, ledOff, was, hist>>

(* display_manager_update: nothing to do, or the transfer begins.  A paint *)
(* during the transfer leaves the panel behind the buffer.                 *)
SkipsSend ==
  /\ pc["display"] = "send" /\ CanRun("display")
  /\ ~needsUpdate \/ state = "off"
  /\ GoesTo("display", "idle")
  /\ UNCHANGED <<chain, frame, panel, ledOff, was, hist>>

SendBegins ==
  /\ pc["display"] = "send" /\ CanRun("display")
  /\ needsUpdate /\ state # "off"
  /\ shown' = TRUE
  /\ GoesTo("display", "sending")
  /\ UNCHANGED <<chain, screen, needsRedraw, dirty, buffer, needsUpdate, panel, ledOff,
                 was, hist>>

(* The mutex goes to whoever waits, and needs_update is cleared after it   *)
(* was given.                                                              *)
SendEnds ==
  /\ pc["display"] = "sending" /\ CanRun("display")
  /\ GoesTo("display", "clear")
  /\ UNCHANGED <<chain, frame, panel, ledOff, was, hist>>

Clears ==
  /\ pc["display"] = "clear" /\ CanRun("display")
  /\ needsUpdate' = FALSE
  /\ GoesTo("display", "idle")
  /\ UNCHANGED <<chain, screen, needsRedraw, dirty, buffer, shown, panel, ledOff, was, hist>>

-----------------------------------------------------------------------------
Next ==
  \/ Tick \/ DimFires \/ Dims \/ OffFires \/ PowersDown
  \/ Click \/ Progress
  \/ \E w \in Wakers : StopsTimers(w) \/ Brightens(w) \/ LedBack(w) \/ Lights(w)
                       \/ Schedules(w)
  \/ SetMode \/ SetIdle \/ SetOff \/ OpenMenu \/ OpenInfo \/ Ignores \/ JobEnds
  \/ LoopBegins \/ Paints \/ PaintsSaver \/ SkipsSend \/ SendBegins \/ SendEnds \/ Clears

Spec == Init /\ [][Next]_vars
-----------------------------------------------------------------------------
(* Types: the variables range over the values the code can give them, and  *)
(* no timer is ever armed beyond the longest timeout (off_timeout_ms -     *)
(* idle_timeout_ms, which is unsigned, never wraps).                       *)
Ticks == IdleTimeouts \cup OffTimeouts
TimerSteps   == {"idle", "contrast", "power"}
WakeSteps    == {"idle", "stop", "bright", "led", "asleep", "light", "schedule", "act"}
DisplaySteps == {"idle", "paint", "saver", "send", "sending", "clear"}
TypeOK ==
  /\ state \in States /\ mode \in Modes
  /\ idleAfter \in IdleTimeouts /\ offAfter \in OffTimeouts
  /\ dim = Stopped \/ \E t \in Ticks : dim \in 0 .. t
  /\ off = Stopped \/ \E t \in Ticks : off \in 0 .. t
  /\ panel \in [on : BOOLEAN, contrast : {"low", "high"}]
  /\ screen \in Menus \cup {"info", "update"} /\ buffer \in {"frame", "saver"}
  /\ ledOff \in BOOLEAN /\ needsRedraw \in BOOLEAN /\ dirty \in BOOLEAN
  /\ needsUpdate \in BOOLEAN /\ shown \in BOOLEAN /\ overlapped \in BOOLEAN
  /\ pc \in [Tasks -> TimerSteps \cup WakeSteps \cup DisplaySteps]
  /\ pc["timer"] \in TimerSteps /\ pc["display"] \in DisplaySteps
  /\ \A w \in Wakers : pc[w] \in WakeSteps
  /\ was \in [Tasks -> States]
  /\ quiet \in Nat /\ missed \in 0 .. MaxMissed

(* Whenever no operation is under way and no wait for the mutex has timed  *)
(* out, the controller is in the state display_manager believes it is in:  *)
(* however enter_dimmed, enter_off and display_manager_wake overlapped,    *)
(* the panel of a display at full brightness is powered and bright, and    *)
(* the panel of one that is off is dark.                                   *)
PanelFollowsState ==
  AllIdle /\ missed = 0 =>
    /\ panel.on <=> state # "off"
    /\ state = "full" => panel.contrast = "high"
    /\ state = "dimmed" => panel.contrast = "low"

(* The screensaver paints over the buffer.  Once it is over, the pass of   *)
(* the display task that finds nothing left to do has put the screen back, *)
(* wherever in a paint the wake fell.  Two screens are excepted: an update *)
(* paints its own progress, and redraw_current_screen (main.c:1212) has no *)
(* case for Select Device.                                                 *)
SaverLeft(s) == AllIdle /\ state # "saver" /\ screen = s /\ buffer = "saver"
SaverErased ==
  \A s \in {"menu", "info"} :
    SaverLeft(s) => needsRedraw \/ (s = "menu" /\ dirty)

(* "Total time of inactivity before blanking the display"                  *)
(* (display_manager.h): off the overlaps of a wake with a timer callback,  *)
(* the display goes off exactly off_timeout_ms after the last wake, by     *)
(* whichever stages and settings it got there.                             *)
OffOnTime ==
  [][OffFires /\ state' # state /\ ~overlapped' => quiet = offAfter]_vars

(* And, again off the overlaps, it always does: a display that is not off  *)
(* and has an off timeout has the timer armed that takes it one stage      *)
(* further, and the LED's copy of the off state agrees with the display.   *)
ChainGoesOn ==
  AllIdle /\ ~overlapped =>
    /\ offAfter # Never /\ state # "off" =>
         off # Stopped \/ (state = "full" /\ dim # Stopped)
    /\ ledOff <=> state = "off"
=============================================================================
