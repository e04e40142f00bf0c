------------------------- MODULE DisplayPower_proofs -------------------------
(***************************************************************************)
(* Proofs about DisplayPower, for any timeouts and any number of missed    *)
(* waits for the mutex: the panel follows the state, the screensaver is    *)
(* painted over, and off the overlaps of a timer callback and a wake the   *)
(* chain goes on and ends on time.                                         *)
(***************************************************************************)
EXTENDS DisplayPower, TLAPS

Timer == pc["timer"]

(* A wake past the stopping of the timers has not armed them again yet.    *)
Settling == {"bright", "led", "asleep", "light", "schedule"}
Lighting == {"led", "asleep", "light"}
Lit      == \E w \in Wakers : pc[w] \in Lighting
Settles  == \E w \in Wakers : pc[w] \in Settling

(* Time passes between operations only, so a timer that is due fell due    *)
(* before any wake under way stopped it; what woke it found it not full.   *)
DueBefore ==
  /\ 0 \in {dim, off} => \A w \in Wakers : pc[w] \in {"idle", "stop"}
  /\ \A w \in Wakers :
       /\ pc[w] = "bright" => was[w] # "full"
       /\ pc[w] = "stop" /\ was[w] # "full" /\ dim = 0 => state # "full"

(* The panel lags behind the state only by the statement the timer task or *)
(* a wake has still to make.                                               *)
PanelLags ==
  /\ Lit => state = "full"
  /\ missed = 0 /\ ~Lit =>
       /\ Timer = "idle" => /\ panel.on <=> state # "off"
                            /\ state = "full" => panel.contrast = "high"
                            /\ state = "dimmed" => panel.contrast = "low"
       /\ Timer = "contrast" => state = "dimmed" /\ panel.on
       /\ Timer = "power" => state = "off"

(* A task that found the screensaver on has still to ask for a redraw.     *)
WillRedraw == \/ Timer = "power" /\ was["timer"] = "saver"
              \/ \E w \in Wakers : was[w] = "saver" /\ pc[w] \in {"stop", "bright"} \cup Lighting

SaverOwed ==
  /\ \A w \in Wakers :
       state = "saver" /\ pc[w] \in {"stop", "bright"} => was[w] \in {"full", "saver"}
  /\ pc["display"] = "saver" /\ state # "saver" => needsRedraw \/ WillRedraw
  /\ buffer = "saver" /\ state # "saver" /\ screen \in {"menu", "info"} =>
       needsRedraw \/ (screen = "menu" /\ dirty) \/ WillRedraw

(* Off the overlaps: who runs alone, what a wake found and where it is, ... *)
Alone ==
  /\ Timer # "idle" => ~Waking
  /\ Timer = "contrast" => state = "dimmed"
  /\ Timer = "power" => state = "off"
  /\ \A w \in Wakers :
       /\ pc[w] \in {"stop", "bright"} => state \in {was[w], "full"}
       /\ pc[w] \in Lighting \cup {"schedule", "act"} => state = "full"
       /\ pc[w] \in Settling \cup {"act"} => quiet = 0
       /\ pc[w] \in Settling /\ state # "full" => dim = Stopped /\ off = Stopped

(* ... how much time each armed timer has left, ...                        *)
OnTime ==
  /\ off # Stopped => off + quiet = offAfter
  /\ dim # Stopped => state = "full" /\ idleAfter # Never /\ dim + quiet = idleAfter
  /\ state = "full" /\ idleAfter # Never => off = Stopped
  /\ state = "off" => off = Stopped
  /\ Timer = "contrast" => quiet = idleAfter /\ idleAfter # Never /\ off = Stopped

(* ... that one is armed unless the operation under way will arm it, and   *)
(* what the LED is told.                                                   *)
GoesOn ==
  offAfter # Never /\ state # "off" =>
    off # Stopped \/ (state = "full" /\ dim # Stopped)
Led == Timer # "power" /\ (\A w \in Wakers : pc[w] # "led") => (ledOff <=> state = "off")

Chain == Alone /\ OnTime /\ (Settles \/ Timer = "contrast" \/ GoesOn) /\ Led

Inv == /\ TypeOK /\ DueBefore /\ PanelLags /\ SaverOwed
       /\ ~overlapped => Chain

-----------------------------------------------------------------------------
(* What the helpers do. *)

PcOK ==
  /\ pc \in [Tasks -> TimerSteps \cup WakeSteps \cup DisplaySteps]
  /\ pc["timer"] \in TimerSteps /\ pc["display"] \in DisplaySteps
  /\ \A w \in Wakers : pc[w] \in WakeSteps

InTicks(x) == x = Stopped \/ \E t \in Ticks : x \in 0 .. t

LEMMA TasksApart ==
  /\ Wakers \subseteq Tasks /\ "timer" \in Tasks \ Wakers /\ "display" \in Tasks \ Wakers
  /\ "timer" # "display" /\ "button" \in Wakers /\ "job" \in Wakers
  /\ Tasks = Wakers \cup {"timer", "display"}
  BY DEF Tasks, Wakers

(* A step of one task moves that task alone.                               *)
LEMMA TimerGoes ==
  ASSUME PcOK, NEW l \in TimerSteps, GoesTo("timer", l)
  PROVE  /\ PcOK' /\ pc'["timer"] = l /\ pc'["display"] = pc["display"]
         /\ \A w \in Wakers : pc'[w] = pc[w]
  BY TasksApart DEF PcOK, GoesTo

LEMMA DisplayGoes ==
  ASSUME PcOK, NEW l \in DisplaySteps, GoesTo("display", l)
  PROVE  /\ PcOK' /\ pc'["display"] = l /\ pc'["timer"] = pc["timer"]
         /\ \A w \in Wakers : pc'[w] = pc[w]
  BY TasksApart DEF PcOK, GoesTo

LEMMA WakerGoes ==
  ASSUME PcOK, NEW w \in Wakers, NEW l \in WakeSteps, GoesTo(w, l)
  PROVE  /\ PcOK' /\ pc'[w] = l
         /\ pc'["timer"] = pc["timer"] /\ pc'["display"] = pc["display"]
         /\ \A v \in Wakers \ {w} : pc'[v] = pc[v]
  BY TasksApart DEF PcOK, GoesTo

(* The timer task goes before a wake unless it waits for the mutex.        *)
LEMMA TimerFirst ==
  ASSUME PcOK, NEW w \in Wakers, CanRun(w)
  PROVE  Timer = "idle" \/ Sending
<1>1. Priority["timer"] > Priority[w]
  <2>1. Priority["timer"] = 22 /\ Priority[w] = 10
    BY TasksApart DEF Priority
  <2>. QED  BY <2>1
<1>2. ~Ready("timer")
  BY <1>1, TasksApart DEF CanRun
<1>. QED  BY <1>2 DEF Ready, PcOK, Timer, TimerSteps

(* What is armed is not due, and no more than the longest timeout.         *)
LEMMA SettingsTyped ==
  ASSUME TypeOK
  PROVE  /\ idleAfter \in Nat /\ offAfter \in Nat
         /\ dim \in Int /\ off \in Int
         /\ dim >= -1 /\ off >= -1
         /\ offAfter # Never /\ idleAfter # Never => idleAfter < offAfter
<1>1. idleAfter \in Nat /\ offAfter \in Nat
  BY TimeoutsAssumption DEF TypeOK
<1>2. offAfter # Never /\ idleAfter # Never => idleAfter < offAfter
  BY TimeoutsAssumption DEF TypeOK
<1>3. \A t \in Ticks : t \in Nat
  BY TimeoutsAssumption DEF Ticks
<1>4. dim \in Int /\ off \in Int /\ dim >= -1 /\ off >= -1
  BY <1>3 DEF TypeOK, Stopped
<1>. QED  BY <1>1, <1>2, <1>4

LEMMA OffArmedIs ==
  ASSUME TypeOK
  PROVE  /\ InTicks(OffArmed)
         /\ offAfter = Never \/ off # Stopped => OffArmed = off
         /\ offAfter # Never /\ off = Stopped => OffArmed = offAfter - idleAfter
         /\ offAfter # Never => OffArmed # Stopped
         /\ OffArmed = 0 => off = 0
<1>1. /\ idleAfter \in Nat /\ offAfter \in Nat
      /\ offAfter # Never => idleAfter < offAfter
  BY SettingsTyped DEF Never
<1>2. InTicks(off) /\ offAfter \in Ticks
  BY DEF TypeOK, InTicks, Ticks
<1>3. offAfter # Never => offAfter - idleAfter \in 0 .. offAfter /\ offAfter - idleAfter > 0
  BY <1>1
<1>4. offAfter # Never => InTicks(offAfter - idleAfter)
  BY <1>2, <1>3 DEF InTicks
<1>5. InTicks(OffArmed)
  BY <1>2, <1>4 DEF OffArmed, Armed
<1>. QED  BY <1>1, <1>3, <1>5 DEF OffArmed, Armed, Stopped

LEMMA ScheduleIs ==
  ASSUME NEW d, NEW o, InTicks(d), InTicks(o),
         NEW i \in IdleTimeouts, NEW b \in OffTimeouts, Schedule(d, o, i, b)
  PROVE  /\ InTicks(dim') /\ InTicks(off')
         /\ dim' = IF i # Never /\ d = Stopped THEN i ELSE d
         /\ off' = IF i = Never /\ b # Never /\ o = Stopped THEN b ELSE o
         /\ dim' = 0 => d = 0
         /\ off' = 0 => o = 0
<1>1. i \in Nat /\ b \in Nat /\ i \in Ticks /\ b \in Ticks
  BY TimeoutsAssumption DEF Ticks
<1>2. InTicks(i) /\ InTicks(b)
  BY <1>1 DEF InTicks
<1>3. /\ dim' = IF i # Never /\ d = Stopped THEN i ELSE d
      /\ off' = IF i = Never /\ b # Never /\ o = Stopped THEN b ELSE o
  BY DEF Schedule, Armed
<1>4. InTicks(dim') /\ InTicks(off')
  BY <1>2, <1>3
<1>. QED  BY <1>3, <1>4 DEF Never

-----------------------------------------------------------------------------
(* The types. *)

Typed ==
  /\ state \in States /\ mode \in Modes
  /\ idleAfter \in IdleTimeouts /\ offAfter \in OffTimeouts
  /\ InTicks(dim) /\ InTicks(off)
PanelTyped == panel \in [on : BOOLEAN, contrast : {"low", "high"}]
FrameTyped ==
  /\ screen \in Menus \cup {"info", "update"} /\ buffer \in {"frame", "saver"}
  /\ needsRedraw \in BOOLEAN /\ dirty \in BOOLEAN
  /\ needsUpdate \in BOOLEAN /\ shown \in BOOLEAN
WasTyped  == was \in [Tasks -> States]
HistTyped == quiet \in Nat /\ overlapped \in BOOLEAN /\ missed \in 0 .. MaxMissed

LEMMA TypesAre ==
  /\ TypeOK <=> /\ Typed /\ PanelTyped /\ FrameTyped /\ WasTyped /\ HistTyped
               /\ PcOK /\ ledOff \in BOOLEAN
  /\ TypeOK' <=> /\ Typed' /\ PanelTyped' /\ FrameTyped' /\ WasTyped' /\ HistTyped'
                /\ PcOK' /\ ledOff' \in BOOLEAN
  BY DEF TypeOK, Typed, PanelTyped, FrameTyped, WasTyped, HistTyped, PcOK, InTicks

LEMMA TellsTyped ==
  ASSUME TypeOK, NEW on \in BOOLEAN, NEW c \in {"low", "high"}, TellsPanel(on, c)
  PROVE  PanelTyped' /\ missed' \in 0 .. MaxMissed
<1>1. CASE ~Sending /\ panel' = [on |-> on, contrast |-> c] /\ missed' = missed
  BY <1>1 DEF TypeOK, PanelTyped
<1>2. CASE missed < MaxMissed /\ missed' = missed + 1 /\ panel' = panel
  BY <1>2, MissedAssumption DEF TypeOK, PanelTyped
<1>. QED  BY <1>1, <1>2 DEF TellsPanel

LEMMA StatesAre ==
  {"full", "dimmed", "saver", "off"} \subseteq States
  BY DEF States

(* The steps of the timer task.                                            *)
LEMMA TimerTypes ==
  ASSUME TypeOK, DimFires \/ Dims \/ OffFires \/ PowersDown
  PROVE  TypeOK'
<1>. USE TypesAre
<1>. /\ Typed /\ PanelTyped /\ FrameTyped /\ WasTyped /\ HistTyped /\ PcOK /\ ledOff \in BOOLEAN
     /\ InTicks(Stopped) /\ InTicks(OffArmed) /\ "timer" \in Tasks
     /\ panel.on \in BOOLEAN /\ panel.contrast \in {"low", "high"}
     /\ {"idle", "contrast", "power"} \subseteq TimerSteps
  BY OffArmedIs, TasksApart DEF InTicks, PanelTyped, TimerSteps
<1>0. UNCHANGED pc => PcOK'
  BY DEF PcOK
<1>1. CASE DimFires
  <2>1. PcOK'
    BY <1>0, <1>1, TimerGoes DEF DimFires
  <2>2. Typed'
    BY <1>1, StatesAre DEF DimFires, Typed
  <2>3. overlapped' \in BOOLEAN
    BY <1>1 DEF DimFires, HistTyped, Waking
  <2>. QED  BY <1>1, <2>1, <2>2, <2>3 DEF DimFires, frame, FrameTyped, PanelTyped, WasTyped, HistTyped
<1>2. CASE Dims
  <2>1. PcOK' /\ PanelTyped' /\ missed' \in 0 .. MaxMissed
    BY <1>2, TimerGoes, TellsTyped DEF Dims
  <2>. QED  BY <1>2, <2>1 DEF Dims, frame, FrameTyped, Typed, WasTyped, HistTyped
<1>3. CASE OffFires
  <2>1. PcOK'
    BY <1>0, <1>3, TimerGoes DEF OffFires
  <2>2. Typed' /\ WasTyped'
    BY <1>3, StatesAre DEF OffFires, Typed, WasTyped
  <2>3. overlapped' \in BOOLEAN
    BY <1>3 DEF OffFires, HistTyped, Waking
  <2>. QED  BY <1>3, <2>1, <2>2, <2>3 DEF OffFires, frame, FrameTyped, PanelTyped, HistTyped
<1>4. CASE PowersDown
  <2>1. PcOK' /\ PanelTyped' /\ missed' \in 0 .. MaxMissed
    BY <1>4, TimerGoes, TellsTyped DEF PowersDown
  <2>2. WasTyped' /\ FrameTyped'
    BY <1>4, StatesAre DEF PowersDown, Forgets, WasTyped, FrameTyped
  <2>. QED  BY <1>4, <2>1, <2>2 DEF PowersDown, chain, Typed, HistTyped
<1>. QED  BY <1>1, <1>2, <1>3, <1>4

(* The steps of a wake.                                                    *)
LEMMA WakeTypes ==
  ASSUME TypeOK, NEW w \in Wakers,
         \/ Click \/ Progress
         \/ StopsTimers(w) \/ Brightens(w) \/ LedBack(w) \/ Lights(w) \/ Schedules(w)
  PROVE  TypeOK'
<1>. USE TypesAre
<1>. /\ Typed /\ PanelTyped /\ FrameTyped /\ WasTyped /\ HistTyped /\ PcOK /\ ledOff \in BOOLEAN
     /\ InTicks(Stopped) /\ w \in Tasks
     /\ {"idle", "stop", "schedule", "bright", "led", "light", "asleep", "act"} \subseteq WakeSteps
     /\ 0 \in Nat
  BY TasksApart DEF InTicks, WakeSteps
<1>0. ASSUME NEW v \in Wakers, WakeReads(v)
      PROVE  WasTyped' /\ overlapped' \in BOOLEAN
  BY <1>0, TasksApart DEF WakeReads, WasTyped, Typed, HistTyped
<1>1. CASE Click
  <2>1. PcOK' /\ WasTyped' /\ overlapped' \in BOOLEAN
    BY <1>0, <1>1, WakerGoes, TasksApart DEF Click
  <2>. QED  BY <1>1, <2>1 DEF Click, WakeReads, chain, frame, Typed, PanelTyped, FrameTyped, HistTyped
<1>2. CASE Progress
  <2>1. PcOK' /\ WasTyped' /\ overlapped' \in BOOLEAN
    BY <1>0, <1>2, WakerGoes, TasksApart DEF Progress
  <2>. QED  BY <1>2, <2>1 DEF Progress, WakeReads, chain, Typed, PanelTyped, FrameTyped, HistTyped
<1>3. CASE StopsTimers(w)
  <2>1. PcOK'
    BY <1>3, WakerGoes DEF StopsTimers
  <2>. QED  BY <1>3, <2>1 DEF StopsTimers, frame, Typed, PanelTyped, FrameTyped, WasTyped, HistTyped
<1>4. CASE Brightens(w)
  <2>1. PcOK'
    BY <1>4, WakerGoes DEF Brightens
  <2>. QED  BY <1>4, <2>1, StatesAre DEF Brightens, frame, hist, Typed, PanelTyped, FrameTyped, WasTyped, HistTyped
<1>5. CASE LedBack(w)
  <2>1. PcOK'
    BY <1>5, WakerGoes DEF LedBack
  <2>. QED  BY <1>5, <2>1 DEF LedBack, chain, frame, hist, Typed, PanelTyped, FrameTyped, WasTyped, HistTyped
<1>6. CASE Lights(w)
  <2>1. PcOK'
    BY <1>6, WakerGoes DEF Lights
  <2>2. PanelTyped' /\ missed' \in 0 .. MaxMissed
    BY <1>6, TellsTyped DEF Lights
  <2>. QED  BY <1>6, <2>1, <2>2 DEF Lights, chain, Typed, FrameTyped, WasTyped, HistTyped
<1>7. CASE Schedules(w)
  <2>1. PcOK'
    BY <1>7, WakerGoes DEF Schedules
  <2>2. WasTyped'
    BY <1>7, StatesAre DEF Schedules, Forgets, WasTyped
  <2>3. Schedule(dim, off, idleAfter, offAfter) /\ InTicks(dim) /\ InTicks(off)
        /\ idleAfter \in IdleTimeouts /\ offAfter \in OffTimeouts
    BY <1>7 DEF Schedules, Typed
  <2>4. InTicks(dim') /\ InTicks(off')
    BY <2>3, ScheduleIs
  <2>. QED  BY <1>7, <2>1, <2>2, <2>4 DEF Schedules, frame, hist, Typed, PanelTyped, FrameTyped, HistTyped
<1>. QED  BY <1>1, <1>2, <1>3, <1>4, <1>5, <1>6, <1>7

(* What a click does at full brightness, and the end of an update.         *)
MenuActs == OpenMenu \/ OpenInfo \/ Ignores
Sets     == SetMode \/ SetIdle \/ SetOff

LEMMA SetsActs ==
  ASSUME TypeOK, Sets
  PROVE  \E m \in Modes, i \in IdleTimeouts, o \in OffTimeouts : ActsOn(m, i, o)
  BY DEF TypeOK, Sets, SetMode, SetIdle, SetOff

LEMMA ActTypes ==
  ASSUME TypeOK, Sets \/ MenuActs \/ JobEnds
  PROVE  TypeOK'
<1>. USE TypesAre
<1>. /\ Typed /\ PanelTyped /\ FrameTyped /\ WasTyped /\ HistTyped /\ PcOK /\ ledOff \in BOOLEAN
     /\ InTicks(Stopped) /\ "button" \in Wakers /\ "idle" \in WakeSteps
  BY TasksApart DEF InTicks, WakeSteps
<1>1. CASE Sets
  <2>1. PICK m \in Modes, i \in IdleTimeouts, o \in OffTimeouts : ActsOn(m, i, o)
    BY <1>1, SetsActs
  <2>2. PcOK'
    BY <2>1, WakerGoes DEF ActsOn
  <2>3. InTicks(dim') /\ InTicks(off')
    BY <2>1, ScheduleIs DEF ActsOn, Typed
  <2>. QED  BY <2>1, <2>2, <2>3 DEF ActsOn, hist, Typed, PanelTyped, FrameTyped, WasTyped, HistTyped
<1>2. CASE MenuActs
  <2>1. PcOK'
    BY <1>2, WakerGoes DEF MenuActs, OpenMenu, OpenInfo, Ignores
  <2>2. UNCHANGED <<chain, panel, ledOff, was, hist>>
    BY <1>2 DEF MenuActs, OpenMenu, OpenInfo, Ignores
  <2>3. FrameTyped'
    BY <1>2 DEF MenuActs, OpenMenu, OpenInfo, Ignores, frame, FrameTyped, Menus
  <2>. QED  BY <2>1, <2>2, <2>3 DEF chain, hist, Typed, PanelTyped, WasTyped, HistTyped
<1>3. CASE JobEnds
  <2>1. FrameTyped'
    BY <1>3 DEF JobEnds, FrameTyped, Menus
  <2>. QED  BY <1>3, <2>1 DEF JobEnds, chain, hist, Typed, PanelTyped, WasTyped, HistTyped, PcOK
<1>. QED  BY <1>1, <1>2, <1>3

(* The steps of the display task: nothing but what is drawn.               *)
DisplayStep == \/ LoopBegins \/ Paints \/ PaintsSaver \/ SkipsSend \/ SendBegins
               \/ SendEnds \/ Clears

LEMMA DisplayOnly ==
  ASSUME TypeOK, DisplayStep
  PROVE  /\ UNCHANGED <<chain, panel, ledOff, was, hist, screen>>
         /\ PcOK' /\ pc'["timer"] = pc["timer"]
         /\ \A w \in Wakers : pc'[w] = pc[w]
<1>1. PICK l \in DisplaySteps : GoesTo("display", l)
  BY DEF DisplayStep, LoopBegins, Paints, PaintsSaver, SkipsSend, SendBegins, SendEnds, Clears,
         DisplaySteps
<1>2. UNCHANGED <<chain, panel, ledOff, was, hist, screen>>
  BY DEF DisplayStep, LoopBegins, Paints, PaintsSaver, SkipsSend, SendBegins, SendEnds, Clears,
         frame
<1>. QED  BY <1>1, <1>2, DisplayGoes, TypesAre

LEMMA DisplayTypes ==
  ASSUME TypeOK, DisplayStep
  PROVE  TypeOK'
<1>1. UNCHANGED <<chain, panel, ledOff, was, hist, screen>> /\ PcOK'
  BY DisplayOnly
<1>2. FrameTyped
  BY TypesAre
<1>3. /\ needsRedraw' \in BOOLEAN /\ dirty' \in BOOLEAN /\ needsUpdate' \in BOOLEAN
      /\ shown' \in BOOLEAN /\ buffer' \in {"frame", "saver"}
  BY <1>2 DEF DisplayStep, LoopBegins, Paints, PaintsSaver, SkipsSend, SendBegins, SendEnds,
              Clears, frame, FrameTyped
<1>4. FrameTyped'
  BY <1>1, <1>2, <1>3 DEF FrameTyped
<1>. QED  BY <1>1, <1>4, TypesAre DEF chain, hist, Typed, PanelTyped, WasTyped, HistTyped

LEMMA TickTypes ==
  ASSUME TypeOK, Tick
  PROVE  TypeOK'
<1>1. ASSUME NEW x, InTicks(x), x # 0, x # Stopped
      PROVE  InTicks(x - 1)
  <2>1. PICK t \in Ticks : x \in 0 .. t
    BY <1>1 DEF InTicks
  <2>2. t \in Nat
    BY TimeoutsAssumption DEF Ticks
  <2>3. x - 1 \in 0 .. t
    BY <1>1, <2>1, <2>2
  <2>. QED  BY <2>3 DEF InTicks
<1>2. InTicks(dim) /\ InTicks(off)
  BY TypesAre DEF Typed
<1>3. InTicks(dim') /\ InTicks(off')
  BY <1>1, <1>2 DEF Tick
<1>4. quiet' \in Nat
  BY TypesAre DEF Tick, HistTyped
<1>. QED  BY <1>3, <1>4, TypesAre
          DEF Tick, frame, Typed, PanelTyped, FrameTyped, WasTyped, HistTyped, PcOK

LEMMA InitTypes ==
  Init => TypeOK
<1>. SUFFICES ASSUME Init
              PROVE  TypeOK
  OBVIOUS
<1>1. InTicks(dim) /\ InTicks(off)
  <2>1. idleAfter \in Nat /\ offAfter \in Nat /\ idleAfter \in Ticks /\ offAfter \in Ticks
    BY TimeoutsAssumption DEF Init, Ticks
  <2>2. InTicks(idleAfter) /\ InTicks(offAfter) /\ InTicks(Stopped)
    BY <2>1 DEF InTicks
  <2>. QED  BY <2>2 DEF Init
<1>2. Typed /\ WasTyped
  BY <1>1, StatesAre DEF Init, Typed, WasTyped
<1>3. PanelTyped /\ FrameTyped
  BY DEF Init, PanelTyped, FrameTyped, Menus
<1>4. HistTyped
  <2>1. quiet = 0 /\ overlapped = FALSE /\ missed = 0
    BY DEF Init
  <2>2. missed \in 0 .. MaxMissed
    BY <2>1, MissedAssumption
  <2>. QED  BY <2>1, <2>2 DEF HistTyped
<1>5. PcOK
  BY TasksApart DEF Init, PcOK, TimerSteps, WakeSteps, DisplaySteps
<1>. QED  BY <1>2, <1>3, <1>4, <1>5, TypesAre DEF Init

WakeStep(w) == \/ StopsTimers(w) \/ Brightens(w) \/ LedBack(w) \/ Lights(w) \/ Schedules(w)
TimerStep   == DimFires \/ Dims \/ OffFires \/ PowersDown

LEMMA NextIs ==
  ASSUME Next
  PROVE  \/ Tick \/ TimerStep \/ Click \/ Progress \/ (\E w \in Wakers : WakeStep(w))
         \/ Sets \/ MenuActs \/ JobEnds \/ DisplayStep
<1>. USE DEF Next, TimerStep, WakeStep, Sets, MenuActs, DisplayStep
<1>1. CASE \E w \in Wakers : WakeStep(w)
  BY <1>1
<1>. QED  BY <1>1

LEMMA StepTypes ==
  ASSUME TypeOK, [Next]_vars
  PROVE  TypeOK'
<1>1. CASE UNCHANGED vars
  BY <1>1, TypesAre DEF vars, chain, frame, hist, Typed, PanelTyped, FrameTyped, WasTyped, HistTyped, PcOK
<1>2. CASE Click \/ Progress
  BY <1>2, WakeTypes, TasksApart
<1>3. CASE \E w \in Wakers : WakeStep(w)
  BY <1>3, WakeTypes DEF WakeStep
<1>4. CASE TimerStep
  BY <1>4, TimerTypes DEF TimerStep
<1>. QED  BY <1>1, <1>2, <1>3, <1>4, NextIs, TickTypes, ActTypes, DisplayTypes

-----------------------------------------------------------------------------
(* What a step of each kind leaves alone. *)

LEMMA TimerOnly ==
  ASSUME TypeOK, TimerStep
  PROVE  /\ \A w \in Wakers : pc'[w] = pc[w] /\ was'[w] = was[w]
         /\ pc'["display"] = pc["display"]
         /\ UNCHANGED <<mode, idleAfter, offAfter, screen, dirty, buffer, quiet>>
<1>1. PcOK /\ WasTyped /\ {"idle", "contrast", "power"} \subseteq TimerSteps
  BY TypesAre DEF TimerSteps
<1>2. pc' = pc \/ \E l \in TimerSteps : GoesTo("timer", l)
  BY <1>1 DEF TimerStep, DimFires, Dims, OffFires, PowersDown
<1>3. \A w \in Wakers : pc'[w] = pc[w]
  BY <1>1, <1>2, TimerGoes
<1>4. pc'["display"] = pc["display"]
  BY <1>1, <1>2, TimerGoes
<1>5. was' = was \/ \E s \in States : was' = [was EXCEPT !["timer"] = s]
  BY TypesAre, StatesAre DEF TimerStep, DimFires, Dims, OffFires, PowersDown, Forgets, Typed
<1>6. \A w \in Wakers : was'[w] = was[w]
  BY <1>1, <1>5, TasksApart DEF WasTyped
<1>. QED  BY <1>3, <1>4, <1>6 DEF TimerStep, DimFires, Dims, OffFires, PowersDown, frame, chain

LEMMA WakerOnly ==
  ASSUME TypeOK, NEW w \in Wakers, WakeStep(w)
  PROVE  /\ \A v \in Wakers \ {w} : pc'[v] = pc[v] /\ was'[v] = was[v]
         /\ pc'["timer"] = pc["timer"] /\ pc'["display"] = pc["display"]
         /\ was'["timer"] = was["timer"]
         /\ ~Schedules(w) => was' = was
         /\ UNCHANGED <<mode, idleAfter, offAfter, screen, dirty, buffer, overlapped>>
<1>1. PcOK /\ WasTyped
  BY TypesAre
<1>2. PICK l \in WakeSteps : GoesTo(w, l)
  BY DEF WakeStep, StopsTimers, Brightens, LedBack, Lights, Schedules, WakeSteps
<1>3. /\ \A v \in Wakers \ {w} : pc'[v] = pc[v]
      /\ pc'["timer"] = pc["timer"] /\ pc'["display"] = pc["display"]
  BY <1>1, <1>2, WakerGoes
<1>4. ~Schedules(w) => was' = was
  BY DEF WakeStep, StopsTimers, Brightens, LedBack, Lights
<1>5. was' = was \/ was' = [was EXCEPT ![w] = "full"]
  BY <1>4 DEF Schedules, Forgets
<1>6. /\ \A v \in Wakers \ {w} : was'[v] = was[v]
      /\ was'["timer"] = was["timer"]
  BY <1>1, <1>5, TasksApart DEF WasTyped
<1>. QED  BY <1>3, <1>4, <1>6
          DEF WakeStep, StopsTimers, Brightens, LedBack, Lights, Schedules, chain, frame, hist

(* The beginning of a wake.                                                *)
Begins(w) == pc[w] = "idle" /\ WakeReads(w) /\ GoesTo(w, "stop")

LEMMA BeginsIs ==
  ASSUME TypeOK, Click \/ Progress
  PROVE  /\ UNCHANGED <<chain, needsRedraw, panel, ledOff, missed>>
         /\ \/ Begins("button") /\ UNCHANGED <<screen, dirty, buffer>>
            \/ Begins("job") /\ screen' = "update" /\ buffer' = "frame"
  BY DEF Click, Progress, Begins, frame

LEMMA BeginsOnly ==
  ASSUME TypeOK, NEW w \in Wakers, Begins(w)
  PROVE  /\ pc'[w] = "stop" /\ was'[w] = state
         /\ \A v \in Wakers \ {w} : pc'[v] = pc[v] /\ was'[v] = was[v]
         /\ pc'["timer"] = pc["timer"] /\ pc'["display"] = pc["display"]
         /\ was'["timer"] = was["timer"]
         /\ quiet' = quiet /\ overlapped' = (overlapped \/ Timer # "idle")
<1>1. PcOK /\ WasTyped /\ "stop" \in WakeSteps
  BY TypesAre DEF WakeSteps
<1>2. /\ pc'[w] = "stop" /\ \A v \in Wakers \ {w} : pc'[v] = pc[v]
      /\ pc'["timer"] = pc["timer"] /\ pc'["display"] = pc["display"]
  BY <1>1, WakerGoes DEF Begins
<1>3. was' = [was EXCEPT ![w] = state]
  BY DEF Begins, WakeReads
<1>4. /\ was'[w] = state
      /\ \A v \in Wakers \ {w} : was'[v] = was[v]
      /\ was'["timer"] = was["timer"]
  BY <1>1, <1>3, TasksApart DEF WasTyped
<1>. QED  BY <1>2, <1>4 DEF Begins, WakeReads, Timer

(* The end of a click: a setting, or a menu.                               *)
LEMMA ActsOnly ==
  ASSUME TypeOK, Sets \/ MenuActs
  PROVE  /\ pc["button"] = "act" /\ pc'["button"] = "idle"
         /\ \A v \in Wakers \ {"button"} : pc'[v] = pc[v]
         /\ pc'["timer"] = pc["timer"] /\ pc'["display"] = pc["display"]
         /\ UNCHANGED <<state, panel, ledOff, was, hist, needsRedraw>>
<1>1. PcOK /\ "idle" \in WakeSteps /\ "button" \in Wakers
  BY TypesAre, TasksApart DEF WakeSteps
<1>2. GoesTo("button", "idle")
  BY DEF Sets, SetMode, SetIdle, SetOff, ActsOn, MenuActs, OpenMenu, OpenInfo, Ignores
<1>3. pc["button"] = "act" /\ UNCHANGED <<state, panel, ledOff, was, hist, needsRedraw>>
  BY DEF Sets, SetMode, SetIdle, SetOff, ActsOn, MenuActs, OpenMenu, OpenInfo, Ignores,
         chain, frame
<1>. QED  BY <1>1, <1>2, <1>3, WakerGoes

LEMMA SetsSchedule ==
  ASSUME TypeOK, Sets
  PROVE  /\ idleAfter' \in IdleTimeouts /\ offAfter' \in OffTimeouts
         /\ screen = "menu" /\ screen' = "menu" /\ dirty' = TRUE /\ buffer' = buffer
         /\ IF state = "full" THEN Schedule(Stopped, Stopped, idleAfter', offAfter')
            ELSE UNCHANGED <<dim, off>>
<1>1. PICK m \in Modes, i \in IdleTimeouts, o \in OffTimeouts : ActsOn(m, i, o)
  BY SetsActs
<1>2. idleAfter' = i /\ offAfter' = o
  BY <1>1 DEF ActsOn
<1>. QED  BY <1>1, <1>2 DEF ActsOn

LEMMA MenuActsOnly ==
  ASSUME MenuActs
  PROVE  UNCHANGED chain
  BY DEF MenuActs, OpenMenu, OpenInfo, Ignores

LEMMA InTicksStopped ==
  InTicks(Stopped)
  BY DEF InTicks

-----------------------------------------------------------------------------
(* A timer that is due fell due before the wakes under way. *)

LEMMA DueUnmoved ==
  ASSUME DueBefore, UNCHANGED <<state, dim, off>>,
         \A w \in Wakers : pc'[w] = pc[w] /\ was'[w] = was[w]
  PROVE  DueBefore'
  BY DEF DueBefore

LEMMA DueStep ==
  ASSUME TypeOK, DueBefore, [Next]_vars
  PROVE  DueBefore'
<1>1. CASE Tick
  <2>1. UNCHANGED <<state, pc, was>> /\ \A w \in Wakers : pc[w] = "idle"
    BY <1>1, TasksApart DEF Tick, AllIdle
  <2>. QED  BY <2>1 DEF DueBefore
<1>2. CASE TimerStep
  <2>1. \A w \in Wakers : pc'[w] = pc[w] /\ was'[w] = was[w]
    BY <1>2, TimerOnly
  <2>2. (dim' = 0 => dim = 0) /\ (off' = 0 => off = 0)
    BY <1>2, OffArmedIs DEF TimerStep, DimFires, Dims, OffFires, PowersDown, chain, Stopped
  <2>3. dim' = 0 => state' \in {state, "off"}
    <3>1. Stopped # 0
      BY DEF Stopped
    <3>2. CASE DimFires
      BY <3>1, <3>2 DEF DimFires
    <3>3. CASE ~DimFires
      BY <1>2, <3>3 DEF TimerStep, Dims, OffFires, PowersDown, chain
    <3>. QED  BY <3>2, <3>3
  <2>. QED  BY <2>1, <2>2, <2>3 DEF DueBefore
<1>3. ASSUME NEW w \in Wakers, Begins(w), UNCHANGED chain
      PROVE  DueBefore'
  BY <1>3, BeginsOnly DEF DueBefore, chain
<1>4. ASSUME NEW w \in Wakers, WakeStep(w)
      PROVE  DueBefore'
  <2>1. /\ \A v \in Wakers \ {w} : pc'[v] = pc[v] /\ was'[v] = was[v]
        /\ ~Schedules(w) => was' = was
    BY <1>4, WakerOnly
  <2>2. CASE StopsTimers(w)
    <3>1. dim' # 0 /\ off' # 0 /\ pc'[w] = IF was[w] = "full" THEN "schedule" ELSE "bright"
      BY <2>2, TypesAre, WakerGoes DEF StopsTimers, Stopped, WakeSteps
    <3>2. was' = was
      BY <2>2 DEF StopsTimers
    <3>. QED  BY <2>1, <3>1, <3>2 DEF DueBefore
  <2>3. CASE ~StopsTimers(w)
    <3>1. pc[w] \in Settling
      BY <1>4, <2>3 DEF WakeStep, Brightens, LedBack, Lights, Schedules, Settling
    <3>2. dim # 0 /\ off # 0
      BY <3>1 DEF DueBefore, Settling
    <3>3. dim' # 0 /\ off' # 0
      BY <1>4, <2>3, <3>2, ScheduleIs, TypesAre
         DEF WakeStep, Brightens, LedBack, Lights, Schedules, chain, Typed
    <3>4. pc'[w] # "bright"
      BY <1>4, <2>3, TypesAre, WakerGoes
         DEF WakeStep, Brightens, LedBack, Lights, Schedules, WakeSteps
    <3>. QED  BY <2>1, <3>3, <3>4 DEF DueBefore
  <2>. QED  BY <2>2, <2>3
<1>5. CASE Sets
  <2>1. /\ pc["button"] = "act" /\ pc'["button"] = "idle" /\ UNCHANGED <<state, was>>
        /\ \A v \in Wakers \ {"button"} : pc'[v] = pc[v]
    BY <1>5, ActsOnly
  <2>2. dim # 0 /\ off # 0
    BY <2>1, TasksApart DEF DueBefore
  <2>3. dim' # 0 /\ off' # 0
    BY <1>5, <2>2, SetsSchedule, ScheduleIs, InTicksStopped DEF Stopped
  <2>. QED  BY <2>1, <2>3 DEF DueBefore
<1>6. CASE MenuActs
  BY <1>6, ActsOnly, MenuActsOnly DEF DueBefore, chain
<1>7. CASE JobEnds
  BY <1>7 DEF JobEnds, DueBefore, chain
<1>8. CASE DisplayStep
  BY <1>8, DisplayOnly DEF DueBefore, chain
<1>9. CASE UNCHANGED vars
  BY <1>9 DEF vars, chain, DueBefore
<1>. QED  BY <1>1, <1>2, <1>3, <1>4, <1>5, <1>6, <1>7, <1>8, <1>9, NextIs, BeginsIs, TasksApart

-----------------------------------------------------------------------------
(* The panel follows the state. *)

LEMMA TellsIs ==
  ASSUME TypeOK, NEW on, NEW c, TellsPanel(on, c), missed' = 0
  PROVE  missed = 0 /\ ~Sending /\ panel'.on = on /\ panel'.contrast = c
<1>1. missed \in Nat
  BY TypesAre, MissedAssumption DEF HistTyped
<1>2. panel' = [on |-> on, contrast |-> c] /\ ~Sending /\ missed = 0
  BY <1>1 DEF TellsPanel
<1>. QED  BY <1>2

(* A timer fires only while no wake has begun to light the panel.          *)
LEMMA FiresUnlit ==
  ASSUME DueBefore, 0 \in {dim, off}
  PROVE  ~Lit /\ ~Settles
  BY DEF DueBefore, Lit, Settles, Lighting, Settling

LEMMA PanelUnmoved ==
  ASSUME PanelLags, UNCHANGED <<state, panel>>, missed' = missed,
         pc'["timer"] = pc["timer"], Lit' <=> Lit
  PROVE  PanelLags'
  BY DEF PanelLags, Timer

LEMMA PanelStep ==
  ASSUME TypeOK, DueBefore, PanelLags, [Next]_vars
  PROVE  PanelLags'
<1>1. CASE Tick
  BY <1>1, PanelUnmoved DEF Tick, Lit
<1>2. CASE TimerStep
  <2>0. Lit' <=> Lit
    BY <1>2, TimerOnly DEF Lit
  <2>1. CASE DimFires
    <3>1. ~Lit /\ ~Lit' /\ missed' = missed /\ panel' = panel
      BY <2>0, <2>1, FiresUnlit DEF DimFires
    <3>2. Timer = "idle"
      BY <2>1 DEF DimFires, Timer
    <3>3. \/ state' = state /\ Timer' = Timer
          \/ state = "full" /\ state' = "dimmed" /\ Timer' = "contrast"
          \/ state = "full" /\ state' = "saver" /\ Timer' = Timer
      BY <2>1, TypesAre, TimerGoes DEF DimFires, Timer, TimerSteps
    <3>. QED  BY <3>1, <3>2, <3>3 DEF PanelLags
  <2>2. CASE Dims
    <3>1. Timer = "contrast" /\ Timer' = "idle" /\ state' = state
      BY <2>2, TypesAre, TimerGoes DEF Dims, Timer, TimerSteps
    <3>2. missed' = 0 => missed = 0 /\ panel'.on = panel.on /\ panel'.contrast = "low"
      BY <2>2, TellsIs DEF Dims
    <3>. QED  BY <2>0, <3>1, <3>2 DEF PanelLags
  <2>3. CASE OffFires
    <3>1. ~Lit /\ ~Lit' /\ missed' = missed /\ panel' = panel
      BY <2>0, <2>3, FiresUnlit DEF OffFires
    <3>2. Timer = "idle" /\ state' = "off" /\ (Timer' = "power" \/ (Timer' = "idle" /\ state = "off"))
      BY <2>3, TypesAre, TimerGoes DEF OffFires, Timer, TimerSteps
    <3>. QED  BY <3>1, <3>2 DEF PanelLags
  <2>4. CASE PowersDown
    <3>1. Timer = "power" /\ Timer' = "idle" /\ state' = state
      BY <2>4, TypesAre, TimerGoes DEF PowersDown, Timer, TimerSteps, chain
    <3>2. missed' = 0 => missed = 0 /\ panel'.on = FALSE
      BY <2>4, TellsIs DEF PowersDown
    <3>. QED  BY <2>0, <3>1, <3>2 DEF PanelLags
  <2>. QED  BY <1>2, <2>1, <2>2, <2>3, <2>4 DEF TimerStep
<1>3. ASSUME NEW w \in Wakers, Begins(w), UNCHANGED <<chain, panel, missed>>
      PROVE  PanelLags'
  <2>1. Lit' <=> Lit
    BY <1>3, BeginsOnly DEF Lit, Begins, Lighting
  <2>. QED  BY <1>3, <2>1, BeginsOnly, PanelUnmoved DEF chain
<1>4. ASSUME NEW w \in Wakers, WakeStep(w)
      PROVE  PanelLags'
  <2>0. /\ \A v \in Wakers \ {w} : pc'[v] = pc[v]
        /\ pc'["timer"] = pc["timer"]
    BY <1>4, WakerOnly
  <2>1. CASE StopsTimers(w)
    <3>1. pc[w] = "stop" /\ pc'[w] \in {"schedule", "bright"}
      BY <2>1, TypesAre, WakerGoes DEF StopsTimers, WakeSteps
    <3>2. Lit' <=> Lit
      BY <2>0, <3>1 DEF Lit, Lighting
    <3>. QED  BY <2>0, <2>1, <3>2, PanelUnmoved DEF StopsTimers
  <2>2. CASE Brightens(w)
    <3>1. pc'[w] \in {"led", "light"} /\ state' = "full"
      BY <2>2, TypesAre, WakerGoes DEF Brightens, WakeSteps
    <3>. QED  BY <3>1 DEF PanelLags, Lit, Lighting
  <2>3. CASE LedBack(w)
    <3>1. pc[w] = "led" /\ pc'[w] = "asleep"
      BY <2>3, TypesAre, WakerGoes DEF LedBack, WakeSteps
    <3>2. Lit' <=> Lit
      BY <2>0, <3>1 DEF Lit, Lighting
    <3>. QED  BY <2>0, <2>3, <3>2, PanelUnmoved DEF LedBack, chain, hist
  <2>4. CASE Lights(w)
    <3>1. pc[w] \in Lighting /\ state' = state
      BY <2>4 DEF Lights, Lighting, chain
    <3>2. state = "full"
      BY <3>1 DEF PanelLags, Lit
    <3>3. CASE missed' # 0
      BY <3>1, <3>2, <3>3 DEF PanelLags
    <3>4. CASE missed' = 0
      <4>1. ~Sending /\ panel'.on = TRUE /\ panel'.contrast = "high"
        BY <2>4, <3>4, TellsIs DEF Lights
      <4>2. Timer = "idle"
        BY <2>4, <4>1, TimerFirst, TypesAre DEF Lights
      <4>. QED  BY <2>0, <3>1, <3>2, <4>1, <4>2 DEF PanelLags, Timer
    <3>. QED  BY <3>3, <3>4
  <2>5. CASE Schedules(w)
    <3>1. pc[w] = "schedule" /\ pc'[w] \in {"act", "idle"}
      BY <2>5, TypesAre, WakerGoes DEF Schedules, WakeSteps
    <3>2. Lit' <=> Lit
      BY <2>0, <3>1 DEF Lit, Lighting
    <3>. QED  BY <2>0, <2>5, <3>2, PanelUnmoved DEF Schedules, hist
  <2>. QED  BY <1>4, <2>1, <2>2, <2>3, <2>4, <2>5 DEF WakeStep
<1>5. CASE Sets \/ MenuActs
  <2>1. Lit' <=> Lit
    BY <1>5, ActsOnly DEF Lit, Lighting
  <2>. QED  BY <1>5, <2>1, ActsOnly, PanelUnmoved DEF hist
<1>6. CASE JobEnds
  BY <1>6, PanelUnmoved DEF JobEnds, Lit, chain, hist
<1>7. CASE DisplayStep
  BY <1>7, DisplayOnly, PanelUnmoved DEF Lit, chain, hist
<1>8. CASE UNCHANGED vars
  BY <1>8, PanelUnmoved DEF vars, chain, hist, Lit
<1>. QED  BY <1>1, <1>2, <1>3, <1>4, <1>5, <1>6, <1>7, <1>8, NextIs, BeginsIs, TasksApart

-----------------------------------------------------------------------------
(* The screensaver is painted over. *)

Asked == needsRedraw \/ WillRedraw

WakersKnow == \A w \in Wakers :
                state = "saver" /\ pc[w] \in {"stop", "bright"} => was[w] \in {"full", "saver"}

(* A step of any task but the display's: whoever ends the screensaver asks *)
(* for a redraw, or already has, and what is drawn is a frame or to be.    *)
LEMMA SaverKept ==
  ASSUME SaverOwed, WakersKnow', pc'["display"] = pc["display"],
         Asked => Asked',
         state = "saver" /\ state' # "saver" => Asked',
         \/ UNCHANGED <<screen, dirty, buffer>>
         \/ buffer' = "frame"
         \/ dirty' = TRUE /\ screen' # "info"
  PROVE  SaverOwed'
<1>1. Asked' <=> needsRedraw' \/ WillRedraw'
  BY DEF Asked
<1>2. Asked <=> needsRedraw \/ WillRedraw
  BY DEF Asked
<1>3. pc'["display"] = "saver" /\ state' # "saver" => Asked'
  BY <1>2 DEF SaverOwed
<1>4. buffer' = "saver" /\ state' # "saver" /\ screen' \in {"menu", "info"} =>
        Asked' \/ (screen' = "menu" /\ dirty')
  BY <1>2 DEF SaverOwed
<1>. QED  BY <1>1, <1>3, <1>4 DEF SaverOwed, WakersKnow

LEMMA SaverTimer ==
  ASSUME TypeOK, DueBefore, SaverOwed, TimerStep
  PROVE  SaverOwed'
<1>0. /\ \A w \in Wakers : pc'[w] = pc[w] /\ was'[w] = was[w]
      /\ pc'["display"] = pc["display"] /\ UNCHANGED <<screen, dirty, buffer>>
  BY TimerOnly
<1>1. CASE DimFires
  <2>1. Timer = "idle" /\ needsRedraw' = needsRedraw /\ dim = 0
    BY <1>1 DEF DimFires, Timer, frame
  <2>2. state' = state \/ (state = "full" /\ state' \in {"dimmed", "saver"})
    BY <1>1 DEF DimFires
  <2>3. state = "full" => \A w \in Wakers : pc[w] \in {"stop", "bright"} => was[w] = "full"
    BY <2>1 DEF DueBefore
  <2>4. WakersKnow'
    BY <1>0, <2>2, <2>3 DEF WakersKnow, SaverOwed
  <2>5. Asked => Asked'
    BY <1>0, <2>1 DEF Asked, WillRedraw
  <2>. QED  BY <1>0, <2>2, <2>4, <2>5, SaverKept
<1>2. CASE Dims
  <2>1. Timer = "contrast" /\ needsRedraw' = needsRedraw /\ state' = state
    BY <1>2 DEF Dims, Timer, frame
  <2>2. Asked => Asked'
    BY <1>0, <2>1 DEF Asked, WillRedraw
  <2>3. WakersKnow'
    BY <1>0, <2>1 DEF WakersKnow, SaverOwed
  <2>. QED  BY <1>0, <2>1, <2>2, <2>3, SaverKept
<1>3. CASE OffFires
  <2>1. Timer = "idle" /\ needsRedraw' = needsRedraw /\ state' = "off"
    BY <1>3 DEF OffFires, Timer, frame
  <2>2. Asked => Asked'
    BY <1>0, <2>1 DEF Asked, WillRedraw
  <2>3. WakersKnow'
    BY <2>1 DEF WakersKnow
  <2>4. ASSUME state = "saver"
        PROVE  Asked'
    <3>1. GoesTo("timer", "power") /\ was' = [was EXCEPT !["timer"] = state]
      BY <1>3, <2>4 DEF OffFires
    <3>2. Timer' = "power" /\ was'["timer"] = "saver"
      BY <2>4, <3>1, TypesAre, TimerGoes, TasksApart DEF Timer, TimerSteps, WasTyped
    <3>. QED  BY <3>2 DEF Asked, WillRedraw
  <2>. QED  BY <1>0, <2>2, <2>3, <2>4, SaverKept
<1>4. CASE PowersDown
  <2>1. needsRedraw' = (needsRedraw \/ was["timer"] = "saver") /\ state' = state
    BY <1>4 DEF PowersDown, chain
  <2>2. Asked => Asked'
    BY <1>0, <2>1 DEF Asked, WillRedraw
  <2>3. WakersKnow'
    BY <1>0, <2>1 DEF WakersKnow, SaverOwed
  <2>. QED  BY <1>0, <2>1, <2>2, <2>3, SaverKept
<1>. QED  BY <1>1, <1>2, <1>3, <1>4 DEF TimerStep

LEMMA SaverBegins ==
  ASSUME TypeOK, SaverOwed, Click \/ Progress
  PROVE  SaverOwed'
<1>1. PICK w \in Wakers : Begins(w) /\ (UNCHANGED <<screen, dirty, buffer>> \/ buffer' = "frame")
  BY BeginsIs, TasksApart
<1>2. needsRedraw' = needsRedraw /\ state' = state
  BY BeginsIs DEF chain
<1>3. /\ pc'[w] = "stop" /\ was'[w] = state /\ pc[w] = "idle"
      /\ \A v \in Wakers \ {w} : pc'[v] = pc[v] /\ was'[v] = was[v]
      /\ pc'["timer"] = pc["timer"] /\ pc'["display"] = pc["display"]
      /\ was'["timer"] = was["timer"]
  BY <1>1, BeginsOnly DEF Begins
<1>4. Asked => Asked'
  BY <1>2, <1>3 DEF Asked, WillRedraw, Timer, Lighting
<1>5. WakersKnow'
  BY <1>2, <1>3 DEF WakersKnow, SaverOwed
<1>. QED  BY <1>1, <1>2, <1>3, <1>4, <1>5, SaverKept

LEMMA SaverWake ==
  ASSUME TypeOK, DueBefore, SaverOwed, NEW w \in Wakers, WakeStep(w)
  PROVE  SaverOwed'
<1>0. /\ \A v \in Wakers \ {w} : pc'[v] = pc[v] /\ was'[v] = was[v]
      /\ pc'["timer"] = pc["timer"] /\ pc'["display"] = pc["display"]
      /\ was'["timer"] = was["timer"]
      /\ ~Schedules(w) => was' = was
      /\ UNCHANGED <<screen, dirty, buffer>>
  BY WakerOnly
<1>1. CASE StopsTimers(w)
  <2>1. pc[w] = "stop" /\ pc'[w] = (IF was[w] = "full" THEN "schedule" ELSE "bright")
        /\ was' = was /\ UNCHANGED <<state, needsRedraw>>
    BY <1>1, TypesAre, WakerGoes DEF StopsTimers, WakeSteps, frame
  <2>2. Asked => Asked'
    BY <1>0, <2>1 DEF Asked, WillRedraw, Timer
  <2>3. WakersKnow'
    BY <1>0, <2>1 DEF WakersKnow, SaverOwed
  <2>. QED  BY <1>0, <2>1, <2>2, <2>3, SaverKept
<1>2. CASE Brightens(w)
  <2>1. pc[w] = "bright" /\ pc'[w] \in {"led", "light"} /\ state' = "full"
        /\ was' = was /\ UNCHANGED needsRedraw
    BY <1>2, TypesAre, WakerGoes DEF Brightens, WakeSteps, frame
  <2>2. Asked => Asked'
    BY <1>0, <2>1 DEF Asked, WillRedraw, Timer, Lighting
  <2>3. WakersKnow'
    BY <2>1 DEF WakersKnow
  <2>4. state = "saver" => was[w] = "saver"
    BY <2>1 DEF SaverOwed, DueBefore
  <2>5. state = "saver" => Asked'
    BY <2>1, <2>4 DEF Asked, WillRedraw, Lighting
  <2>. QED  BY <1>0, <2>2, <2>3, <2>5, SaverKept
<1>3. CASE LedBack(w)
  <2>1. pc[w] = "led" /\ pc'[w] = "asleep" /\ was' = was /\ UNCHANGED <<state, needsRedraw>>
    BY <1>3, TypesAre, WakerGoes DEF LedBack, WakeSteps, frame, chain
  <2>2. Asked => Asked'
    BY <1>0, <2>1 DEF Asked, WillRedraw, Timer, Lighting
  <2>3. WakersKnow'
    BY <1>0, <2>1 DEF WakersKnow, SaverOwed
  <2>. QED  BY <1>0, <2>1, <2>2, <2>3, SaverKept
<1>4. CASE Lights(w)
  <2>1. /\ pc'[w] = "schedule" /\ was' = was /\ state' = state
        /\ needsRedraw' = (needsRedraw \/ was[w] = "saver")
    BY <1>4, TypesAre, WakerGoes DEF Lights, WakeSteps, chain
  <2>2. Asked => Asked'
    BY <1>0, <2>1 DEF Asked, WillRedraw, Timer
  <2>3. WakersKnow'
    BY <1>0, <2>1 DEF WakersKnow, SaverOwed
  <2>. QED  BY <1>0, <2>1, <2>2, <2>3, SaverKept
<1>5. CASE Schedules(w)
  <2>1. pc[w] = "schedule" /\ pc'[w] \in {"act", "idle"} /\ UNCHANGED <<state, needsRedraw>>
    BY <1>5, TypesAre, WakerGoes DEF Schedules, WakeSteps, frame
  <2>2. Asked => Asked'
    BY <1>0, <2>1 DEF Asked, WillRedraw, Timer, Lighting
  <2>3. WakersKnow'
    BY <1>0, <2>1 DEF WakersKnow, SaverOwed
  <2>. QED  BY <1>0, <2>1, <2>2, <2>3, SaverKept
<1>. QED  BY <1>1, <1>2, <1>3, <1>4, <1>5 DEF WakeStep

(* The button's other steps and the end of an update.                      *)
LEMMA SaverActs ==
  ASSUME TypeOK, SaverOwed, Sets \/ MenuActs \/ JobEnds
  PROVE  SaverOwed'
<1>1. UNCHANGED <<state, was, needsRedraw>> /\ pc'["display"] = pc["display"]
      /\ pc'["timer"] = pc["timer"]
  BY ActsOnly DEF JobEnds, chain
<1>2. \A w \in Wakers : pc'[w] = pc[w] \/ (pc[w] = "act" /\ pc'[w] = "idle")
  BY ActsOnly, TasksApart DEF JobEnds
<1>3. Asked => Asked'
  BY <1>1, <1>2 DEF Asked, WillRedraw, Timer, Lighting
<1>4. WakersKnow'
  BY <1>1, <1>2 DEF WakersKnow, SaverOwed
<1>5. \/ UNCHANGED <<screen, dirty, buffer>>
      \/ buffer' = "frame"
      \/ dirty' = TRUE /\ screen' # "info"
  BY SetsSchedule DEF MenuActs, OpenMenu, OpenInfo, Ignores, JobEnds, frame, Menus
<1>. QED  BY <1>1, <1>3, <1>4, <1>5, SaverKept

(* The display task paints the saver only over what a wake will repaint.   *)
LEMMA SaverDisplay ==
  ASSUME TypeOK, SaverOwed, DisplayStep
  PROVE  SaverOwed'
<1>1. UNCHANGED <<state, was, screen>> /\ pc'["timer"] = pc["timer"]
      /\ \A w \in Wakers : pc'[w] = pc[w]
  BY DisplayOnly DEF chain
<1>2. WillRedraw' <=> WillRedraw
  BY <1>1 DEF WillRedraw, Timer
<1>3. WakersKnow'
  BY <1>1 DEF WakersKnow, SaverOwed
<1>4. PcOK /\ {"idle", "paint", "saver", "send", "sending", "clear"} \subseteq DisplaySteps
  BY TypesAre DEF DisplaySteps
<1>5. needsRedraw \in BOOLEAN /\ dirty \in BOOLEAN
  BY TypesAre DEF FrameTyped
<1>6. CASE LoopBegins
  <2>1. pc'["display"] = "paint"
    BY <1>4, <1>6, DisplayGoes DEF LoopBegins
  <2>2. /\ dirty' = (dirty \/ (needsRedraw /\ screen = "menu"))
        /\ needsRedraw /\ screen = "info" => buffer' = "frame"
        /\ buffer' \in {buffer, "frame"}
    BY <1>6 DEF LoopBegins
  <2>3. buffer' = "saver" /\ state' # "saver" /\ screen' \in {"menu", "info"} =>
          (screen' = "menu" /\ dirty') \/ WillRedraw'
    BY <1>1, <1>2, <2>2 DEF SaverOwed
  <2>. QED  BY <1>3, <2>1, <2>3 DEF SaverOwed, WakersKnow
<1>7. CASE Paints
  <2>1. pc'["display"] = IF state = "saver" THEN "saver" ELSE "send"
    BY <1>4, <1>7, DisplayGoes DEF Paints
  <2>2. needsRedraw' = needsRedraw /\ (UNCHANGED <<buffer, dirty>> \/ buffer' = "frame")
    BY <1>7 DEF Paints
  <2>3. buffer' = "saver" /\ state' # "saver" /\ screen' \in {"menu", "info"} =>
          needsRedraw' \/ (screen' = "menu" /\ dirty') \/ WillRedraw'
    BY <1>1, <1>2, <2>2 DEF SaverOwed
  <2>. QED  BY <1>1, <1>3, <2>1, <2>3 DEF SaverOwed, WakersKnow
<1>8. CASE PaintsSaver
  <2>1. pc["display"] = "saver" /\ pc'["display"] = "send" /\ needsRedraw' = needsRedraw
    BY <1>4, <1>8, DisplayGoes DEF PaintsSaver
  <2>2. state' # "saver" => needsRedraw' \/ WillRedraw'
    BY <1>1, <1>2, <2>1 DEF SaverOwed
  <2>. QED  BY <1>3, <2>1, <2>2 DEF SaverOwed, WakersKnow
<1>9. CASE SkipsSend \/ SendBegins \/ SendEnds \/ Clears
  <2>1. pc'["display"] \in {"idle", "sending", "clear"}
    BY <1>4, <1>9, DisplayGoes DEF SkipsSend, SendBegins, SendEnds, Clears
  <2>2. UNCHANGED <<needsRedraw, dirty, buffer>>
    BY <1>9 DEF SkipsSend, SendBegins, SendEnds, Clears, frame
  <2>3. buffer' = "saver" /\ state' # "saver" /\ screen' \in {"menu", "info"} =>
          needsRedraw' \/ (screen' = "menu" /\ dirty') \/ WillRedraw'
    BY <1>1, <1>2, <2>2 DEF SaverOwed
  <2>. QED  BY <1>3, <2>1, <2>3 DEF SaverOwed, WakersKnow
<1>. QED  BY <1>6, <1>7, <1>8, <1>9 DEF DisplayStep

LEMMA SaverStep ==
  ASSUME TypeOK, DueBefore, SaverOwed, [Next]_vars
  PROVE  SaverOwed'
<1>1. CASE Tick \/ UNCHANGED vars
  <2>1. UNCHANGED <<state, frame, pc, was>>
    BY <1>1 DEF Tick, vars, chain
  <2>. QED  BY <2>1 DEF SaverOwed, WillRedraw, frame, Timer
<1>. QED  BY <1>1, SaverTimer, SaverBegins, SaverWake, SaverActs, SaverDisplay, NextIs

-----------------------------------------------------------------------------
(* Off the overlaps the chain goes on and keeps its time. *)

(* A step that leaves the chain alone and no task goes into or out of the  *)
(* part of a wake that owes the timers.                                    *)
LEMMA ChainUnmoved ==
  ASSUME Chain, UNCHANGED <<chain, quiet, ledOff>>, pc'["timer"] = pc["timer"],
         \A w \in Wakers : \/ pc'[w] = pc[w] /\ was'[w] = was[w]
                           \/ pc[w] = "act" /\ pc'[w] = "idle"
  PROVE  Chain'
<1>1. (Settles' <=> Settles) /\ (Waking' => Waking)
  BY DEF Settles, Settling, Waking
<1>2. Alone'
  BY <1>1 DEF Chain, Alone, chain, Timer, Settling, Lighting
<1>3. OnTime' /\ (GoesOn' <=> GoesOn) /\ Led'
  BY DEF Chain, OnTime, GoesOn, Led, chain, Timer
<1>. QED  BY <1>1, <1>2, <1>3 DEF Chain, Timer

LEMMA ChainTimer ==
  ASSUME TypeOK, ~overlapped', Chain, TimerStep
  PROVE  Chain'
<1>0. /\ \A w \in Wakers : pc'[w] = pc[w] /\ was'[w] = was[w]
      /\ UNCHANGED <<idleAfter, offAfter, quiet>>
  BY TimerOnly
<1>1. ~Waking
  BY DEF TimerStep, DimFires, Dims, OffFires, PowersDown, Chain, Alone, Timer
<1>2. \A w \in Wakers : pc[w] = "idle" /\ pc'[w] = "idle"
  BY <1>0, <1>1 DEF Waking
<1>3. ~Waking' /\ ~Settles
  BY <1>2 DEF Waking, Settles, Settling
<1>4. /\ idleAfter \in Nat /\ offAfter \in Nat /\ dim \in Int /\ off \in Int
      /\ quiet \in Nat /\ Stopped = -1 /\ Never = 0
  BY SettingsTyped, TypesAre DEF HistTyped, Stopped, Never
<1>5. ASSUME Timer' = "contrast" => state' = "dimmed",
             Timer' = "power" => state' = "off"
      PROVE  Alone'
  BY <1>2, <1>3, <1>5 DEF Alone, Lighting, Settling
<1>6. CASE DimFires
  <2>1. dim = 0 /\ Timer = "idle" /\ dim' = Stopped /\ ledOff' = ledOff
    BY <1>6 DEF DimFires, Timer
  <2>2. state = "full" /\ idleAfter # Never /\ quiet = idleAfter /\ off = Stopped
    BY <1>4, <2>1 DEF Chain, OnTime
  <2>3. ~ledOff <=> TRUE
    BY <1>2, <2>1, <2>2 DEF Chain, Led
  <2>4. CASE mode = "dim"
    <3>1. Timer' = "contrast" /\ state' = "dimmed" /\ off' = Stopped
      BY <1>6, <2>2, <2>4, TypesAre, TimerGoes DEF DimFires, Timer, TimerSteps
    <3>2. OnTime'
      BY <1>0, <1>4, <2>1, <2>2, <3>1 DEF OnTime
    <3>. QED  BY <1>5, <2>1, <2>3, <3>1, <3>2 DEF Chain, Led
  <2>5. CASE mode # "dim"
    <3>1. Timer' = "idle" /\ state' = "saver" /\ off' = OffArmed
      BY <1>6, <2>1, <2>2, <2>5 DEF DimFires, Timer
    <3>2. off' = IF offAfter = Never THEN Stopped ELSE offAfter - idleAfter
      BY <2>2, <3>1, OffArmedIs
    <3>3. offAfter # Never => off' # Stopped
      BY <3>1, OffArmedIs
    <3>4. OnTime'
      BY <1>0, <1>4, <2>1, <2>2, <3>1, <3>2 DEF OnTime
    <3>5. GoesOn'
      BY <1>0, <3>3 DEF GoesOn
    <3>. QED  BY <1>5, <2>1, <2>3, <3>1, <3>4, <3>5 DEF Chain, Led
  <2>. QED  BY <2>4, <2>5
<1>7. CASE Dims
  <2>1. Timer = "contrast" /\ Timer' = "idle" /\ off' = OffArmed
        /\ UNCHANGED <<state, dim, ledOff>>
    BY <1>7, TypesAre, TimerGoes DEF Dims, Timer, TimerSteps
  <2>2. state = "dimmed" /\ quiet = idleAfter /\ off = Stopped /\ dim = Stopped
    BY <2>1 DEF Chain, Alone, OnTime
  <2>3. off' = IF offAfter = Never THEN Stopped ELSE offAfter - idleAfter
    BY <2>1, <2>2, OffArmedIs
  <2>4. offAfter # Never => off' # Stopped
    BY <2>1, OffArmedIs
  <2>5. OnTime'
    BY <1>0, <1>4, <2>1, <2>2, <2>3 DEF OnTime
  <2>6. GoesOn'
    BY <1>0, <2>4 DEF GoesOn
  <2>7. Led'
    BY <1>2, <2>1 DEF Chain, Led
  <2>. QED  BY <1>5, <2>1, <2>5, <2>6, <2>7 DEF Chain
<1>8. CASE OffFires
  <2>1. off = 0 /\ off' = Stopped /\ dim' = dim
    BY <1>8 DEF OffFires
  <2>2. state # "off" /\ dim = Stopped
    BY <1>4, <2>1 DEF Chain, OnTime
  <2>3. Timer' = "power" /\ state' = "off"
    BY <1>8, <2>2, TypesAre, TimerGoes DEF OffFires, Timer, TimerSteps
  <2>4. OnTime' /\ GoesOn' /\ Led'
    BY <2>1, <2>2, <2>3 DEF OnTime, GoesOn, Led
  <2>. QED  BY <1>5, <2>3, <2>4 DEF Chain
<1>9. CASE PowersDown
  <2>1. Timer = "power" /\ Timer' = "idle" /\ ledOff' = TRUE /\ UNCHANGED <<state, dim, off>>
    BY <1>9, TypesAre, TimerGoes DEF PowersDown, Timer, TimerSteps, chain
  <2>2. state = "off"
    BY <2>1 DEF Chain, Alone
  <2>3. OnTime'
    BY <1>0, <2>1, <2>2 DEF Chain, OnTime
  <2>4. GoesOn' /\ Led'
    BY <2>1, <2>2 DEF GoesOn, Led
  <2>. QED  BY <1>5, <2>1, <2>3, <2>4 DEF Chain
<1>. QED  BY <1>6, <1>7, <1>8, <1>9 DEF TimerStep

LEMMA ChainTick ==
  ASSUME TypeOK, Chain, Tick
  PROVE  Chain'
<1>1. /\ Timer = "idle" /\ \A w \in Wakers : pc[w] = "idle"
      /\ UNCHANGED <<state, idleAfter, offAfter, ledOff, pc>>
  BY TasksApart DEF Tick, AllIdle, Timer
<1>2. /\ dim' = (IF dim = Stopped THEN dim ELSE dim - 1) /\ dim # 0
      /\ off' = (IF off = Stopped THEN off ELSE off - 1) /\ off # 0
      /\ quiet' = quiet + 1
  BY DEF Tick
<1>3. /\ idleAfter \in Nat /\ offAfter \in Nat /\ dim \in Int /\ off \in Int
      /\ quiet \in Nat /\ Stopped = -1
  BY SettingsTyped, TypesAre DEF HistTyped, Stopped
<1>4. (dim' = Stopped <=> dim = Stopped) /\ (off' = Stopped <=> off = Stopped)
  BY <1>2, <1>3
<1>5. /\ off # Stopped => off' + quiet' = off + quiet
      /\ dim # Stopped => dim' + quiet' = dim + quiet
  BY <1>2, <1>3
<1>6. OnTime'
  BY <1>1, <1>4, <1>5 DEF Chain, OnTime, Timer
<1>7. ~Settles /\ ~Waking'
  BY <1>1 DEF Settles, Settling, Waking
<1>8. Alone'
  BY <1>1, <1>7 DEF Alone, Timer, Settling, Lighting
<1>9. GoesOn' /\ Led'
  BY <1>1, <1>4, <1>7 DEF Chain, GoesOn, Led, Timer
<1>. QED  BY <1>6, <1>8, <1>9 DEF Chain

LEMMA ChainBegins ==
  ASSUME TypeOK, ~overlapped', Chain, NEW w \in Wakers, Begins(w), UNCHANGED <<chain, ledOff>>
  PROVE  Chain'
<1>1. /\ pc[w] = "idle" /\ pc'[w] = "stop" /\ was'[w] = state
      /\ \A v \in Wakers \ {w} : pc'[v] = pc[v] /\ was'[v] = was[v]
      /\ pc'["timer"] = pc["timer"] /\ quiet' = quiet /\ Timer = "idle"
  BY BeginsOnly DEF Begins
<1>2. Settles' <=> Settles
  BY <1>1 DEF Settles, Settling
<1>3. Alone'
  BY <1>1 DEF Chain, Alone, chain, Timer, Settling, Lighting
<1>4. OnTime' /\ (GoesOn' <=> GoesOn) /\ Led'
  BY <1>1 DEF Chain, OnTime, GoesOn, Led, chain, Timer
<1>. QED  BY <1>1, <1>2, <1>3, <1>4 DEF Chain, Timer

(* Armed from full brightness, by a wake or by a setting.                  *)
LEMMA ChainArmed ==
  ASSUME TypeOK, TypeOK', NEW d, NEW o, InTicks(d), InTicks(o), quiet' = 0,
         state' = "full", Timer' = "idle",
         Schedule(d, o, idleAfter', offAfter'),
         d # Stopped => idleAfter' # Never /\ d = idleAfter',
         o # Stopped => idleAfter' = Never /\ o = offAfter'
  PROVE  OnTime' /\ GoesOn'
<1>1. idleAfter' \in IdleTimeouts /\ offAfter' \in OffTimeouts
  BY DEF TypeOK
<1>2. /\ dim' = IF idleAfter' # Never /\ d = Stopped THEN idleAfter' ELSE d
      /\ off' = IF idleAfter' = Never /\ offAfter' # Never /\ o = Stopped THEN offAfter' ELSE o
  BY <1>1, ScheduleIs
<1>3. idleAfter' \in Nat /\ offAfter' \in Nat
  BY <1>1, TimeoutsAssumption
<1>4. /\ dim' # Stopped => idleAfter' # Never /\ dim' = idleAfter'
      /\ off' # Stopped => idleAfter' = Never /\ off' = offAfter'
  BY <1>2
<1>5. OnTime'
  BY <1>3, <1>4 DEF OnTime
<1>6. idleAfter' # Stopped /\ offAfter' # Stopped
  BY <1>3 DEF Stopped
<1>7. GoesOn'
  BY <1>2, <1>6 DEF GoesOn
<1>. QED  BY <1>5, <1>7

LEMMA ChainWake ==
  ASSUME TypeOK, TypeOK', Chain, NEW w \in Wakers, WakeStep(w)
  PROVE  Chain'
<1>0. /\ \A v \in Wakers \ {w} : pc'[v] = pc[v] /\ was'[v] = was[v]
      /\ pc'["timer"] = pc["timer"]
      /\ ~Schedules(w) => was' = was
      /\ UNCHANGED <<idleAfter, offAfter>>
  BY WakerOnly
<1>1. Waking
  BY DEF WakeStep, StopsTimers, Brightens, LedBack, Lights, Schedules, Waking
<1>2. Timer = "idle" /\ Timer' = "idle"
  BY <1>0, <1>1 DEF Chain, Alone, Timer
<1>3. quiet \in Nat
  BY TypesAre DEF HistTyped
<1>4. CASE StopsTimers(w)
  <2>1. /\ pc[w] = "stop" /\ pc'[w] = (IF was[w] = "full" THEN "schedule" ELSE "bright")
        /\ was' = was /\ UNCHANGED <<state, ledOff>>
        /\ dim' = Stopped /\ off' = Stopped /\ quiet' = 0
    BY <1>4, TypesAre, WakerGoes DEF StopsTimers, WakeSteps
  <2>2. Settles'
    BY <2>1 DEF Settles, Settling
  <2>3. Alone'
    BY <1>0, <1>2, <2>1 DEF Chain, Alone, Settling, Lighting
  <2>4. OnTime'
    BY <1>2, <2>1 DEF OnTime
  <2>5. Led'
    BY <1>0, <1>2, <2>1 DEF Chain, Led
  <2>. QED  BY <2>2, <2>3, <2>4, <2>5 DEF Chain
<1>5. CASE Brightens(w)
  <2>1. /\ pc[w] = "bright" /\ pc'[w] = (IF was[w] = "off" THEN "led" ELSE "light")
        /\ was' = was /\ state' = "full" /\ UNCHANGED <<ledOff, dim, off, quiet>>
    BY <1>5, TypesAre, WakerGoes DEF Brightens, WakeSteps, hist
  <2>2. Settles'
    BY <2>1 DEF Settles, Settling
  <2>3. quiet = 0 /\ (state # "full" => dim = Stopped /\ off = Stopped)
    BY <2>1 DEF Chain, Alone, Settling
  <2>4. Alone'
    BY <1>0, <1>2, <2>1, <2>3 DEF Chain, Alone, Settling, Lighting
  <2>5. OnTime'
    BY <1>0, <1>2, <2>1, <2>3 DEF Chain, OnTime
  <2>6. Led'
    <3>1. SUFFICES ASSUME \A v \in Wakers : pc'[v] # "led"
                   PROVE  ~ledOff
      BY <2>1 DEF Led
    <3>2. was[w] # "off"
      BY <2>1, <3>1
    <3>3. state # "off"
      BY <2>1, <3>2 DEF Chain, Alone
    <3>4. \A v \in Wakers : pc[v] # "led"
      BY <1>0, <2>1, <3>1
    <3>. QED  BY <1>2, <3>3, <3>4 DEF Chain, Led
  <2>. QED  BY <2>2, <2>4, <2>5, <2>6 DEF Chain
<1>6. CASE LedBack(w)
  <2>1. /\ pc[w] = "led" /\ pc'[w] = "asleep" /\ was' = was
        /\ ledOff' = FALSE /\ UNCHANGED <<chain, quiet>>
    BY <1>6, TypesAre, WakerGoes DEF LedBack, WakeSteps, hist
  <2>2. Settles'
    BY <2>1 DEF Settles, Settling
  <2>3. state = "full"
    BY <2>1 DEF Chain, Alone, Lighting
  <2>4. Alone'
    BY <1>0, <1>2, <2>1 DEF Chain, Alone, Settling, Lighting, chain
  <2>5. OnTime'
    BY <1>0, <1>2, <2>1 DEF Chain, OnTime, chain
  <2>6. Led'
    BY <2>1, <2>3 DEF Led, chain
  <2>. QED  BY <2>2, <2>4, <2>5, <2>6 DEF Chain
<1>7. CASE Lights(w)
  <2>1. /\ pc[w] \in Lighting \ {"led"} /\ pc'[w] = "schedule" /\ was' = was
        /\ UNCHANGED <<chain, quiet, ledOff>>
    BY <1>7, TypesAre, WakerGoes DEF Lights, WakeSteps, Lighting
  <2>2. Settles'
    BY <2>1 DEF Settles, Settling
  <2>3. Alone'
    BY <1>0, <1>2, <2>1 DEF Chain, Alone, Settling, Lighting, chain
  <2>4. OnTime'
    BY <1>0, <1>2, <2>1 DEF Chain, OnTime, chain
  <2>5. Led'
    BY <1>0, <1>2, <2>1 DEF Chain, Led, chain, Lighting
  <2>. QED  BY <2>2, <2>3, <2>4, <2>5 DEF Chain
<1>8. CASE Schedules(w)
  <2>1. /\ pc[w] = "schedule" /\ pc'[w] \in {"act", "idle"}
        /\ UNCHANGED <<state, ledOff, quiet>>
        /\ Schedule(dim, off, idleAfter', offAfter')
    BY <1>0, <1>8, TypesAre, WakerGoes DEF Schedules, WakeSteps, hist
  <2>2. state = "full" /\ quiet = 0
    BY <2>1 DEF Chain, Alone, Settling
  <2>3. InTicks(dim) /\ InTicks(off) /\ dim \in Int /\ off \in Int
    BY TypesAre, SettingsTyped DEF Typed
  <2>4. /\ dim # Stopped => idleAfter # Never /\ dim = idleAfter
        /\ off # Stopped => idleAfter = Never /\ off = offAfter
    BY <2>2, <2>3 DEF Chain, OnTime
  <2>5. OnTime' /\ GoesOn'
    BY <1>0, <1>2, <2>1, <2>2, <2>3, <2>4, ChainArmed
  <2>6. Alone'
    BY <1>0, <1>2, <2>1, <2>2 DEF Chain, Alone, Settling, Lighting
  <2>7. Led'
    BY <1>0, <1>2, <2>1 DEF Chain, Led
  <2>. QED  BY <2>5, <2>6, <2>7 DEF Chain
<1>. QED  BY <1>4, <1>5, <1>6, <1>7, <1>8 DEF WakeStep

LEMMA ChainSets ==
  ASSUME TypeOK, TypeOK', Chain, Sets
  PROVE  Chain'
<1>1. /\ pc["button"] = "act" /\ pc'["button"] = "idle" /\ "button" \in Wakers
      /\ \A v \in Wakers \ {"button"} : pc'[v] = pc[v]
      /\ pc'["timer"] = pc["timer"]
      /\ UNCHANGED <<state, ledOff, was, quiet>>
  BY ActsOnly, TasksApart DEF hist
<1>2. Timer = "idle" /\ Timer' = "idle"
  BY <1>1 DEF Chain, Alone, Timer, Waking
<1>3. state = "full" /\ quiet = 0
  BY <1>1 DEF Chain, Alone, Settling
<1>4. OnTime' /\ GoesOn'
  BY <1>1, <1>2, <1>3, SetsSchedule, InTicksStopped, ChainArmed
<1>5. Alone'
  BY <1>1, <1>2, <1>3 DEF Chain, Alone, Settling, Lighting
<1>6. Led'
  BY <1>1, <1>2 DEF Chain, Led
<1>. QED  BY <1>4, <1>5, <1>6 DEF Chain

(* Once a callback and a wake have overlapped, they have.                  *)
LEMMA OverlapStays ==
  ASSUME TypeOK, [Next]_vars, ~overlapped'
  PROVE  ~overlapped
<1>1. CASE TimerStep
  BY <1>1 DEF TimerStep, DimFires, Dims, OffFires, PowersDown
<1>2. CASE \E w \in Wakers : WakeStep(w)
  BY <1>2, WakerOnly
<1>3. CASE Click \/ Progress
  BY <1>3, BeginsIs, BeginsOnly, TasksApart
<1>4. CASE Sets \/ MenuActs
  BY <1>4, ActsOnly DEF hist
<1>5. CASE DisplayStep
  BY <1>5, DisplayOnly DEF hist
<1>6. CASE Tick \/ JobEnds \/ UNCHANGED vars
  BY <1>6 DEF Tick, JobEnds, vars, hist
<1>. QED  BY <1>1, <1>2, <1>3, <1>4, <1>5, <1>6, NextIs

LEMMA ChainStep ==
  ASSUME TypeOK, TypeOK', Chain, [Next]_vars, ~overlapped'
  PROVE  Chain'
<1>1. CASE Click \/ Progress
  BY <1>1, BeginsIs, ChainBegins, TasksApart
<1>2. CASE MenuActs
  BY <1>2, MenuActsOnly, ActsOnly, ChainUnmoved, TasksApart DEF hist
<1>3. CASE JobEnds \/ UNCHANGED vars
  BY <1>3, ChainUnmoved DEF JobEnds, vars, hist
<1>4. CASE DisplayStep
  BY <1>4, DisplayOnly, ChainUnmoved DEF hist
<1>. QED  BY <1>1, <1>2, <1>3, <1>4, NextIs, ChainTimer, ChainTick, ChainWake, ChainSets

-----------------------------------------------------------------------------
(* The invariant and what follows from it. *)

LEMMA InitHolds ==
  Init => Inv
<1>. SUFFICES ASSUME Init
              PROVE  Inv
  OBVIOUS
<1>1. TypeOK
  BY InitTypes
<1>2. Timer = "idle" /\ pc["display"] = "idle" /\ \A w \in Wakers : pc[w] = "idle"
  BY TasksApart DEF Init, Timer
<1>3. ~Waking /\ ~Settles /\ ~Lit
  BY <1>2 DEF Waking, Settles, Settling, Lit, Lighting
<1>4. state = "full" /\ panel.on = TRUE /\ panel.contrast = "high" /\ quiet = 0
      /\ buffer = "frame" /\ ledOff = FALSE
  BY DEF Init
<1>5. DueBefore
  BY <1>2 DEF DueBefore
<1>6. PanelLags
  BY <1>2, <1>3, <1>4 DEF PanelLags
<1>7. SaverOwed
  BY <1>2, <1>4 DEF SaverOwed
<1>8. Alone
  BY <1>2, <1>3 DEF Alone, Settling, Lighting
<1>9. idleAfter \in Nat /\ offAfter \in Nat /\ Stopped = -1
  BY <1>1, SettingsTyped DEF Stopped
<1>10. /\ dim = (IF idleAfter = Never THEN Stopped ELSE idleAfter)
       /\ off = (IF idleAfter = Never /\ offAfter # Never THEN offAfter ELSE Stopped)
  BY DEF Init
<1>11. OnTime
  BY <1>2, <1>4, <1>9, <1>10 DEF OnTime
<1>12. GoesOn /\ Led
  BY <1>4, <1>9, <1>10 DEF GoesOn, Led
<1>. QED  BY <1>1, <1>5, <1>6, <1>7, <1>8, <1>11, <1>12 DEF Inv, Chain

LEMMA StepHolds ==
  Inv /\ [Next]_vars => Inv'
<1>. SUFFICES ASSUME Inv, [Next]_vars
              PROVE  Inv'
  OBVIOUS
<1>1. TypeOK' /\ DueBefore' /\ PanelLags' /\ SaverOwed'
  BY StepTypes, DueStep, PanelStep, SaverStep DEF Inv
<1>2. ~overlapped' => Chain'
  BY <1>1, OverlapStays, ChainStep DEF Inv
<1>. QED  BY <1>1, <1>2 DEF Inv

LEMMA IdleIs ==
  ASSUME AllIdle
  PROVE  Timer = "idle" /\ ~Lit /\ ~Settles /\ ~WillRedraw
         /\ \A w \in Wakers : pc[w] = "idle"
<1>1. Timer = "idle" /\ \A w \in Wakers : pc[w] = "idle"
  BY TasksApart DEF AllIdle, Timer
<1>. QED  BY <1>1 DEF Lit, Lighting, Settles, Settling, WillRedraw

(* The variables keep their types: above all, no timer is ever armed       *)
(* beyond the longest timeout, so off_timeout_ms - idle_timeout_ms does    *)
(* not wrap, whatever the settings are changed to and when.                *)
THEOREM Types == Spec => []TypeOK
<1>1. Inv => TypeOK
  BY DEF Inv
<1>. QED  BY <1>1, InitHolds, StepHolds, PTL DEF Spec

(* However enter_dimmed, enter_off and display_manager_wake interleave,    *)
(* the panel's power and contrast are the state's once all are done.       *)
THEOREM PanelFollows == Spec => []PanelFollowsState
<1>1. Inv => PanelFollowsState
  BY IdleIs DEF Inv, PanelLags, PanelFollowsState
<1>. QED  BY <1>1, InitHolds, StepHolds, PTL DEF Spec

(* A screensaver that is over is painted over.                             *)
THEOREM SaverIsErased == Spec => []SaverErased
<1>1. Inv => SaverErased
  <2>. SUFFICES ASSUME Inv, NEW s \in {"menu", "info"}, SaverLeft(s)
                PROVE  needsRedraw \/ (s = "menu" /\ dirty)
    BY DEF SaverErased
  <2>. QED  BY IdleIs DEF Inv, SaverOwed, SaverLeft
<1>. QED  BY <1>1, InitHolds, StepHolds, PTL DEF Spec

(* Off the overlaps the display is on its way to off, and the LED's copy   *)
(* of the off state is right.                                              *)
THEOREM ChainIsArmed == Spec => []ChainGoesOn
<1>1. Inv => ChainGoesOn
  BY IdleIs DEF Inv, Chain, GoesOn, Led, ChainGoesOn
<1>. QED  BY <1>1, InitHolds, StepHolds, PTL DEF Spec

(* Off the overlaps the display goes off after exactly off_timeout_ms      *)
(* without a wake.                                                         *)
THEOREM OffIsOnTime == Spec => OffOnTime
<1>1. ASSUME Inv, [Next]_vars
      PROVE  [OffFires /\ state' # state /\ ~overlapped' => quiet = offAfter]_vars
  <2>. SUFFICES ASSUME OffFires, state' # state, ~overlapped'
                PROVE  quiet = offAfter
    OBVIOUS
  <2>1. Chain /\ TypeOK
    BY <1>1, OverlapStays DEF Inv
  <2>2. off = 0 /\ off # Stopped
    BY DEF OffFires, Stopped
  <2>3. off + quiet = offAfter /\ quiet \in Nat
    BY <2>1, <2>2, TypesAre DEF Chain, OnTime, HistTyped
  <2>. QED  BY <2>2, <2>3
<1>. QED  BY <1>1, InitHolds, StepHolds, PTL DEF Spec, OffOnTime
=============================================================================
