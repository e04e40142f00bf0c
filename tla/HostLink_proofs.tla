--------------------------- MODULE HostLink_proofs ---------------------------
(***************************************************************************)
(* Proofs about HostLink, for any set of builds, any window, any limits of *)
(* the backoff and any number of faults, power flips and restarts: its     *)
(* types, the hand-over from detection to the background probe, that only  *)
(* a bus with the board on it is brought up and saved, and that probes are *)
(* made on time.                                                           *)
(***************************************************************************)
EXTENDS HostLink, TLAPS

(* Which statements of app_main belong to which build.                     *)
BootOfBuild ==
  /\ boot = "detect" => AutoBuild
  /\ boot \in {"opening", "detecting"} => ~AutoBuild

(* The background probe is armed by the end of detection only, and ended   *)
(* only by the task that runs it.                                          *)
HandOver ==
  /\ boot = "detect" => ~pending
  /\ st \in {"probing", "opening"} => pending
  /\ AutoBuild /\ boot # "detect" => pending \/ ready

(* While the background probe brings the shared handle up, the board it    *)
(* has just heard is known by its bus.                                     *)
HeardOnNext ==
  /\ power => bus \in seen
  /\ st = "opening" => next \in seen /\ (AutoBuild => next = bus)

-----------------------------------------------------------------------------
LEMMA FirstTryIsBus ==
  ASSUME NEW s \in Buses \cup {"none"}, build \in Builds
  PROVE  FirstTry(s) \in Buses
  BY BuildAssumption DEF FirstTry, Buses, AutoBuild

LEMMA BackOffTypes ==
  ASSUME backoff \in MinMs .. MaxMs, next \in Buses, BackOff
  PROVE  backoff' \in MinMs .. MaxMs /\ due' \in Int /\ next' \in Buses
  BY TimesAssumption DEF BackOff, Other, Buses

LEMMA FaultyTypes ==
  ASSUME faults \in 0 .. MaxFaults, Faulty
  PROVE  faults' \in 0 .. MaxFaults
  BY BoundAssumption DEF Faulty

LEMMA TypesInit == Init => TypeOK
<1>. SUFFICES ASSUME Init PROVE TypeOK
  OBVIOUS
<1>1. saved \in Buses \cup {"none"} /\ build \in Builds
  BY DEF Init
<1>2. current \in Buses
  BY <1>1, FirstTryIsBus DEF Init
<1>3. bus \in Buses
  BY <1>1, BuildAssumption DEF Init, AutoBuild, Buses
<1>4. backoff \in MinMs .. MaxMs
  BY TimesAssumption DEF Init
<1>5. faults \in 0 .. MaxFaults /\ flips \in 0 .. MaxFlips /\ boots \in 1 .. MaxBoots
  BY BoundAssumption DEF Init
<1>6. seen \subseteq Buses
  BY <1>1, <1>3 DEF Init
<1>7. pending \in BOOLEAN /\ ready \in BOOLEAN /\ linkUp \in BOOLEAN
      /\ blank \in BOOLEAN /\ power \in BOOLEAN
  BY DEF Init, PendingAtStart
<1>8. handle \in [st : {"none", "opening", "up"}, bus : Buses]
  BY DEF Init, NoHandle, Buses
<1>9. boot \in {"opening", "detecting", "detect", "blink", "up"} /\ st = "pass" /\ next \in Buses
      /\ elapsed \in Nat /\ due \in Int /\ ui = "calm"
  BY DEF Init, BootStart, Buses
<1>. QED
  BY <1>1, <1>2, <1>3, <1>4, <1>5, <1>6, <1>7, <1>8, <1>9 DEF TypeOK

LEMMA TypesStep == TypeOK /\ [Next]_vars => TypeOK'
<1>. SUFFICES ASSUME TypeOK, [Next]_vars PROVE TypeOK'
  OBVIOUS
<1>. USE DEF TypeOK, bootVars, probeVars, handleVars, boardVars
<1>1. CASE BootMiss
  <2>1. faults' \in 0 .. MaxFaults
    BY <1>1, FaultyTypes DEF BootMiss, ProbeMisses, NoFault
  <2>2. elapsed' \in Nat /\ current' \in Buses
    BY <1>1, TimesAssumption DEF BootMiss, Other, Buses
  <2>3. pending' \in BOOLEAN /\ boot' \in {"detect", "blink"}
    BY <1>1 DEF BootMiss
  <2>4. UNCHANGED <<st, probeVars, handle, ready, linkUp, saved, ui, blank,
                    boardVars, boots, build>>
    BY <1>1 DEF BootMiss
  <2>. QED  BY <2>1, <2>2, <2>3, <2>4
<1>2. CASE BootFound
  BY <1>2 DEF BootFound, ProbeSees, NoFault, Opened, Buses
<1>3. CASE ForcedOpen
  <2>1. faults' \in 0 .. MaxFaults
    BY <1>3, FaultyTypes DEF ForcedOpen, NoFault
  <2>2. handle' \in [st : {"none", "opening", "up"}, bus : Buses]
    BY <1>3 DEF ForcedOpen, Opened
  <2>3. linkUp' \in BOOLEAN /\ ready' \in BOOLEAN /\ boot' \in {"detecting", "up"}
    BY <1>3 DEF ForcedOpen
  <2>4. UNCHANGED <<current, elapsed, st, probeVars, pending, saved, ui, blank,
                    boardVars, boots, build>>
    BY <1>3 DEF ForcedOpen
  <2>. QED  BY <2>1, <2>2, <2>3, <2>4
<1>4. CASE ForcedPoll
  <2>1. faults' \in 0 .. MaxFaults
    BY <1>4, FaultyTypes DEF ForcedPoll, ReadSucceeds, ReadFails, NoFault
  <2>2. elapsed' \in Nat
    BY <1>4, TimesAssumption DEF ForcedPoll
  <2>. QED  BY <1>4, <2>1, <2>2 DEF ForcedPoll
<1>5. CASE BootDegraded
  BY <1>5 DEF BootDegraded
<1>6. CASE StatusPass
  <2>1. backoff' \in MinMs .. MaxMs /\ due' \in Int
    BY <1>6, TimesAssumption DEF StatusPass
  <2>2. st' \in {"probing", "arms"}
    BY <1>6 DEF StatusPass
  <2>3. UNCHANGED <<next, bootVars, handleVars, ui, blank, boardVars, faults, boots, build>>
    BY <1>6 DEF StatusPass
  <2>. QED  BY <2>1, <2>2, <2>3
<1>7. CASE StatusProbe
  <2>1. faults' \in 0 .. MaxFaults
    BY <1>7, FaultyTypes DEF StatusProbe, ProbeSees, ProbeMisses, NoFault
  <2>2. backoff' \in MinMs .. MaxMs /\ due' \in Int /\ next' \in Buses
    BY <1>7, BackOffTypes DEF StatusProbe
  <2>3. handle' \in [st : {"none", "opening", "up"}, bus : Buses]
    BY <1>7 DEF StatusProbe, Opening
  <2>. QED  BY <1>7, <2>1, <2>2, <2>3 DEF StatusProbe
<1>8. CASE StatusOpenFails
  <2>1. faults' \in 0 .. MaxFaults
    BY <1>8, FaultyTypes DEF StatusOpenFails
  <2>2. backoff' \in MinMs .. MaxMs /\ due' \in Int /\ next' \in Buses
    BY <1>8, BackOffTypes DEF StatusOpenFails
  <2>. QED  BY <1>8, <2>1, <2>2 DEF StatusOpenFails, NoHandle, Buses
<1>9. CASE StatusOpened
  <2>1. backoff' \in MinMs .. MaxMs /\ due' \in Int /\ next' \in Buses
    BY <1>9, TimesAssumption DEF StatusOpened, Other, Buses
  <2>2. handle' \in [st : {"none", "opening", "up"}, bus : Buses]
    BY <1>9 DEF StatusOpened, Opened
  <2>3. linkUp' \in BOOLEAN /\ ready' \in BOOLEAN /\ pending' \in BOOLEAN
    BY <1>9 DEF StatusOpened
  <2>4. saved' \in Buses \cup {"none"} /\ st' = "arms"
    BY <1>9 DEF StatusOpened
  <2>5. UNCHANGED <<bootVars, ui, blank, boardVars, faults, boots, build>>
    BY <1>9 DEF StatusOpened
  <2>. QED  BY <2>1, <2>2, <2>3, <2>4, <2>5
<1>10. CASE StatusArms
  <2>1. faults' \in 0 .. MaxFaults
    BY <1>10, FaultyTypes DEF StatusArms, ReadSucceeds, ReadFails, NoFault
  <2>2. due' \in Int
    BY <1>10 DEF StatusArms, Charge, IdleMs, PollMs, FloorMs
  <2>3. linkUp' \in BOOLEAN
    BY <1>10 DEF StatusArms
  <2>. QED  BY <1>10, <2>1, <2>2, <2>3 DEF StatusArms
<1>11. CASE StatusWake
  BY <1>11 DEF StatusWake
<1>12. CASE Reconnect
  BY <1>12 DEF Reconnect
<1>13. CASE Reconnected
  <2>1. faults' \in 0 .. MaxFaults
    BY <1>13, FaultyTypes DEF Reconnected, ProbeSees, ProbeMisses, NoFault
  <2>2. linkUp' \in BOOLEAN
    BY <1>13 DEF Reconnected
  <2>. QED  BY <1>13, <2>1, <2>2 DEF Reconnected
<1>14. CASE Blank
  BY <1>14 DEF Blank
<1>15. CASE BoardFlips
  <2>1. flips' \in 0 .. MaxFlips
    BY <1>15, BoundAssumption DEF BoardFlips
  <2>2. seen' \subseteq Buses /\ power' \in BOOLEAN
    BY <1>15 DEF BoardFlips
  <2>3. UNCHANGED <<bootVars, st, probeVars, handleVars, ui, blank, bus, faults, boots, build>>
    BY <1>15 DEF BoardFlips
  <2>. QED  BY <2>1, <2>2, <2>3
<1>16. CASE Restart
  <2>1. current' \in Buses
    BY <1>16, FirstTryIsBus DEF Restart
  <2>2. bus' \in Buses /\ seen' \subseteq Buses
    BY <1>16, BuildAssumption DEF Restart, AutoBuild, Buses
  <2>3. boots' \in 1 .. MaxBoots
    BY <1>16, BoundAssumption DEF Restart
  <2>4. handle' \in [st : {"none", "opening", "up"}, bus : Buses]
    BY <1>16 DEF Restart, NoHandle, Buses
  <2>5. backoff' \in MinMs .. MaxMs
    BY <1>16, TimesAssumption DEF Restart
  <2>6. boot' \in {"opening", "detecting", "detect", "blink", "up"}
        /\ pending' \in BOOLEAN /\ next' \in Buses
    BY <1>16 DEF Restart, BootStart, PendingAtStart, Buses
  <2>7. elapsed' \in Nat /\ due' \in Int /\ st' = "pass" /\ ui' = "calm"
    BY <1>16 DEF Restart
  <2>8. ready' \in BOOLEAN /\ linkUp' \in BOOLEAN /\ blank' \in BOOLEAN
    BY <1>16 DEF Restart
  <2>9. UNCHANGED <<saved, power, faults, flips, build>>
    BY <1>16 DEF Restart
  <2>. QED  BY <2>1, <2>2, <2>3, <2>4, <2>5, <2>6, <2>7, <2>8, <2>9
<1>17. CASE UNCHANGED vars
  BY <1>17 DEF vars
<1>. QED
  BY <1>1, <1>2, <1>3, <1>4, <1>5, <1>6, <1>7, <1>8, <1>9, <1>10, <1>11, <1>12,
     <1>13, <1>14, <1>15, <1>16, <1>17 DEF Next, BootStep, StatusStep, UserStep

(* The variables of the boot, of the probe and of the link keep their      *)
(* types, and probe_backoff_ms its limits, in every build, for any window  *)
(* and any limits.                                                         *)
THEOREM TypeCorrect == Spec => []TypeOK
<1>1. Init => TypeOK
  BY TypesInit
<1>2. TypeOK /\ [Next]_vars => TypeOK'
  BY TypesStep
<1>. QED  BY <1>1, <1>2, PTL DEF Spec

-----------------------------------------------------------------------------
(* The strengthening of the two invariants.                                *)
Found == BootOfBuild /\ HandOver /\ HeardOnNext /\ OnlyLiveBuses

LEMMA FoundInit == Init => Found
<1>. SUFFICES ASSUME Init PROVE Found
  OBVIOUS
<1>1. BootOfBuild
  BY DEF Init, BootOfBuild, BootStart
<1>2. HandOver
  BY DEF Init, HandOver, BootStart, PendingAtStart
<1>3. HeardOnNext
  BY DEF Init, HeardOnNext
<1>4. OnlyLiveBuses
  BY DEF Init, OnlyLiveBuses, NoHandle
<1>. QED  BY <1>1, <1>2, <1>3, <1>4 DEF Found

LEMMA FoundStep == TypeOK /\ Found /\ [Next]_vars => Found'
<1>. SUFFICES ASSUME TypeOK, Found, [Next]_vars PROVE Found'
  OBVIOUS
<1>. USE DEF Found, BootOfBuild, HandOver, HeardOnNext, OnlyLiveBuses, AutoBuild,
             bootVars, probeVars, handleVars, boardVars
<1>1. CASE BootMiss
  BY <1>1 DEF BootMiss
<1>2. CASE BootFound
  <2>1. current = bus /\ current \in seen
    BY <1>2 DEF BootFound, ProbeSees, Answers
  <2>. QED  BY <1>2, <2>1 DEF BootFound, Opened
<1>3. CASE ForcedOpen
  BY <1>3 DEF ForcedOpen
<1>4. CASE ForcedPoll
  BY <1>4 DEF ForcedPoll
<1>5. CASE BootDegraded
  BY <1>5 DEF BootDegraded
<1>6. CASE StatusPass
  BY <1>6 DEF StatusPass
<1>7. CASE StatusProbe
  <2>1. CASE ProbeSees(next)
    BY <1>7, <2>1 DEF StatusProbe, ProbeSees, ProbeMisses, Answers, Opening
  <2>2. CASE ~ProbeSees(next)
    BY <1>7, <2>2 DEF StatusProbe
  <2>. QED  BY <2>1, <2>2
<1>8. CASE StatusOpenFails
  BY <1>8 DEF StatusOpenFails, NoHandle
<1>9. CASE StatusOpened
  BY <1>9 DEF StatusOpened, Opened
<1>10. CASE StatusArms
  BY <1>10 DEF StatusArms
<1>11. CASE StatusWake
  BY <1>11 DEF StatusWake
<1>12. CASE Reconnect
  BY <1>12 DEF Reconnect
<1>13. CASE Reconnected
  BY <1>13 DEF Reconnected
<1>14. CASE Blank
  BY <1>14 DEF Blank
<1>15. CASE BoardFlips
  BY <1>15 DEF BoardFlips
<1>16. CASE Restart
  BY <1>16 DEF Restart, BootStart, PendingAtStart, NoHandle
<1>17. CASE UNCHANGED vars
  BY <1>17 DEF vars
<1>. QED
  BY <1>1, <1>2, <1>3, <1>4, <1>5, <1>6, <1>7, <1>8, <1>9, <1>10, <1>11, <1>12,
     <1>13, <1>14, <1>15, <1>16, <1>17 DEF Next, BootStep, StatusStep, UserStep

LEMMA FoundAlways == Spec => []Found
<1>1. Init => TypeOK /\ Found
  BY TypesInit, FoundInit
<1>2. TypeOK /\ Found /\ [Next]_vars => TypeOK' /\ Found'
  BY TypesStep, FoundStep
<1>. QED  BY <1>1, <1>2, PTL DEF Spec

(* establish_host_link and auto_link_probe_once never use probe_comm at    *)
(* the same time, which has no lock, and between them they leave no gap in *)
(* which nobody looks for the board.                                       *)
THEOREM OneTaskLooks == Spec => []OneLooks
<1>1. Found => OneLooks
  BY DEF Found, HandOver, OneLooks
<1>. QED  BY <1>1, FoundAlways, PTL

(* The AUTO build brings host_comm up only on the bus its board answered   *)
(* on, and persists (host_link_save_transport) only such a bus, whatever   *)
(* fails, flips or restarts in between.                                    *)
THEOREM LiveBusesOnly == Spec => []OnlyLiveBuses
<1>1. Found => OnlyLiveBuses
  BY DEF Found
<1>. QED  BY <1>1, FoundAlways, PTL

-----------------------------------------------------------------------------
(* When a pass comes to its sleep, the probe is not overdue: a pass that   *)
(* finds it due probes first, and a task that has none to make has set the *)
(* delay to 0, also if app_main arms the probe while it is at this pass.   *)
ProbedFirst == st = "arms" => due >= 0

LEMMA ProbedFirstStep == TypeOK /\ ProbedFirst /\ [Next]_vars => ProbedFirst'
<1>. SUFFICES ASSUME TypeOK, ProbedFirst, [Next]_vars PROVE ProbedFirst'
  OBVIOUS
<1>1. CASE StatusPass
  <2>1. pending /\ due <= 0 => st' # "arms"
    BY <1>1 DEF StatusPass
  <2>2. pending /\ ~(due <= 0) => due' >= 0
    BY <1>1 DEF StatusPass, TypeOK
  <2>3. ~pending => due' = 0
    BY <1>1 DEF StatusPass
  <2>. QED  BY <2>1, <2>2, <2>3 DEF ProbedFirst
<1>2. CASE StatusProbe \/ StatusOpenFails \/ StatusOpened
  <2>1. CASE BackOff
    <3>1. backoff' \in MinMs .. MaxMs /\ due' = backoff'
      BY <2>1, BackOffTypes DEF TypeOK, BackOff
    <3>. QED  BY <3>1, TimesAssumption DEF ProbedFirst
  <2>2. CASE StatusOpened
    BY <2>2, TimesAssumption DEF StatusOpened, ProbedFirst
  <2>3. CASE st' = "opening"
    BY <2>3 DEF ProbedFirst
  <2>. QED  BY <1>2, <2>1, <2>2, <2>3 DEF StatusProbe, StatusOpenFails
<1>3. CASE StatusArms \/ StatusWake \/ Restart
  BY <1>3 DEF StatusArms, StatusWake, Restart, ProbedFirst
<1>4. CASE BootStep \/ UserStep \/ BoardFlips \/ UNCHANGED vars
  <2>1. UNCHANGED <<st, due>>
    BY <1>4 DEF BootStep, BootMiss, BootFound, ForcedOpen, ForcedPoll, BootDegraded, UserStep,
       Reconnect, Reconnected, Blank, BoardFlips, vars, probeVars
  <2>. QED  BY <2>1 DEF ProbedFirst
<1>. QED  BY <1>1, <1>2, <1>3, <1>4 DEF Next, StatusStep

(* status_refresh_task, whatever else it does in a pass and however often  *)
(* the display goes off and on: it never sleeps past a background probe    *)
(* that is owed by more than its shortest sleep.                           *)
THEOREM ProbesOnTime == Spec => ProbeOnTime
<1>1. Init => TypeOK /\ ProbedFirst
  BY TypesInit DEF Init, ProbedFirst
<1>2. TypeOK /\ ProbedFirst /\ [Next]_vars => TypeOK' /\ ProbedFirst'
  BY TypesStep, ProbedFirstStep
<1>3. TypeOK /\ ProbedFirst /\ [Next]_vars
        => [st = "arms" /\ st' = "sleep" /\ pending => due' >= - FloorMs]_vars
  <2>. SUFFICES ASSUME TypeOK, ProbedFirst, Next, st = "arms", st' = "sleep", pending
                PROVE  due' >= - FloorMs
    BY DEF vars
  <2>1. StatusArms
    BY DEF Next, BootStep, BootMiss, BootFound, ForcedOpen, ForcedPoll, BootDegraded, StatusStep,
       StatusPass, StatusProbe, StatusOpenFails, StatusOpened, StatusWake, UserStep, Reconnect,
       Reconnected, Blank, BoardFlips, Restart
  <2>2. Charge /\ due >= 0 /\ due \in Int
    BY <2>1 DEF StatusArms, ProbedFirst, TypeOK
  <2>. QED  BY <2>2 DEF Charge, IdleMs, PollMs, FloorMs
<1>. QED  BY <1>1, <1>2, <1>3, PTL DEF Spec, ProbeOnTime
=============================================================================
