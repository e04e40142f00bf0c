------------------------- MODULE PanelScreens_proofs -------------------------
(***************************************************************************)
(* Proofs about PanelScreens, for any number of changes and faults of the  *)
(* board: the menu drawn is never another screen's, and a panel that       *)
(* writes its firmware keeps its progress screen.                          *)
(***************************************************************************)
EXTENDS PanelScreens, TLAPS

(* The progress screen is shown between events or before the update task;  *)
(* an update begins on the status screen of the firmware; and a status     *)
(* task that is about to move the screen has the panel on neither, unless  *)
(* it will have done so before the check of the firmware comes back.       *)
UpdateAlone ==
  /\ screen = "fw_update" => gp \in {"wait", "started"}
  /\ gp = "begin" => screen = "fw_status"
  /\ screen \in {"fw_status", "fw_update"} /\ st = "jump" => gp = "check" /\ parked

Inv == TypeOK /\ NoWrongMenu /\ UpdateAlone

-----------------------------------------------------------------------------
(* The operators on screens. *)

LEMMA HomeIsHome ==
  ASSUME NEW m \in Modes
  PROVE  HomeOf(m) \in Homes
  BY DEF HomeOf, Homes

LEMMA HomesAreScreens ==
  /\ Homes \subseteq Screens
  /\ Homes \cap {"fw_status", "fw_update"} = {}
  BY DEF Homes, Screens, MenuScreens, Pickers

LEMMA MenuIsMenu ==
  ASSUME NEW s
  PROVE  MenuOf(s) \in MenuScreens \cup {"none"}
  BY DEF MenuOf

(* No button handler leads to the firmware's screens without waiting, and  *)
(* none leads away from the progress screen.                               *)
LEMMA NextScreensTyped ==
  ASSUME NEW s \in Screens, TypeOK
  PROVE  /\ NextScreens(s) \subseteq Screens \ {"fw_status", "fw_update"}
         /\ s = "fw_update" => NextScreens(s) = {}
<1>. info \in Screens \ {"fw_status", "fw_update"}
  BY DEF TypeOK, Screens, MenuScreens
<1>. QED  BY DEF NextScreens, Screens, MenuScreens, Pickers, Homes, TypeOK

-----------------------------------------------------------------------------
LEMMA InitHolds ==
  Init => Inv
<1>. SUFFICES ASSUME Init
              PROVE  Inv
  OBVIOUS
<1>1. mode \in Modes /\ bmode \in Modes
  BY DEF Init, Modes
<1>2. screen \in Homes /\ screen \in Screens /\ menu \in MenuScreens \cup {"none"}
  BY <1>1, HomeIsHome, HomesAreScreens, MenuIsMenu DEF Init
<1>3. listOk \in BOOLEAN /\ alive \in BOOLEAN /\ linkUp \in BOOLEAN /\ off \in BOOLEAN
  BY DEF Init
<1>4. changes \in 0 .. MaxChanges /\ faults \in 0 .. MaxFaults
  BY BoundsAssumption DEF Init
<1>7. TypeOK
  BY <1>1, <1>2, <1>3, <1>4 DEF Init, TypeOK, Homes
<1>5. NoWrongMenu
  BY DEF Init, NoWrongMenu
<1>6. UpdateAlone
  BY <1>2, HomesAreScreens DEF UpdateAlone, Init
<1>. QED  BY <1>5, <1>6, <1>7 DEF Inv

-----------------------------------------------------------------------------
(* The button task. *)

Parks == parked' = (gp' # "wait" /\ Preempting)

LEMMA NavigateKeeps ==
  ASSUME Inv, NEW s \in Screens, Navigate(s), Parks
  PROVE  Inv'
<1>1. screen = s /\ gp = "wait" /\ gp' = "wait" /\ info' = info
  BY DEF Navigate, Pressed
<1>2. screen' \in Screens \ {"fw_status", "fw_update"} /\ menu' = MenuOf(screen')
  BY <1>1, NextScreensTyped DEF Inv, Navigate
<1>3. TypeOK'
  BY <1>1, <1>2, MenuIsMenu DEF Inv, TypeOK, Navigate, ButtonOnly, boardVars, Parks
<1>. QED  BY <1>1, <1>2, <1>3 DEF Inv, NoWrongMenu, UpdateAlone

LEMMA ShowInfoKeeps ==
  ASSUME Inv, NEW s \in Screens, ShowInfo(s), Parks
  PROVE  Inv'
<1>1. screen' = "info" /\ menu' = "none" /\ info' \in {"main_menu", "wifi_menu"}
  BY DEF ShowInfo, MenuOf, MenuScreens, Pickers
<1>2. TypeOK'
  BY <1>1 DEF Inv, TypeOK, ShowInfo, ButtonOnly, boardVars, Screens, Parks
<1>3. gp' # "begin"
  BY DEF ShowInfo, Pressed
<1>. QED  BY <1>1, <1>2, <1>3 DEF Inv, NoWrongMenu, UpdateAlone

(* A handler that asks the board does not end, and is not one of the       *)
(* progress screen.                                                        *)
LEMMA AskKeeps ==
  ASSUME Inv, NEW s \in Screens, Ask(s), Parks
  PROVE  Inv'
<1>1. gp' \in {"act", "read", "eject", "open", "select", "check", "info", "mainboard", "begin"}
  BY DEF Ask
<1>2. screen' \in {screen, "status", "fw_status", "info"} /\ screen' # "fw_update"
  BY DEF Ask, Pressed, uiVars
<1>3. menu' \in {menu, "none"} /\ info' \in {info, "main_menu"}
  BY DEF Ask, uiVars
<1>4. TypeOK'
  BY <1>1, <1>2, <1>3 DEF Inv, TypeOK, Ask, ButtonOnly, boardVars, Screens, Homes, Parks
<1>5. gp' = "begin" => screen' = "fw_status"
  BY DEF Ask, Pressed, uiVars
<1>6. ASSUME screen' \in {"fw_status", "fw_update"}, st' = "jump" PROVE gp' = "check" /\ parked'
  <2>1. st = "jump" /\ gp = "wait"
    BY <1>6 DEF Ask, Pressed, ButtonOnly
  <2>2. screen \notin {"fw_status", "fw_update"}
    BY <2>1 DEF Inv, UpdateAlone
  <2>3. gp' = "check"
    BY <1>6, <2>2 DEF Ask, uiVars
  <2>. QED  BY <2>1, <2>3 DEF Parks, Preempting
<1>. QED  BY <1>1, <1>2, <1>4, <1>5, <1>6 DEF Inv, NoWrongMenu, UpdateAlone

(* A handler that comes back from the board ends, setting the menu of the  *)
(* screen it leaves, or asks again.  Where it comes back, the status task  *)
(* has been through with what it was about.                                *)
Leads == {"status", "info", "main_menu", "disc_list", "settings"} \cup Homes
LEMMA HandlerKeeps ==
  ASSUME Inv, ~parked, gp # "wait", Parks,
         screen' \in Screens, info' \in {"main_menu", "wifi_menu", "disc_list"},
         screen' \in {screen} \cup Leads \/ (gp = "begin" /\ screen' = "fw_update"),
         \/ Finish(screen')
         \/ /\ menu' \in MenuScreens \cup {"none"} /\ screen' # "fw_update"
            /\ gp' \in {"read", "list", "recover", "reconnect"}
         \/ menu' = menu /\ gp' = "started",
         mode' \in Modes, listOk' \in BOOLEAN, linkUp' \in BOOLEAN,
         faults' \in 0 .. MaxFaults,
         UNCHANGED <<off, st, arm, jump, boardVars>>
  PROVE  Inv'
<1>1. menu' \in MenuScreens \cup {"none"} /\ NoWrongMenu'
  BY MenuIsMenu DEF Finish, Inv, TypeOK, NoWrongMenu
<1>2. gp' \in {"wait", "read", "list", "recover", "reconnect", "started"}
  BY DEF Finish
<1>3. screen' \in {"fw_status", "fw_update"} => st # "jump"
  <2>1. screen \in {"fw_status", "fw_update"} => st # "jump"
    BY DEF Inv, UpdateAlone
  <2>2. gp = "begin" => screen = "fw_status"
    BY DEF Inv, UpdateAlone
  <2>3. Leads \cap {"fw_status", "fw_update"} = {}
    BY HomesAreScreens DEF Leads
  <2>. QED  BY <2>1, <2>2, <2>3
<1>4. UpdateAlone'
  BY <1>2, <1>3 DEF Finish, UpdateAlone
<1>5. TypeOK'
  BY <1>1, <1>2 DEF Inv, TypeOK, boardVars, Parks
<1>. QED  BY <1>1, <1>4, <1>5 DEF Inv

LEMMA ReadsTyped ==
  ASSUME TypeOK, Reads \/ Fails
  PROVE  mode' \in Modes /\ faults' \in 0 .. MaxFaults
<1>1. mode' \in Modes
  BY DEF TypeOK, Reads, Fails
<1>2. faults \in Nat /\ MaxFaults \in Nat
  BY BoundsAssumption DEF TypeOK
<1>3. faults' \in 0 .. MaxFaults
  BY <1>2 DEF TypeOK, Reads, Fails
<1>. QED  BY <1>1, <1>3

LEMMA ReadListTyped ==
  ASSUME TypeOK, ReadList
  PROVE  mode' \in Modes /\ listOk' \in BOOLEAN
  BY DEF TypeOK, ReadList

LEMMA RefreshListTyped ==
  ASSUME TypeOK, RefreshList
  PROVE  mode' \in Modes /\ listOk' \in BOOLEAN
  BY ReadListTyped DEF TypeOK, RefreshList

LEMMA ButtonReadsKeeps ==
  ASSUME Inv, ButtonReads, Parks
  PROVE  Inv'
<1>1. TypeOK /\ gp = "read" /\ ~parked /\ screen # "fw_update"
  BY DEF Inv, ButtonReads, Back, UpdateAlone
<1>2. mode' \in Modes /\ faults' \in 0 .. MaxFaults
  BY <1>1, ReadsTyped DEF ButtonReads, TypeOK
<1>3. HomeOf(mode') \in Screens \cap Leads /\ HomeOf(mode') # "fw_update"
  BY <1>2, HomeIsHome, HomesAreScreens DEF Leads
<1>4. screen' \in Screens /\ screen' # "fw_update" /\ screen' \in {screen} \cup Leads
  BY <1>1, <1>3 DEF ButtonReads, MoveScreen, Finish, TypeOK
<1>5. \/ gp' = "list" /\ menu' \in MenuScreens \cup {"none"}
      \/ Finish(screen')
  BY <1>1, MenuIsMenu DEF ButtonReads, Finish, TypeOK
<1>6. info' = info /\ UNCHANGED <<listOk, linkUp, off, st, arm, jump, boardVars>>
  BY DEF ButtonReads
<1>. QED  BY <1>1, <1>2, <1>4, <1>5, <1>6, HandlerKeeps DEF TypeOK

(* The other ends and waits of the handlers.                               *)
Handled == \/ Acted \/ ButtonLists \/ Ejected \/ ListOpened \/ Selected \/ Recovered
           \/ Checked \/ InfoShown \/ MainboardUpdated \/ UpdateBegins \/ UpdateStarted

LEMMA HandledKeeps ==
  ASSUME Inv, Handled, Parks
  PROVE  Inv'
<1>. USE DEF Inv
<1>. Leads \cup {"fw_status", "fw_update"} \subseteq Screens /\ "fw_update" \notin Leads
  BY DEF Leads, Screens, MenuScreens, Homes
<1>. gp # "started" /\ gp # "wait" => screen # "fw_update"
  BY DEF UpdateAlone
<1>. TypeOK /\ screen \in Screens /\ menu \in MenuScreens \cup {"none"}
     /\ info \in {"main_menu", "wifi_menu", "disc_list"}
  BY DEF TypeOK
<1>0. CASE ButtonOnly /\ info' \in {info, "disc_list"} /\ ~parked /\ gp # "wait"
           /\ (screen' \in {screen} \cup Leads \/ (gp = "begin" /\ screen' = "fw_update"))
           /\ (\/ Finish(screen')
               \/ /\ menu' = menu /\ screen' # "fw_update"
                  /\ gp' \in {"read", "list", "recover", "reconnect"}
               \/ menu' = menu /\ gp' = "started")
  <2>1. screen' \in Screens /\ info' \in {"main_menu", "wifi_menu", "disc_list"}
    BY <1>0
  <2>2. UNCHANGED <<mode, listOk, linkUp, off, st, arm, jump, boardVars, faults>>
    BY <1>0 DEF ButtonOnly
  <2>. QED  BY <1>0, <2>1, <2>2, HandlerKeeps DEF TypeOK
<1>1. CASE Acted
  BY <1>0, <1>1 DEF Acted, Back, uiVars, Finish
<1>2. CASE ButtonLists
  <2>1. mode' \in Modes /\ listOk' \in BOOLEAN
    BY <1>2, RefreshListTyped DEF ButtonLists
  <2>2. Finish(screen') /\ screen' = screen /\ ~parked /\ gp # "wait" /\ info' = info
        /\ UNCHANGED <<linkUp, faults, off, st, arm, jump, boardVars>>
    BY <1>2 DEF ButtonLists, Finish, Back
  <2>. QED  BY <2>1, <2>2, HandlerKeeps DEF TypeOK
<1>3. CASE Ejected
  <2>1. screen' \in {screen, "status"} /\ screen' # "fw_update" /\ menu' = menu
        /\ gp' \in {"read", "reconnect"} /\ ~parked /\ gp # "wait"
    BY <1>3 DEF Ejected, Back
  <2>. QED  BY <1>0, <1>3, <2>1 DEF Ejected, Leads
<1>4. CASE ListOpened
  BY <1>0, <1>4 DEF ListOpened, Back, Finish, Leads
<1>5. CASE Selected
  <2>1. ~parked /\ gp = "select" /\ ButtonOnly
    BY <1>5 DEF Selected, Back
  <2>3. info' \in {info, "disc_list"}
    BY <1>5 DEF Selected, uiVars
  <2>2. /\ screen' \in {screen, "info", "status"}
        /\ \/ Finish(screen')
           \/ menu' = menu /\ screen' # "fw_update" /\ gp' \in {"read", "recover"}
    BY <1>5, <2>1 DEF Selected, Finish, uiVars
  <2>. QED  BY <1>0, <2>1, <2>2, <2>3 DEF Leads
<1>6. CASE Recovered
  <2>1. linkUp' \in BOOLEAN
    BY <1>6 DEF Recovered, TypeOK
  <2>2. Finish(screen') /\ screen' \in {screen, "main_menu"} /\ ~parked /\ gp # "wait"
    BY <1>6 DEF Recovered, Finish, Back
  <2>3. info' = info /\ UNCHANGED <<mode, listOk, faults, off, st, arm, jump, boardVars>>
    BY <1>6 DEF Recovered
  <2>4. screen' \in Screens /\ screen' \in {screen} \cup Leads
    BY <2>2 DEF Leads
  <2>. QED  BY <2>1, <2>2, <2>3, <2>4, HandlerKeeps DEF TypeOK
<1>7. CASE Checked \/ InfoShown \/ UpdateStarted
  BY <1>0, <1>7 DEF Checked, InfoShown, UpdateStarted, Back, Finish
<1>8. CASE MainboardUpdated
  BY <1>0, <1>8 DEF MainboardUpdated, Back, Finish, Leads
<1>9. CASE UpdateBegins
  BY <1>0, <1>9 DEF UpdateBegins, Back, Finish
<1>. QED  BY <1>1, <1>2, <1>3, <1>4, <1>5, <1>6, <1>7, <1>8, <1>9 DEF Handled

LEMMA UpdateFailsKeeps ==
  ASSUME Inv, UpdateFails
  PROVE  Inv'
<1>1. "main_menu" \in Screens
  BY DEF Screens, MenuScreens
<1>2. TypeOK'
  BY <1>1, MenuIsMenu DEF Inv, TypeOK, UpdateFails, ButtonOnly, boardVars
<1>. QED  BY <1>2 DEF Inv, UpdateFails, NoWrongMenu, UpdateAlone

-----------------------------------------------------------------------------
(* The status task, the display and the board. *)

StepLabels == {"pass", "read", "test", "jump", "remenu", "list", "summary", "recover",
               "relist", "sleep"}

LEMMA StatusTyped ==
  ASSUME TypeOK, StatusPolls, parked' = FALSE,
         screen' \in Screens, menu' \in MenuScreens \cup {"none"}, st' \in StepLabels,
         mode' \in Modes, listOk' \in BOOLEAN, linkUp' \in BOOLEAN,
         faults' \in 0 .. MaxFaults,
         arm' \in {"none", "initiator", "status"}, jump' \in Homes
  PROVE  TypeOK'
  BY DEF TypeOK, StatusPolls, boardVars, StepLabels

(* A step of the status task that leaves screen and menu alone and does    *)
(* not come from the menu statement.                                       *)
LEMMA StatusKeeps ==
  ASSUME Inv, StatusPolls, UNCHANGED <<screen, menu>>, parked' = FALSE,
         st # "remenu", st' \in StepLabels \ {"jump"},
         mode' \in Modes, listOk' \in BOOLEAN, linkUp' \in BOOLEAN,
         faults' \in 0 .. MaxFaults,
         arm' \in {"none", "initiator", "status"}, jump' \in Homes
  PROVE  Inv'
<1>1. TypeOK /\ screen' \in Screens /\ menu' \in MenuScreens \cup {"none"}
  BY DEF Inv, TypeOK
<1>2. TypeOK'
  BY <1>1, StatusTyped
<1>. QED  BY <1>2 DEF Inv, NoWrongMenu, UpdateAlone, StatusPolls

LEMMA StatusStepKeeps ==
  ASSUME Inv, StatusStep
  PROVE  Inv'
<1>. TypeOK /\ NoWrongMenu /\ UpdateAlone /\ parked' = FALSE
  BY DEF Inv, StatusStep
<1>. arm \in {"none", "initiator", "status"} /\ jump \in Homes /\ mode \in Modes
     /\ listOk \in BOOLEAN /\ linkUp \in BOOLEAN /\ faults \in 0 .. MaxFaults
     /\ screen \in Screens /\ menu \in MenuScreens \cup {"none"}
  BY DEF TypeOK
<1>. AfterRefresh \in {"summary", "sleep"}
  BY DEF AfterRefresh
<1>1. CASE StatusPass
  <2>1. st # "remenu" /\ st' \in {"sleep", "read", "relist"} /\ linkUp' \in BOOLEAN
        /\ arm' \in {"none", "initiator", "status"}
    BY <1>1 DEF StatusPass, Goto
  <2>. QED  BY <1>1, <2>1, StatusKeeps DEF StatusPass, StatusOnly, StepLabels
<1>2. CASE StatusReads
  <2>1. st # "remenu" /\ st' \in {"test", "list", "summary", "sleep"}
    BY <1>2 DEF StatusReads, Goto
  <2>2. mode' \in Modes /\ faults' \in 0 .. MaxFaults
    BY <1>2, ReadsTyped DEF StatusReads
  <2>. QED  BY <1>2, <2>1, <2>2, StatusKeeps DEF StatusReads, StepLabels
<1>3. CASE StatusTests
  <2>1. CASE st' = "jump"
    <3>1. screen \in Homes /\ screen \notin {"fw_status", "fw_update"} /\ jump' \in Homes
      BY <1>3, <2>1, HomeIsHome, HomesAreScreens DEF StatusTests, Goto
    <3>2. TypeOK'
      BY <1>3, <2>1, <3>1, StatusTyped DEF StatusTests, StatusOnly, StepLabels
    <3>3. NoWrongMenu' /\ UpdateAlone'
      BY <1>3, <3>1 DEF StatusTests, StatusOnly, StatusPolls, NoWrongMenu, UpdateAlone
    <3>. QED  BY <3>2, <3>3 DEF Inv
  <2>2. CASE st' # "jump"
    <3>1. st # "remenu" /\ st' = "list" /\ jump' = jump
      BY <1>3, <2>2 DEF StatusTests, Goto
    <3>. QED  BY <1>3, <3>1, StatusKeeps DEF StatusTests, StatusOnly, StepLabels
  <2>. QED  BY <2>1, <2>2
<1>4. CASE StatusJumps
  <2>1. screen' = jump /\ jump \in Screens /\ jump \notin {"fw_status", "fw_update"}
    BY <1>4, HomesAreScreens DEF StatusJumps
  <2>3. gp' = gp /\ gp # "begin" /\ st' = "remenu"
    BY <1>4 DEF StatusJumps, StatusOnly, StatusPolls, UpdateAlone, Goto
  <2>2. TypeOK'
    BY <1>4, <2>1, StatusTyped DEF StatusJumps, StatusOnly, Goto, StepLabels
  <2>. QED  BY <2>1, <2>2, <2>3 DEF Inv, NoWrongMenu, UpdateAlone
<1>5. CASE StatusSetsMenu
  <2>1. menu' \in {"none", MenuOf(screen)} /\ screen' = screen
    BY <1>5 DEF StatusSetsMenu
  <2>3. menu' \in MenuScreens \cup {"none"}
    BY <2>1, MenuIsMenu
  <2>2. TypeOK'
    BY <1>5, <2>1, <2>3, StatusTyped DEF StatusSetsMenu, StatusOnly, Goto, StepLabels
  <2>. QED  BY <1>5, <2>1, <2>2 DEF StatusSetsMenu, StatusOnly, StatusPolls, Goto, Inv, NoWrongMenu, UpdateAlone
<1>6. CASE StatusLists
  BY <1>6, RefreshListTyped, StatusKeeps DEF StatusLists, StatusOnly, Goto, StepLabels
<1>7. CASE StatusSummary
  <2>1. st # "remenu" /\ st' \in {"sleep", "recover"}
    BY <1>7 DEF StatusSummary, Goto
  <2>2. mode' \in Modes /\ faults' \in 0 .. MaxFaults
    BY <1>7, ReadsTyped DEF StatusSummary
  <2>. QED  BY <1>7, <2>1, <2>2, StatusKeeps DEF StatusSummary, StepLabels
<1>8. CASE StatusRecovers
  <2>1. linkUp' \in BOOLEAN
    BY <1>8 DEF StatusRecovers
  <2>. QED  BY <1>8, <2>1, StatusKeeps DEF StatusRecovers, StatusOnly, Goto, StepLabels
<1>9. CASE StatusRelists
  BY <1>9, ReadListTyped, StatusKeeps DEF StatusRelists, StatusOnly, Goto, StepLabels
<1>10. CASE StatusWakes
  BY <1>10, StatusKeeps DEF StatusWakes, StatusOnly, Goto, StepLabels
<1>. QED  BY <1>1, <1>2, <1>3, <1>4, <1>5, <1>6, <1>7, <1>8, <1>9, <1>10 DEF StatusStep, Refreshes

LEMMA OutsideKeeps ==
  ASSUME Inv, DisplayFlips \/ BoardChanges
  PROVE  Inv'
<1>1. UNCHANGED <<uiVars, mode, listOk, linkUp, gp, st, arm, jump, faults, parked>>
  BY DEF DisplayFlips, BoardChanges
<1>2. changes \in Nat /\ MaxChanges \in Nat
  BY BoundsAssumption DEF Inv, TypeOK
<1>3. changes' \in 0 .. MaxChanges
  BY <1>2 DEF DisplayFlips, BoardChanges, boardVars, Inv, TypeOK
<1>4. off' \in BOOLEAN /\ alive' \in BOOLEAN /\ bmode' \in Modes
  BY DEF DisplayFlips, BoardChanges, boardVars, Inv, TypeOK
<1>5. TypeOK'
  BY <1>1, <1>3, <1>4 DEF Inv, TypeOK, uiVars
<1>. QED  BY <1>1, <1>5 DEF Inv, NoWrongMenu, UpdateAlone, uiVars

LEMMA StepHolds ==
  Inv /\ [Next]_vars => Inv'
<1>. SUFFICES ASSUME Inv, [Next]_vars
              PROVE  Inv'
  OBVIOUS
<1>1. CASE UNCHANGED vars
  BY <1>1 DEF vars, uiVars, boardVars, Inv, TypeOK, NoWrongMenu, UpdateAlone
<1>2. CASE ButtonStep
  BY <1>2, NavigateKeeps, ShowInfoKeeps, AskKeeps, ButtonReadsKeeps, HandledKeeps
     DEF ButtonStep, Handles, Handled, Parks
<1>. QED  BY <1>1, <1>2, UpdateFailsKeeps, StatusStepKeeps, OutsideKeeps DEF Next

-----------------------------------------------------------------------------
(* No step but the update task's own takes the progress screen away: the   *)
(* handlers that could are not running, and the status task moves only     *)
(* from a home screen, before which no button handler begins an update.    *)
LEMMA ProgressStays ==
  ASSUME Inv, [Next]_vars, screen = "fw_update", screen' # screen
  PROVE  UpdateFails
<1>. /\ gp \in {"wait", "started"} /\ st # "jump" /\ "fw_update" \notin Homes
     /\ screen \in Screens /\ TypeOK
  BY HomesAreScreens DEF Inv, UpdateAlone, TypeOK
<1>1. ~UNCHANGED vars /\ ~DisplayFlips /\ ~BoardChanges
  BY DEF vars, uiVars, DisplayFlips, BoardChanges
<1>2. ~StatusStep
  BY DEF StatusStep, Refreshes, StatusPass, StatusReads, StatusTests, StatusJumps, StatusSetsMenu,
         StatusLists, StatusSummary, StatusRecovers, StatusRelists, StatusWakes
<1>3. ASSUME NEW s \in Screens
      PROVE  ~Navigate(s) /\ ~ShowInfo(s) /\ ~Ask(s)
  <2>1. ~Navigate(s)
    BY NextScreensTyped DEF Navigate, Pressed
  <2>. QED  BY <2>1 DEF ShowInfo, Ask, Pressed
<1>4. ~Handled /\ ~ButtonReads
  BY DEF Handled, ButtonReads, Acted, ButtonLists, Ejected, ListOpened, Selected, Recovered,
         Checked, InfoShown, MainboardUpdated, UpdateBegins, UpdateStarted, Back, Finish
<1>. QED  BY <1>1, <1>2, <1>3, <1>4 DEF Next, ButtonStep, Handles, Handled

(* The types hold in every behaviour.                                      *)
THEOREM Types == Spec => []TypeOK
<1>1. Inv => TypeOK
  BY DEF Inv
<1>. QED  BY <1>1, InitHolds, StepHolds, PTL DEF Spec

(* Whatever the order in which the button task, the status task and the    *)
(* board change the screen, between two events the menu drawn is that of   *)
(* the screen shown, or none.                                              *)
THEOREM MenusMatch == Spec => []NoWrongMenu
<1>1. Inv => NoWrongMenu
  BY DEF Inv
<1>. QED  BY <1>1, InitHolds, StepHolds, PTL DEF Spec

(* While the panel writes its firmware nothing but the end of the update   *)
(* takes the progress screen away.                                         *)
THEOREM UpdateIsUndisturbed == Spec => UpdateUndisturbed
<1>1. Inv /\ [Next]_vars => [screen = "fw_update" /\ screen' # screen => UpdateFails]_vars
  BY ProgressStays
<1>. QED  BY <1>1, InitHolds, StepHolds, PTL DEF Spec, UpdateUndisturbed
=============================================================================
