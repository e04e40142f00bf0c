----------------------------- MODULE PanelScreens ----------------------------
(***************************************************************************)
(* main.c of the BlueSCSI panel: which screen is shown, which menu the     *)
(* buttons act on, and how both follow the board between target mode and   *)
(* initiator (disk imaging) mode.  Two tasks change them without a lock:   *)
(* the button task (handle_button_event) and status_refresh_task; a third  *)
(* is the firmware update task.                                            *)
(*                                                                         *)
(* The button task has the higher priority.  It can run between any two    *)
(* statements of the status task, also when it comes back from a wait for  *)
(* the main board, and is itself only interrupted where it waits.  A wait  *)
(* is long enough for the status task to get on: no tasks in between keep  *)
(* the processor for all of it.                                            *)
(***************************************************************************)
EXTENDS Naturals

CONSTANTS MaxChanges,   \* bound: how often the board changes mode or comes and goes
          MaxFaults     \* bound: how often a poll of a board that is there fails

ASSUME BoundsAssumption == MaxChanges \in Nat /\ MaxFaults \in Nat

VARIABLES
  screen,   \* current_screen
  menu,     \* active_menu: the screen whose menu it is, or "none"
  info,     \* info_return_screen
  mode,     \* operating_mode
  listOk,   \* device_list_valid and not empty
  linkUp,   \* host_comm.link_up
  off,      \* display.state = DISPLAY_STATE_OFF
  gp,       \* what the button task waits for in its handler; "wait" between events
  st,       \* the statement status_refresh_task is at
  arm,      \* the arm of its pass it is in
  jump,     \* the screen refresh_playback_status is about to move it to
  bmode, alive,   \* the board: its mode, and whether it answers
  parked,   \* the button task waits, and began to before the status task was
            \* through with moving the screen
  changes, faults

uiVars    == <<screen, menu, info>>
boardVars == <<bmode, alive, changes>>
vars == <<uiVars, mode, listOk, linkUp, off, gp, st, arm, jump, boardVars, faults, parked>>

Pickers     == {"idle_mode", "idle_timeout", "blank_timeout"}
MenuScreens == {"main_menu", "disc_list", "settings", "wifi_menu", "device_select",
                "display_settings"} \cup Pickers
Homes       == {"status", "initiator"}
Screens     == MenuScreens \cup Homes \cup {"info", "fw_status", "fw_update"}
Modes       == {"target", "initiator"}

HomeOf(m) == IF m = "initiator" THEN "initiator" ELSE "status"

(* Mutant: an entry for every screen.                                      *)
MenuOf_EveryScreen(s) == s

(* screen_menus: the screens without a menu have none.                     *)
MenuOf(s) == IF s \in MenuScreens THEN s ELSE "none"

(* The state app_main leaves: the first screen is chosen from a fresh poll. *)
Init ==
  /\ bmode \in Modes /\ alive \in BOOLEAN
  /\ linkUp = alive
  /\ mode = IF alive THEN bmode ELSE "target"
  /\ screen = HomeOf(mode) /\ menu = MenuOf(screen)
  /\ info = "main_menu"
  /\ listOk \in IF alive THEN BOOLEAN ELSE {FALSE}
  /\ off = FALSE
  /\ gp = "wait" /\ st = "pass" /\ arm = "none" /\ jump = "status"
  /\ parked = FALSE /\ changes = 0 /\ faults = 0

-----------------------------------------------------------------------------
(* What both tasks do in refresh_playback_status. *)

Reads == alive /\ mode' = bmode /\ UNCHANGED faults
Fails == /\ UNCHANGED mode
         /\ \/ ~alive /\ UNCHANGED faults
            \/ alive /\ faults < MaxFaults /\ faults' = faults + 1

(* refresh_device_list: the list carries the mode as well.                 *)
ReadList ==
  \/ linkUp /\ alive /\ mode' = bmode /\ listOk' \in BOOLEAN
  \/ linkUp /\ UNCHANGED mode /\ listOk' = FALSE
  \/ ~linkUp /\ UNCHANGED <<mode, listOk>>

(* The empty or missing list is asked for again after a backoff.           *)
RefreshList == \/ ~listOk /\ ReadList
               \/ UNCHANGED <<mode, listOk>>

-----------------------------------------------------------------------------
(* handle_button_event *)

(* Between the statements that move the screen the status task does not    *)
(* wait itself.                                                            *)
Preempting == st \in {"jump", "remenu"}

(* Between two events, with the display on: off, a click only wakes it.    *)
Pressed(s) == gp = "wait" /\ ~off /\ screen = s

ButtonOnly == UNCHANGED <<mode, listOk, linkUp, off, st, arm, jump, boardVars, faults>>

(* The handlers that only change the screen; all end by setting the menu.  *)
NextScreens(s) ==
  CASE s = "initiator"        -> {"settings"}
    [] s = "status"           -> {"main_menu"}
    [] s = "main_menu"        -> {"device_select", "settings"}
    [] s = "disc_list"        -> {"main_menu"}
    [] s = "settings"         -> {"wifi_menu", "display_settings",
                                  IF mode = "initiator" THEN "initiator" ELSE "main_menu"}
    [] s = "wifi_menu"        -> {"settings"}
    [] s = "device_select"    -> {"main_menu"}
    [] s = "display_settings" -> Pickers \cup {"settings"}
    [] s \in Pickers          -> {"display_settings"}
    [] s = "info"             -> {info}
    [] s = "fw_status"        -> {"settings"}
    [] OTHER                  -> {}

Navigate(s) ==
  /\ Pressed(s)
  /\ screen' \in NextScreens(s)
  /\ menu' = MenuOf(screen')
  /\ UNCHANGED <<info, gp>>
  /\ ButtonOnly

(* From the main menu only if there is no board to ask for its version.    *)
ShowInfo(s) ==
  /\ Pressed(s)
  /\ s = "wifi_menu" \/ (s = "main_menu" /\ ~linkUp)
  /\ info' = s
  /\ screen' = "info" /\ menu' = MenuOf("info")
  /\ UNCHANGED gp
  /\ ButtonOnly

(* The handlers that call the main board, up to the call: previous or next *)
(* image or eject from the status screen, Back to it from the main menu, a *)
(* device picked, eject from the main menu, the disc list opened, system   *)
(* info, an entry selected, the firmware checked, an update.               *)
Ask(s) ==
  /\ Pressed(s)
  /\ \/ /\ s = "status" /\ linkUp /\ gp' = "act"
        /\ UNCHANGED uiVars
     \/ /\ s = "main_menu" \/ (s = "device_select" /\ listOk)
        /\ gp' = "read" /\ screen' = "status"
        /\ UNCHANGED <<menu, info>>
     \/ /\ s = "main_menu" /\ linkUp /\ gp' \in {"eject", "open"}
        /\ UNCHANGED uiVars
     \/ /\ s = "disc_list" /\ linkUp /\ gp' = "select"
        /\ UNCHANGED uiVars
     \/ /\ s = "settings" /\ gp' = "check"
        /\ screen' = "fw_status" /\ menu' = "none"
        /\ UNCHANGED info
     \/ /\ s = "main_menu" /\ linkUp /\ gp' = "info"
        /\ screen' = "info" /\ info' = "main_menu"
        /\ UNCHANGED menu
     \/ /\ s = "fw_status" /\ gp' \in {"mainboard", "begin"}
        /\ UNCHANGED uiVars
  /\ ButtonOnly

Back(pc) == gp = pc /\ ~parked

(* Mutant: the handler returns where it should break.                      *)
Finish_Returns(s) == screen' = s /\ UNCHANGED menu /\ gp' = "wait"

(* The end of the handler.                                                 *)
Finish(s) == screen' = s /\ menu' = MenuOf(s) /\ gp' = "wait"

Acted ==
  /\ Back("act")
  /\ \/ gp' = "read" /\ UNCHANGED uiVars
     \/ Finish(screen) /\ UNCHANGED info
  /\ ButtonOnly

(* Nothing of lower priority comes between these statements.               *)
MoveScreen ==
  IF mode' # mode /\ screen \in Homes THEN HomeOf(mode') ELSE screen

ButtonReads ==
  /\ Back("read")
  /\ \/ /\ linkUp /\ Reads
        /\ screen' = MoveScreen
        /\ menu' = IF screen' # screen THEN MenuOf(screen') ELSE menu
        /\ gp' = "list"
     \/ /\ (~linkUp /\ UNCHANGED <<mode, faults>>) \/ (linkUp /\ Fails)
        /\ Finish(screen)
  /\ UNCHANGED <<info, listOk, linkUp, off, st, arm, jump, boardVars>>

ButtonLists ==
  /\ Back("list")
  /\ RefreshList
  /\ Finish(screen)
  /\ UNCHANGED <<info, linkUp, off, st, arm, jump, boardVars, faults>>

Ejected ==
  /\ Back("eject")
  /\ \/ gp' = "read" /\ screen' = "status" /\ UNCHANGED menu
     \/ gp' = "reconnect" /\ UNCHANGED <<screen, menu>>
  /\ UNCHANGED info
  /\ ButtonOnly

ListOpened ==
  /\ Back("open")
  /\ Finish("disc_list")
  /\ UNCHANGED info
  /\ ButtonOnly

(* A directory entered, an image for the next power cycle, an image loaded, *)
(* or an error.                                                            *)
Selected ==
  /\ Back("select")
  /\ \/ Finish(screen) /\ UNCHANGED info
     \/ Finish("info") /\ info' = "disc_list"
     \/ gp' = "read" /\ screen' = "status" /\ UNCHANGED <<menu, info>>
     \/ gp' = "recover" /\ UNCHANGED uiVars
  /\ ButtonOnly

(* handle_comm_error: a link that is restored leads from a row that could  *)
(* not be selected to the main menu; an error of another kind is only told.*)
Recovered ==
  /\ Back("recover") \/ Back("reconnect")
  /\ \/ UNCHANGED linkUp /\ Finish(screen)
     \/ /\ linkUp' \in (IF alive THEN {linkUp, FALSE} ELSE {FALSE})
        /\ Finish(IF linkUp' /\ gp = "recover" THEN "main_menu" ELSE screen)
  /\ UNCHANGED <<info, mode, listOk, off, st, arm, jump, boardVars, faults>>

Checked == /\ Back("check") /\ Finish(screen)
           /\ UNCHANGED info /\ ButtonOnly

InfoShown == /\ Back("info") /\ Finish(screen)
             /\ UNCHANGED info /\ ButtonOnly

MainboardUpdated == /\ Back("mainboard") /\ Finish("settings")
                    /\ UNCHANGED info /\ ButtonOnly

(* trigger_panel_update, up to its 1.5 s on the progress screen.           *)
UpdateBegins ==
  /\ Back("begin")
  /\ \/ gp' = "started" /\ screen' = "fw_update" /\ UNCHANGED menu
     \/ Finish(screen)
  /\ UNCHANGED info
  /\ ButtonOnly

(* The update task has been created; it is gone when the screen changes.   *)
UpdateStarted == /\ Back("started") /\ Finish(screen)
                 /\ UNCHANGED info /\ ButtonOnly

(* firmware_update_task ends in a restart of the panel, or fails.          *)
UpdateFails ==
  /\ screen = "fw_update" /\ gp = "wait"
  /\ screen' = "main_menu" /\ menu' = MenuOf("main_menu")
  /\ UNCHANGED <<info, gp, parked>>
  /\ ButtonOnly

Handles == \/ \E s \in Screens : Navigate(s) \/ ShowInfo(s) \/ Ask(s)
           \/ Acted \/ ButtonReads \/ ButtonLists \/ Ejected \/ ListOpened
           \/ Selected \/ Recovered \/ Checked \/ InfoShown
           \/ MainboardUpdated \/ UpdateBegins \/ UpdateStarted

ButtonStep == Handles /\ parked' = (gp' # "wait" /\ Preempting)

-----------------------------------------------------------------------------
(* status_refresh_task *)

StatusPolls == UNCHANGED <<info, off, gp, boardVars>>
StatusOnly  == StatusPolls /\ UNCHANGED faults
Goto(l) == st' = l

(* Mutant: the initiator arm looks at the mode alone.                      *)
Imaging_ModeOnly == mode = "initiator"

(* The arm that polls for the initiator screen.                            *)
Imaging == mode = "initiator" \/ screen = "initiator"

StatusPass ==
  /\ st = "pass"
  /\ \/ off /\ Goto("sleep") /\ arm' = "none" /\ UNCHANGED linkUp
     \/ /\ ~off /\ linkUp /\ Imaging
        /\ Goto("read") /\ arm' = "initiator" /\ UNCHANGED linkUp
     \/ /\ ~off /\ linkUp /\ ~Imaging /\ screen = "status"
        /\ Goto("read") /\ arm' = "status" /\ UNCHANGED linkUp
     \/ /\ ~off /\ linkUp /\ ~Imaging /\ screen # "status"
        /\ Goto("sleep") /\ arm' = "none" /\ UNCHANGED linkUp
     \/ /\ ~off /\ ~linkUp
        /\ IF alive THEN linkUp' = TRUE /\ Goto("relist")
                    ELSE UNCHANGED linkUp /\ Goto("sleep")
        /\ arm' = "none"
  /\ UNCHANGED <<screen, menu, mode, listOk, jump>>
  /\ StatusOnly

AfterRefresh == IF arm = "initiator" THEN "summary" ELSE "sleep"

StatusReads ==
  /\ st = "read"
  /\ \/ linkUp /\ Reads /\ Goto(IF mode' # mode THEN "test" ELSE "list")
     \/ linkUp /\ Fails /\ Goto(AfterRefresh)
     \/ ~linkUp /\ UNCHANGED <<mode, faults>> /\ Goto(AfterRefresh)
  /\ UNCHANGED <<screen, menu, listOk, linkUp, arm, jump>>
  /\ StatusPolls

(* Mutant: from any screen.                                                *)
StatusTests_AnyScreen ==
  /\ st = "test"
  /\ jump' = HomeOf(mode) /\ Goto("jump")
  /\ UNCHANGED <<screen, menu, mode, listOk, linkUp, arm>>
  /\ StatusOnly

StatusTests ==
  /\ st = "test"
  /\ IF screen \in Homes /\ screen # HomeOf(mode)
       THEN jump' = HomeOf(mode) /\ Goto("jump")
       ELSE UNCHANGED jump /\ Goto("list")
  /\ UNCHANGED <<screen, menu, mode, listOk, linkUp, arm>>
  /\ StatusOnly

StatusJumps ==
  /\ st = "jump"
  /\ screen' = jump
  /\ Goto("remenu")
  /\ UNCHANGED <<menu, mode, listOk, linkUp, arm, jump>>
  /\ StatusOnly

StatusSetsMenu ==
  /\ st = "remenu"
  /\ menu' = IF jump = "initiator" THEN "none" ELSE MenuOf(screen)
  /\ Goto("list")
  /\ UNCHANGED <<screen, mode, listOk, linkUp, arm, jump>>
  /\ StatusOnly

StatusLists ==
  /\ st = "list"
  /\ RefreshList
  /\ Goto(AfterRefresh)
  /\ UNCHANGED <<screen, menu, linkUp, arm, jump>>
  /\ StatusOnly

(* refresh_initiator_status: the summary carries the mode too; an error of *)
(* the details that is no timeout goes through handle_comm_error.          *)
StatusSummary ==
  /\ st = "summary"
  /\ \/ ~linkUp /\ UNCHANGED <<mode, faults>>
     \/ linkUp /\ (Reads \/ Fails)
  /\ Goto("sleep") \/ (linkUp /\ Goto("recover"))
  /\ UNCHANGED <<screen, menu, listOk, linkUp, arm, jump>>
  /\ StatusPolls

StatusRecovers ==
  /\ st = "recover"
  /\ linkUp' \in (IF alive THEN {linkUp, FALSE} ELSE {FALSE})
  /\ Goto("sleep")
  /\ UNCHANGED <<screen, menu, mode, listOk, arm, jump>>
  /\ StatusOnly

(* on_host_link_established.                                               *)
StatusRelists ==
  /\ st = "relist"
  /\ ReadList
  /\ Goto("sleep")
  /\ UNCHANGED <<screen, menu, linkUp, arm, jump>>
  /\ StatusOnly

StatusWakes ==
  /\ st = "sleep" /\ Goto("pass")
  /\ UNCHANGED <<screen, menu, mode, listOk, linkUp, arm, jump>>
  /\ StatusOnly

Refreshes == \/ StatusPass \/ StatusReads \/ StatusTests \/ StatusJumps
             \/ StatusSetsMenu \/ StatusLists \/ StatusSummary
             \/ StatusRecovers \/ StatusRelists \/ StatusWakes

StatusStep == Refreshes /\ parked' = FALSE

-----------------------------------------------------------------------------
DisplayFlips == /\ off' = ~off
                /\ UNCHANGED <<uiVars, mode, listOk, linkUp, gp, st, arm, jump, boardVars, faults, parked>>

(* The board finishes an imaging run, is rebooted into one, goes or comes. *)
BoardChanges ==
  /\ changes < MaxChanges
  /\ changes' = changes + 1
  /\ \/ bmode' \in Modes \ {bmode} /\ UNCHANGED alive
     \/ alive' = ~alive /\ UNCHANGED bmode
  /\ UNCHANGED <<uiVars, mode, listOk, linkUp, off, gp, st, arm, jump, faults, parked>>

Next == ButtonStep \/ UpdateFails \/ StatusStep \/ DisplayFlips \/ BoardChanges

Spec == Init /\ [][Next]_vars

(* The status task is scheduled and a handler that was begun ends.  No     *)
(* button need ever be pressed.                                            *)
FairSpec == Spec /\ WF_vars(StatusStep) /\ WF_vars(gp # "wait" /\ ButtonStep)

-----------------------------------------------------------------------------
(* Properties. *)

(* The variables keep their types.                                         *)
TypeOK ==
  /\ screen \in Screens /\ menu \in MenuScreens \cup {"none"}
  /\ info \in {"main_menu", "wifi_menu", "disc_list"}
  /\ mode \in Modes /\ bmode \in Modes
  /\ listOk \in BOOLEAN /\ linkUp \in BOOLEAN /\ off \in BOOLEAN /\ alive \in BOOLEAN
  /\ parked \in BOOLEAN
  /\ gp \in {"wait", "act", "read", "list", "eject", "open", "select", "recover", "reconnect",
             "check", "info", "mainboard", "begin", "started"}
  /\ st \in {"pass", "read", "test", "jump", "remenu", "list", "summary", "recover",
             "relist", "sleep"}
  /\ arm \in {"none", "initiator", "status"} /\ jump \in Homes
  /\ changes \in 0 .. MaxChanges /\ faults \in 0 .. MaxFaults

(* Between two button events the menu the display draws and animates is    *)
(* that of the screen shown, or none: never one the buttons do not act on. *)
NoWrongMenu == gp = "wait" /\ st # "remenu" => menu \in {"none", MenuOf(screen)}

(* A panel that is writing firmware keeps its progress screen: whatever    *)
(* the board and the other tasks do, only the update task takes it away.   *)
UpdateUndisturbed == [][screen = "fw_update" /\ screen' # screen => UpdateFails]_vars

Watching(m) == alive /\ linkUp /\ ~off /\ bmode = m /\ screen \in Homes

(* A panel on a status screen learns the mode of a board that stays in it, *)
(* also after having read the other mode from the initiator screen.        *)
LearnsMode == \A m \in Modes : <>[]Watching(m) => <>[](mode = m)
=============================================================================
