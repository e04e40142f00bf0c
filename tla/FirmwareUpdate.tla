--------------------------- MODULE FirmwareUpdate ---------------------------
(***************************************************************************)
(* Firmware updates, of both products: the OTA manager (ota_manager.c),    *)
(* the panel's own update task and the button events that start it         *)
(* (main.c), the web server's update task, its requests and its direct     *)
(* upload (web_server.cpp).  They share one spare partition, one static    *)
(* chunk buffer and one main board.                                        *)
(*                                                                         *)
(* One processor (an ESP32-C3).  The button task and the two update tasks  *)
(* have priority 10 and interleave; httpd has priority 5 and runs only     *)
(* while these are blocked: in a transaction with the board, in a delay.   *)
(*                                                                         *)
(* An image is a sequence of chunks; the card holds one image for the      *)
(* panel and one for the main board, a client may post another.            *)
(***************************************************************************)
EXTENDS Naturals

CONSTANTS Products,   \* the panel's build, with the images the card holds
          Chunks,     \* chunks of an image
          MaxRetries, \* OTA_MAX_RETRIES, 3
          MaxSessions \* bound: sessions that write to flash

ASSUME ProductsAssumption ==
  Products \subseteq {"bluescsi", "picoide"} \X SUBSET {"panel", "main"}
ASSUME ChunksAssumption == {Chunks, MaxRetries, MaxSessions} \subseteq Nat \ {0}

VARIABLES
  build,    \* "bluescsi" or "picoide", fixed when the panel is built
  card,     \* the images on the card: a subset of {"panel", "main"}
  main,     \* "told" once the main board took the order to update itself
  running,  \* the image that runs
  boot,     \* the partition to boot: the one that "runs" or the "spare" one
  flash,    \* the spare partition
  buffer,   \* chunk_buffer: the chunk of the card's image it holds
  ota,      \* the two managers: ota_manager and g_ota_manager
  pc,       \* where button task, update tasks and httpd are; pc["web"] is
            \* not "off" as long as g_ota_task_handle is set
  phase,    \* g_web_update_phase
  need,     \* what an update task was told there is to update
  written,  \* update tasks whose panel_ota_written is set
  got,      \* chunks of the upload under way
  screen,   \* current_screen
  sessions, \* sessions begun, for the bound
  restart,  \* a restart is due that no session's state tells of
  mishaps   \* history.  PicoIDE: "astray", a session began over another one or
            \* over an image already chosen, or the board's answer about the
            \* panel's image was missed.  BlueSCSI: "gone", the client of an
            \* upload left before its answer; "memory", there was none for the
            \* task that restarts the panel after it

board   == <<build, card>>
parts   == <<running, boot, flash, restart, sessions>>
job     == <<need, written>>
session == <<ota, buffer, job>>
vars    == <<board, parts, session, main, pc, phase, got, screen, mishaps>>

Sessions == {"panel", "web"}
Fresh    == [state |-> "idle", chunk |-> 1, retries |-> 0, open |-> FALSE, sha |-> "off"]
Erased   == [i \in 1..Chunks |-> "erased"]
Holds(image) == [i \in 1..Chunks |-> image]
Whole    == \E image \in {"first", "card", "posted"} : flash = Holds(image)
Resting  == [button |-> "idle", panel |-> "off", web |-> "off", httpd |-> "idle"]

(* An update of the panel starts from a check, which sets its manager up.  *)
Booted ==
  /\ ota' = [t \in Sessions |-> [Fresh EXCEPT !.state = "unset"]]
  /\ pc' = Resting /\ phase' = "idle" /\ got' = 0 /\ buffer' = 0
  /\ need' = [t \in Sessions |-> {}] /\ written' = {}
  /\ screen' = "settings" /\ restart' = FALSE

Init ==
  /\ \E p \in Products : build = p[1] /\ card = p[2]
  /\ main = "old" /\ running = "first" /\ boot = "runs" /\ flash = Erased
  /\ ota = [t \in Sessions |-> [Fresh EXCEPT !.state = "unset"]]
  /\ pc = Resting /\ phase = "idle" /\ got = 0 /\ buffer = 0
  /\ need = [t \in Sessions |-> {}] /\ written = {}
  /\ screen = "settings" /\ restart = FALSE /\ sessions = 0 /\ mishaps = {}

BlueScsi == build = "bluescsi"
At(p, l)   == pc[p] = l
Goes(p, l) == pc' = [pc EXCEPT ![p] = l]
Marks(m, happened) == mishaps' = IF happened THEN mishaps \cup {m} ELSE mishaps

(* A task of priority 10 that has the processor.                           *)
Computes(t)  == pc[t] \in {"begin", "process", "hashing", "writing", "choosing", "between"}
HttpdRuns(l) == At("httpd", l) /\ \A t \in Sessions : ~Computes(t)

-----------------------------------------------------------------------------
(* The spare partition, external: esp_ota_begin erases it, a write adds to *)
(* what is there.                                                          *)
Begins(writer) ==
  /\ sessions < MaxSessions /\ sessions' = sessions + 1
  /\ flash' = Erased
  /\ Marks("astray", ~BlueScsi /\ (boot = "spare" \/ \E t \in Sessions \ {writer} : ota[t].open))

Programmed(i, image) ==
  [flash EXCEPT ![i] = IF @ \in {"erased", image} THEN image ELSE "bad"]

-----------------------------------------------------------------------------
(* ota_manager.c                                                           *)
Started(t) ==
  /\ Begins(t)
  /\ ota' = [ota EXCEPT ![t] = [state |-> "downloading", chunk |-> 1, retries |-> 0,
                                open |-> TRUE, sha |-> "good"]]

(* esp_ota_begin refuses.                                                  *)
NotStarted(t) == ota' = [ota EXCEPT ![t].state = "error"] /\ UNCHANGED <<flash, sessions, mishaps>>

(* What a task knows is gone with it; panel_fw_info stays.                 *)
Forgets(t) == /\ need' = IF t = "web" THEN [need EXCEPT ![t] = {}] ELSE need
              /\ written' = written \ {t}

(* Where a task goes when its manager has failed.                          *)
Fails_GoesOn(t) ==   \* no return after "Panel OTA failed"
  IF t = "panel"
  THEN /\ Goes(t, IF BlueScsi THEN "off" ELSE "showing")
       /\ screen' = IF BlueScsi THEN "main_menu" ELSE screen
       /\ phase' = phase /\ Forgets(t)
  ELSE /\ Goes(t, IF BlueScsi THEN "off" ELSE "between") /\ screen' = screen /\ UNCHANGED job
       /\ phase' = IF BlueScsi THEN phase ELSE "error"
Fails(t) ==
  IF t = "panel"
  THEN /\ Goes(t, IF BlueScsi THEN "off" ELSE "showing")
       /\ screen' = IF BlueScsi THEN "main_menu" ELSE screen
       /\ phase' = phase /\ Forgets(t)
  ELSE /\ Goes(t, "off") /\ screen' = screen /\ Forgets(t)
       /\ phase' = IF BlueScsi THEN phase ELSE "error"

Broken(t) == ota' = [ota EXCEPT ![t].state = "error", ![t].open = FALSE] /\ Fails(t)

(* ota_manager_process: a manager that is not downloading returns at once, *)
(* and its task calls again.                                               *)
Processes(t) == At(t, "process") /\ ota[t].state = "downloading"

AsksChunk(t) ==
  /\ Processes(t) /\ ota[t].chunk <= Chunks /\ Goes(t, "reading")
  /\ UNCHANGED <<board, parts, session, main, phase, got, screen, mishaps>>

ReadsChunk(t) ==
  /\ At(t, "reading") /\ Goes(t, "hashing")
  /\ buffer' = ota[t].chunk
  /\ UNCHANGED <<board, parts, job, ota, main, phase, got, screen, mishaps>>

Retried_Reset(t) == 0  \* a failure clears the count, as a success does
Retried(t) == ota[t].retries + 1
GivesUp_Late(t) == Retried(t) > MaxRetries
GivesUp(t) == Retried(t) >= MaxRetries
ReadFails(t) ==
  /\ At(t, "reading")
  /\ IF GivesUp(t)
     THEN ota' = [ota EXCEPT ![t].retries = Retried(t), ![t].state = "error",
                             ![t].open = FALSE] /\ Fails(t)
     ELSE ota' = [ota EXCEPT ![t].retries = Retried(t)] /\ Goes(t, "delay")
          /\ UNCHANGED <<phase, screen, job>>
  /\ UNCHANGED <<board, parts, buffer, main, got, mishaps>>

RetryDelayEnds(t) ==
  /\ At(t, "delay") /\ Goes(t, "process")
  /\ UNCHANGED <<board, parts, session, main, phase, got, screen, mishaps>>

HashesChunk(t) ==
  /\ At(t, "hashing") /\ Goes(t, "writing")
  /\ ota' = [ota EXCEPT ![t].sha = IF @ = "good" /\ buffer # ota[t].chunk THEN "bad" ELSE @]
  /\ UNCHANGED <<board, parts, job, buffer, main, phase, got, screen, mishaps>>

(* The handle of a manager set up anew is not one of esp_ota_begin's.  A   *)
(* buffer that no task is about to use is as good as empty.                *)
WritesChunk(t) ==
  /\ At(t, "writing")
  /\ buffer' = IF \E u \in Sessions \ {t} : pc[u] \in {"hashing", "writing"} THEN buffer ELSE 0
  /\ IF ota[t].open
     THEN /\ flash' = IF buffer = ota[t].chunk THEN Programmed(buffer, "card")
                      ELSE [flash EXCEPT ![ota[t].chunk] = "bad"]
          /\ ota' = [ota EXCEPT ![t].chunk = @ + 1, ![t].retries = 0]
          /\ Goes(t, "process") /\ UNCHANGED <<phase, screen, job>>
     ELSE Broken(t) /\ UNCHANGED flash
  /\ UNCHANGED <<board, running, boot, restart, sessions, main, got, mishaps>>

(* The hash of the chunks, the header in flash, esp_ota_end.               *)
Verifies(t) ==
  /\ Processes(t) /\ ota[t].chunk > Chunks
  /\ IF ota[t].sha = "good" /\ Whole
     THEN /\ ota' = [ota EXCEPT ![t].state = "verifying", ![t].open = FALSE]
          /\ Goes(t, "choosing") /\ UNCHANGED <<phase, screen, job>>
     ELSE Broken(t)
  /\ UNCHANGED <<board, parts, buffer, main, got, mishaps>>

(* esp_ota_set_boot_partition, which looks at the image once more.         *)
Chooses(t) ==
  /\ At(t, "choosing")
  /\ IF Whole
     THEN /\ boot' = "spare" /\ ota' = [ota EXCEPT ![t].state = "success"]
          /\ Goes(t, IF BlueScsi THEN "restarting" ELSE "between")
          /\ written' = written \cup {t} /\ UNCHANGED <<phase, screen, need>>
     ELSE Broken(t) /\ UNCHANGED boot
  /\ UNCHANGED <<board, running, flash, restart, sessions, buffer, main, got, mishaps>>

-----------------------------------------------------------------------------
(* PicoIDE: the panel's image first, then the main board's, then restart.  *)
Offered == {p \in card : IF p = "panel" THEN BlueScsi \/ running # "card" ELSE main = "old"}

(* host_comm_check_firmware and host_comm_get_rp2350_fw_status, either of  *)
(* which may fail: what is not heard of counts as not there.               *)
Hears(t) ==
  \E heard \in SUBSET {"panel", "main"} :
    /\ need' = [need EXCEPT ![t] = heard \cap Offered]
    /\ Marks("astray", ~BlueScsi /\ "panel" \in Offered \ heard)

Learns ==
  /\ At("web", "learning") /\ Goes("web", "begin") /\ Hears("web")
  /\ UNCHANGED <<board, parts, ota, buffer, written, main, phase, got, screen>>

BeginsPanel(t) ==
  /\ At(t, "begin") /\ "panel" \in need[t]
  /\ \/ Started(t) /\ Goes(t, "process") /\ UNCHANGED <<phase, screen, job>>
     \/ NotStarted(t) /\ Fails(t)
  /\ UNCHANGED <<board, running, boot, restart, buffer, main, got>>

SkipsPanel(t) ==
  /\ At(t, "begin") /\ "panel" \notin need[t] /\ Goes(t, "between")
  /\ UNCHANGED <<board, parts, session, main, phase, got, screen, mishaps>>

(* The last part: restart if there is an image to start, or be done.       *)
Finishes(t) ==
  IF t = "panel"
  THEN Goes(t, IF t \in written THEN "restarting" ELSE "showing")
       /\ UNCHANGED <<phase, restart, job>>
  ELSE Goes(t, "off") /\ phase' = "success" /\ restart' = (restart \/ t \in written) /\ Forgets(t)

ToMain(t) ==
  /\ At(t, "between")
  /\ IF "main" \in need[t]
     THEN /\ Goes(t, "telling") /\ UNCHANGED <<restart, job>>
          /\ phase' = IF t = "web" THEN "mainboard" ELSE phase
     ELSE Finishes(t)
  /\ UNCHANGED <<board, running, boot, flash, sessions, ota, buffer, main, got, screen, mishaps>>

TellsMain(t) ==
  /\ At(t, "telling") /\ Goes(t, "waiting") /\ main' = "told"
  /\ phase' = IF t = "web" THEN "waiting" ELSE phase
  /\ UNCHANGED <<board, parts, session, got, screen, mishaps>>

(* The order is refused, or taken and the answer lost.  A panel whose new  *)
(* image is written restarts all the same.                                 *)
MainRefuses_Gives(t) ==  \* gives up whatever is written
  /\ At(t, "telling") /\ Fails(t) /\ main' \in {main, "told"}
  /\ UNCHANGED <<board, parts, ota, buffer, got, mishaps>>
MainRefuses(t) ==
  /\ At(t, "telling") /\ main' \in {main, "told"}
  /\ IF t \in written THEN Goes(t, "restarting") /\ UNCHANGED <<phase, screen, job>> ELSE Fails(t)
  /\ UNCHANGED <<board, parts, ota, buffer, got, mishaps>>

(* The board is back, or has not come back in time.                        *)
MainWaitEnds(t) ==
  /\ At(t, "waiting") /\ Finishes(t)
  /\ UNCHANGED <<board, running, boot, flash, sessions, ota, buffer, main, got, screen, mishaps>>

Shown ==
  /\ At("panel", "showing") /\ Goes("panel", "off") /\ screen' = "settings" /\ Forgets("panel")
  /\ UNCHANGED <<board, parts, ota, buffer, main, phase, got, mishaps>>

-----------------------------------------------------------------------------
(* The button task.  On "update" it ignores every button.                  *)
OpensStatus ==
  /\ At("button", "idle") /\ screen \in {"settings", "main_menu"} /\ screen' = "status"
  /\ ota' = [ota EXCEPT !["panel"] = Fresh] /\ Hears("panel")
  /\ UNCHANGED <<board, parts, buffer, written, main, pc, phase, got>>

LeavesStatus ==
  /\ At("button", "idle") /\ screen = "status" /\ screen' = "settings"
  /\ UNCHANGED <<board, parts, session, main, pc, phase, got, mishaps>>

(* BlueSCSI: the panel's image.  Its session begins before its task does.  *)
TriggersPanel ==
  /\ BlueScsi /\ At("button", "idle") /\ screen = "status" /\ "panel" \in need["panel"]
  /\ \/ Started("panel") /\ Goes("button", "starting") /\ screen' = "update"
     \/ NotStarted("panel") /\ UNCHANGED <<pc, screen>>
  /\ UNCHANGED <<board, running, boot, restart, buffer, need, written, main, phase, got>>

(* The result of xTaskCreate is not looked at.                             *)
CreatesTask ==
  /\ At("button", "starting")
  /\ \E l \in {"process", "off"} : pc' = [pc EXCEPT !["button"] = "idle", !["panel"] = l]
  /\ UNCHANGED <<board, parts, session, main, phase, got, screen, mishaps>>

(* BlueSCSI: the main board's image, in the button task.                   *)
TriggersMain ==
  /\ BlueScsi /\ At("button", "idle") /\ screen = "status" /\ "main" \in need["panel"]
  /\ \E took \in BOOLEAN : main' = IF took THEN "told" ELSE main
  /\ Goes("button", "showing")
  /\ UNCHANGED <<board, parts, session, phase, got, screen, mishaps>>

MainShown ==
  /\ At("button", "showing") /\ Goes("button", "idle") /\ screen' = "settings"
  /\ UNCHANGED <<board, parts, session, main, phase, got, mishaps>>

TriggersSystem ==
  /\ ~BlueScsi /\ At("button", "idle") /\ screen = "status"
  /\ need["panel"] # {} /\ screen' = "update"
  /\ \E l \in {"begin", "off"} : Goes("panel", l)
  /\ UNCHANGED <<board, parts, session, main, phase, got, mishaps>>

-----------------------------------------------------------------------------
(* The web server's requests.                                              *)
(* A check sets g_ota_manager up anew, whatever goes on with it.           *)
AsksCheck ==
  /\ HttpdRuns("idle") /\ Goes("httpd", "checking")
  /\ ota' = [ota EXCEPT !["web"] = [Fresh EXCEPT !.state = IF BlueScsi THEN "checking" ELSE @]]
  /\ UNCHANGED <<board, parts, buffer, need, written, main, phase, got, screen, mishaps>>

CheckAnswered ==
  /\ HttpdRuns("checking") /\ Goes("httpd", "idle")
  /\ \E s \in {"idle", "error"} :
       ota' = [ota EXCEPT !["web"].state = IF BlueScsi THEN s ELSE @]
  /\ UNCHANGED <<board, parts, buffer, need, written, main, phase, got, screen, mishaps>>

(* The page offers what a check found.  Without memory for the task the    *)
(* update is aborted.                                                      *)
AsksPanelUpdate ==
  /\ BlueScsi /\ HttpdRuns("idle") /\ "panel" \in card
  /\ At("web", "off") /\ ota["web"].state = "idle"
  /\ \/ Started("web") /\ Goes("web", "process")
     \/ Begins("web") /\ UNCHANGED <<ota, pc>>
     \/ NotStarted("web") /\ UNCHANGED pc
  /\ UNCHANGED <<board, running, boot, restart, buffer, need, written, main, phase, got, screen>>

AsksSystemUpdate ==
  /\ ~BlueScsi /\ HttpdRuns("idle") /\ phase = "idle"
  /\ Goes("web", "learning") /\ phase' = "panel"
  /\ UNCHANGED <<board, parts, session, main, got, screen, mishaps>>

(* The first client to ask takes the result away.                          *)
ReadsStatus ==
  /\ HttpdRuns("idle") /\ phase \in {"success", "error"} /\ phase' = "idle"
  /\ UNCHANGED <<board, parts, session, main, pc, got, screen, mishaps>>

AsksMainUpdate ==
  /\ BlueScsi /\ HttpdRuns("idle") /\ "main" \in Offered /\ main' = "told"
  /\ UNCHANGED <<board, parts, session, pc, phase, got, screen, mishaps>>

(* The direct upload.                                                      *)
MayUpload_Unguarded == TRUE
MayUpload == At("web", "off")
BeginsUpload ==
  /\ BlueScsi /\ HttpdRuns("idle") /\ MayUpload
  /\ Begins("httpd") /\ Goes("httpd", "uploading") /\ got' = 0
  /\ UNCHANGED <<board, running, boot, restart, session, main, phase, screen>>

WritesUpload ==
  /\ HttpdRuns("uploading") /\ got < Chunks
  /\ flash' = Programmed(got + 1, "posted") /\ got' = got + 1
  /\ UNCHANGED <<board, running, boot, restart, sessions, session, main, pc, phase, screen, mishaps>>

(* The client leaves, or what it posts is not an image.                    *)
UploadFails ==
  /\ HttpdRuns("uploading") /\ Goes("httpd", "idle") /\ got' = 0
  /\ UNCHANGED <<board, parts, session, main, phase, screen, mishaps>>

EndsUpload ==
  /\ HttpdRuns("uploading") /\ got = Chunks /\ got' = 0
  /\ IF Whole THEN boot' = "spare" /\ Goes("httpd", "replying")
     ELSE boot' = boot /\ Goes("httpd", "idle")
  /\ UNCHANGED <<board, running, flash, restart, sessions, session, main, phase, screen, mishaps>>

(* The restart is asked for after the answer, if the answer got out.  It   *)
(* takes a task; the result of xTaskCreate is not looked at.               *)
RepliesUpload ==
  /\ HttpdRuns("replying") /\ Goes("httpd", "idle")
  /\ \/ restart' = TRUE /\ UNCHANGED mishaps
     \/ \E m \in {"gone", "memory"} : Marks(m, TRUE) /\ UNCHANGED restart
  /\ UNCHANGED <<board, running, boot, flash, sessions, session, main, phase, got, screen>>

-----------------------------------------------------------------------------
(* esp_restart.  The boot loader starts the chosen image if it is whole.   *)
Restarts ==
  /\ restart \/ \E t \in Sessions : At(t, "restarting")
  /\ IF boot = "spare" /\ Whole THEN running' = flash[1] /\ flash' = Holds(running)
     ELSE UNCHANGED <<running, flash>>
  /\ boot' = "runs" /\ Booted /\ mishaps' = mishaps \ {"gone", "memory"}
  /\ UNCHANGED <<board, main, sessions>>

Steps(t) ==
  \/ AsksChunk(t) \/ ReadsChunk(t) \/ ReadFails(t) \/ RetryDelayEnds(t) \/ HashesChunk(t)
  \/ WritesChunk(t) \/ Verifies(t) \/ Chooses(t) \/ BeginsPanel(t) \/ SkipsPanel(t)
  \/ ToMain(t) \/ TellsMain(t) \/ MainRefuses(t) \/ MainWaitEnds(t)
WebSteps    == Steps("web") \/ Learns
PanelSteps  == Steps("panel") \/ Shown
ButtonSteps == CreatesTask \/ MainShown
HttpdSteps  == CheckAnswered \/ WritesUpload \/ UploadFails \/ EndsUpload \/ RepliesUpload
User        == \/ OpensStatus \/ LeavesStatus \/ TriggersPanel \/ TriggersMain \/ TriggersSystem
               \/ AsksCheck \/ AsksPanelUpdate \/ AsksSystemUpdate \/ ReadsStatus
               \/ AsksMainUpdate \/ BeginsUpload

Next == WebSteps \/ PanelSteps \/ ButtonSteps \/ HttpdSteps \/ User \/ Restarts

Spec == Init /\ [][Next]_vars

(* The tasks of priority 10 take turns, every transaction and delay ends,  *)
(* httpd runs whenever they all wait; nobody has to use the panel.         *)
FairSpec ==
  /\ Spec /\ WF_vars(WebSteps) /\ WF_vars(PanelSteps) /\ WF_vars(ButtonSteps)
  /\ SF_vars(HttpdSteps) /\ WF_vars(Restarts)

-----------------------------------------------------------------------------
Manager ==
  [state : {"unset", "idle", "checking", "downloading", "verifying", "success", "error"},
   chunk : 1..(Chunks + 1), retries : 0..MaxRetries, open : BOOLEAN,
   sha : {"off", "good", "bad"}]
Contents == {"erased", "bad", "first", "card", "posted"}

(* Types; no session asks for a chunk past the last, or tries one more     *)
(* often than OTA_MAX_RETRIES.                                             *)
TypeOK ==
  /\ main \in {"old", "told"} /\ boot \in {"runs", "spare"}
  /\ running \in {"first", "card", "posted"} /\ written \subseteq Sessions
  /\ flash \in [1..Chunks -> Contents]
  /\ buffer \in 0..Chunks /\ got \in 0..Chunks /\ restart \in BOOLEAN
  /\ ota \in [Sessions -> Manager]
  /\ need \in [Sessions -> SUBSET {"panel", "main"}]
  /\ phase \in {"idle", "panel", "mainboard", "waiting", "success", "error"}
  /\ screen \in {"settings", "main_menu", "status", "update"}

(* "Don't collide with the SD-card-based panel OTA background task"        *)
(* (web_server.cpp:2361): an upload never runs while the web server's task *)
(* has its session, the wait for its restart included.                     *)
UploadRunsAlone == ~(At("httpd", "uploading") /\ ~At("web", "off"))

(* The unified update never leaves a main board updated beside an old      *)
(* panel: as long as no answer about the panel's image was missed and no   *)
(* session overlapped another, a main board told to update from a card     *)
(* with a panel image has a panel that runs that image or will boot it.    *)
VersionsMatch ==
  ~BlueScsi /\ "astray" \notin mishaps /\ main = "told" /\ "panel" \in card
    => running = "card" \/ boot = "spare"

(* The panel's update task ends, whatever the board answers and whatever   *)
(* the web server does meanwhile, and leaves the screen that ignores the   *)
(* buttons.                                                                *)
PanelUpdateEnds == ~At("panel", "off") ~> screen # "update"

(* A chosen image is started: whoever sets the boot partition restarts the *)
(* panel, through refusing boards, requests and other sessions; unless the *)
(* client of an upload left before its answer, or there was no memory for  *)
(* the task that restarts (web_server.cpp:2479).                           *)
ChosenIsBooted == boot = "spare" ~> (boot = "runs" \/ mishaps \cap {"gone", "memory"} # {})

(* "processes OTA update without blocking HTTP handler"                    *)
(* (web_server.cpp:230): a check is answered while an update goes on.      *)
CheckIsAnswered == At("httpd", "checking") ~> ~At("httpd", "checking")
=============================================================================
