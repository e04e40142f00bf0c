------------------------ MODULE FirmwareUpdate_proofs ------------------------
(***************************************************************************)
(* Proofs about FirmwareUpdate, for both products, any images on the card, *)
(* any number of chunks, retries and sessions.                             *)
(***************************************************************************)
EXTENDS FirmwareUpdate, TLAPS

Procs  == {"button", "panel", "web", "httpd"}
Places == {"idle", "starting", "showing", "off", "learning", "begin", "process", "reading",
           "delay", "hashing", "writing", "choosing", "restarting", "between", "telling",
           "waiting", "checking", "uploading", "replying"}

(* An upload is only under way while the web server's task is not.         *)
Uploads == pc["httpd"] = "uploading" => pc["web"] = "off"

AInv == pc \in [Procs -> Places] /\ Uploads

-----------------------------------------------------------------------------
LEMMA AInvInit == Init => AInv
<1>1. Resting \in [Procs -> Places] /\ Resting["httpd"] = "idle"
  BY DEF Resting, Procs, Places
<1>. QED  BY <1>1 DEF Init, AInv, Uploads

(* A task of a session that takes a step has not ended, and nobody else    *)
(* moves.                                                                  *)
LEMMA OneMoves ==
  ASSUME NEW t \in Sessions, Steps(t)
  PROVE  pc[t] # "off" /\ \E l \in Places : pc' = [pc EXCEPT ![t] = l]
<1>1. ASSUME Fails(t) PROVE \E l \in Places : pc' = [pc EXCEPT ![t] = l]
  BY <1>1 DEF Fails, Goes, Places
<1>2. ASSUME Finishes(t) PROVE \E l \in Places : pc' = [pc EXCEPT ![t] = l]
  BY <1>2 DEF Finishes, Goes, Places
<1>3. CASE AsksChunk(t) \/ ReadsChunk(t) \/ RetryDelayEnds(t) \/ HashesChunk(t)
  BY <1>3 DEF AsksChunk, ReadsChunk, RetryDelayEnds, HashesChunk, Processes, At, Goes, Places
<1>4. CASE ReadFails(t)
  BY <1>1, <1>4 DEF ReadFails, At, Goes, Places
<1>5. CASE WritesChunk(t)
  BY <1>1, <1>5 DEF WritesChunk, Broken, At, Goes, Places
<1>6. CASE Verifies(t)
  BY <1>1, <1>6 DEF Verifies, Broken, Processes, At, Goes, Places
<1>7. CASE Chooses(t)
  <2>1. PICK l \in Places : Goes(t, l) \/ Fails(t)
    BY <1>7 DEF Chooses, Broken, Places
  <2>2. pc[t] = "choosing"
    BY <1>7 DEF Chooses, At
  <2>. QED  BY <1>1, <2>1, <2>2 DEF Goes, Places
<1>8. CASE BeginsPanel(t) \/ SkipsPanel(t)
  BY <1>1, <1>8 DEF BeginsPanel, SkipsPanel, At, Goes, Places
<1>9. CASE ToMain(t) \/ MainWaitEnds(t)
  BY <1>2, <1>9 DEF ToMain, MainWaitEnds, At, Goes, Places
<1>10. CASE TellsMain(t) \/ MainRefuses(t)
  BY <1>1, <1>10 DEF TellsMain, MainRefuses, At, Goes, Places
<1>. QED  BY <1>3, <1>4, <1>5, <1>6, <1>7, <1>8, <1>9, <1>10 DEF Steps

LEMMA AInvStep == AInv /\ [Next]_vars => AInv'
<1>. SUFFICES ASSUME AInv, [Next]_vars PROVE AInv'
  OBVIOUS
<1>. USE DEF AInv
<1>1. CASE UNCHANGED vars
  BY <1>1 DEF vars, Uploads
<1>2. ASSUME NEW t \in Sessions, Steps(t) PROVE AInv'
  <2>1. PICK l \in Places : pc' = [pc EXCEPT ![t] = l]
    BY <1>2, OneMoves
  <2>2. pc[t] # "off"
    BY <1>2, OneMoves
  <2>3. pc' \in [Procs -> Places]
    BY <2>1
  <2>. QED  BY <2>1, <2>2, <2>3 DEF Uploads, Sessions, Procs
<1>3. CASE Learns \/ Shown
  BY <1>3 DEF Learns, Shown, At, Goes, Places, Uploads, Procs
<1>4. CASE CreatesTask \/ MainShown
  BY <1>4 DEF CreatesTask, MainShown, At, Goes, Places, Uploads, Procs
<1>5. CASE CheckAnswered \/ WritesUpload \/ UploadFails \/ EndsUpload \/ RepliesUpload
  <2>1. CASE CheckAnswered \/ WritesUpload \/ UploadFails \/ EndsUpload
    BY <2>1 DEF CheckAnswered, WritesUpload, UploadFails, EndsUpload, HttpdRuns,
                At, Goes, Places, Uploads, Procs
  <2>2. CASE RepliesUpload
    <3>1. pc' = [pc EXCEPT !["httpd"] = "idle"]
      BY <2>2 DEF RepliesUpload, Goes
    <3>. QED  BY <3>1 DEF Places, Uploads, Procs
  <2>. QED  BY <1>5, <2>1, <2>2
<1>6. CASE OpensStatus \/ LeavesStatus \/ ReadsStatus \/ AsksMainUpdate
  BY <1>6 DEF OpensStatus, LeavesStatus, ReadsStatus, AsksMainUpdate, Uploads
<1>7. CASE TriggersPanel \/ TriggersMain \/ TriggersSystem
  BY <1>7 DEF TriggersPanel, TriggersMain, TriggersSystem, At, Goes, Places, Uploads, Procs
<1>8. CASE AsksCheck \/ AsksPanelUpdate \/ AsksSystemUpdate
  BY <1>8 DEF AsksCheck, AsksPanelUpdate, AsksSystemUpdate, HttpdRuns, At, Goes, Places, Uploads, Procs
<1>9. CASE BeginsUpload
  BY <1>9 DEF BeginsUpload, MayUpload, HttpdRuns, At, Goes, Places, Uploads, Procs
<1>10. CASE Restarts
  <2>1. Resting \in [Procs -> Places] /\ Resting["httpd"] = "idle"
    BY DEF Resting, Procs, Places
  <2>. QED  BY <1>10, <2>1 DEF Restarts, Booted, Uploads
<1>11. {"panel", "web"} = Sessions
  BY DEF Sessions
<1>. QED  BY <1>1, <1>2, <1>3, <1>4, <1>5, <1>6, <1>7, <1>8, <1>9, <1>10, <1>11
          DEF Next, WebSteps, PanelSteps, ButtonSteps, HttpdSteps, User

(* "Don't collide with the SD-card-based panel OTA background task"        *)
(* (web_server.cpp:2361): a direct upload never runs while the web         *)
(* server's update task has its session.                                   *)
THEOREM UploadAlone == Spec => []UploadRunsAlone
<1>1. AInv => UploadRunsAlone
  BY DEF AInv, Uploads, UploadRunsAlone, At
<1>. QED  BY <1>1, AInvInit, AInvStep, PTL DEF Spec

-----------------------------------------------------------------------------
(* The unified update (PicoIDE).                                           *)
StateNames ==
  {"unset", "idle", "checking", "downloading", "verifying", "success", "error"}
Kinds == [state : StateNames,
          chunk : Nat, retries : Nat, open : BOOLEAN, sha : {"off", "good", "bad"}]
Types ==
  /\ AInv /\ ota \in [Sessions -> Kinds]
  /\ flash \in [1..Chunks -> Contents] /\ running \in Contents
  /\ need \in [Sessions -> SUBSET {"panel", "main"}]

(* Its button task has no updates of its own, its web server no upload,    *)
(* and its screen ignores the buttons while its update task runs.          *)
Unified ==
  /\ pc["button"] = "idle" /\ pc["httpd"] \notin {"uploading", "replying"}
  /\ pc["panel"] # "off" => screen = "update"

Straight == ~BlueScsi /\ "astray" \notin mishaps
Busy     == {"process", "reading", "delay", "hashing", "writing", "choosing"}
Late     == {"between", "telling"}

(* What is in the spare partition: nothing but the card's image, from a    *)
(* session's start to its end; nothing yet, from the next chunk on.        *)
OnlyCard  == \A t \in Sessions : pc[t] \in Busy =>
               \A i \in 1..Chunks : flash[i] \in {"erased", "bad", "card"}
OneOpen   == \A t, u \in Sessions : ota[t].open /\ ota[u].open => t = u
Ahead     == \A t \in Sessions : ota[t].open =>
               \A i \in 1..Chunks : i >= ota[t].chunk => flash[i] = "erased"
ChosenIsCard == boot = "spare" => flash = Holds("card")

(* An update that has anything to do knows of the panel's image, and comes *)
(* to the main board's after it has chosen the panel's.                    *)
PanelOwes == "panel" \in card /\ running # "card"
Heard     == \A t \in Sessions : need[t] # {} /\ PanelOwes => "panel" \in need[t]
PanelFirst == \A t \in Sessions :
               pc[t] \in Late /\ "main" \in need[t] /\ PanelOwes => boot = "spare"
TellsLast == \A t \in Sessions : pc[t] = "telling" => "main" \in need[t]
ToldLast  == main = "told" /\ PanelOwes => boot = "spare"

Together == OnlyCard /\ OneOpen /\ Ahead /\ ChosenIsCard /\ Heard /\ PanelFirst /\ TellsLast
            /\ ToldLast
UInv     == Types /\ (~BlueScsi => Unified) /\ (Straight => Together)

LEMMA UInvInit == Init => UInv
<1>. SUFFICES ASSUME Init PROVE UInv
  OBVIOUS
<1>1. Chunks \in Nat /\ Chunks >= 1
  BY ChunksAssumption
<1>2. Resting \in [Procs -> Places] /\ pc = Resting
  BY DEF Init, Resting, Procs, Places
<1>3. ota = [t \in Sessions |-> [Fresh EXCEPT !.state = "unset"]]
  BY DEF Init
<1>4. ota \in [Sessions -> Kinds] /\ \A t \in Sessions : ota[t].open = FALSE
  BY <1>3 DEF Fresh, Kinds, StateNames
<1>5. flash \in [1..Chunks -> Contents] /\ running \in Contents /\ need = [t \in Sessions |-> {}]
  BY DEF Init, Erased, Contents
<1>6. Types
  BY <1>4, <1>5, AInvInit DEF Types
<1>7. Unified
  BY <1>2 DEF Unified, Resting
<1>8. OnlyCard /\ TellsLast /\ PanelFirst
  BY <1>2 DEF OnlyCard, TellsLast, PanelFirst, Resting, Sessions, Busy, Late
<1>9. OneOpen /\ Ahead
  BY <1>4 DEF OneOpen, Ahead
<1>10. ChosenIsCard /\ ToldLast
  BY DEF Init, ChosenIsCard, ToldLast
<1>11. Heard
  BY <1>5 DEF Heard
<1>. QED  BY <1>6, <1>7, <1>8, <1>9, <1>10, <1>11 DEF UInv, Together

(* The managers, the partition and what is to update keep their types.     *)
LEMMA FreshKinds == \A s \in {"unset", "idle", "checking"} :
                      [Fresh EXCEPT !.state = s] \in Kinds /\ Fresh \in Kinds
  BY DEF Fresh, Kinds, StateNames

LEMMA KindsClosed ==
  ASSUME NEW m \in Kinds, NEW n \in Nat
  PROVE  /\ [m EXCEPT !.retries = n, !.state = "error", !.open = FALSE] \in Kinds
         /\ [m EXCEPT !.chunk = n, !.retries = 0] \in Kinds
         /\ [m EXCEPT !.state = "verifying", !.open = FALSE] \in Kinds
  BY DEF Kinds, StateNames

LEMMA BrokenTypes ==
  ASSUME Types, NEW t \in Sessions, Broken(t)
  PROVE  ota' \in [Sessions -> Kinds]
<1>1. ota' = [ota EXCEPT ![t].state = "error", ![t].open = FALSE]
  BY DEF Broken
<1>. QED  BY ZenonT(30), <1>1 DEF Types, Kinds, StateNames

LEMMA FailsNeeds ==
  ASSUME Types, NEW t \in Sessions, Fails(t)
  PROVE  /\ need' \in [Sessions -> SUBSET {"panel", "main"}]
         /\ \A u \in Sessions : need'[u] \in {need[u], {}}
         /\ pc' = [pc EXCEPT ![t] = pc'[t]] /\ pc'[t] \in {"off", "showing"}
<1>1. Forgets(t) /\ \E l \in {"off", "showing"} : pc' = [pc EXCEPT ![t] = l]
  BY DEF Fails, Goes
<1>. QED  BY <1>1 DEF Forgets, Types, AInv, Sessions, Procs

LEMMA StepKeeps ==
  ASSUME NEW t \in Sessions, Steps(t)
  PROVE  UNCHANGED <<build, card, running>>
  BY DEF Steps, AsksChunk, ReadsChunk, ReadFails, RetryDelayEnds, HashesChunk, WritesChunk,
         Verifies, Chooses, BeginsPanel, SkipsPanel, ToMain, TellsMain, MainRefuses,
         MainWaitEnds, board, parts

LEMMA StepTypes ==
  ASSUME Types, NEW t \in Sessions, Steps(t)
  PROVE  /\ ota' \in [Sessions -> Kinds]
         /\ flash' \in [1..Chunks -> Contents]
         /\ need' \in [Sessions -> SUBSET {"panel", "main"}]
<1>. USE DEF Types
<1>1. CASE AsksChunk(t) \/ ReadsChunk(t) \/ RetryDelayEnds(t) \/ SkipsPanel(t) \/ TellsMain(t)
  BY <1>1 DEF AsksChunk, ReadsChunk, RetryDelayEnds, SkipsPanel, TellsMain, session, job, parts
<1>2. CASE ReadFails(t)
  <2>0. Retried(t) \in Nat
    BY DEF Retried, Kinds
  <2>1. ota' \in [Sessions -> Kinds]
    <3>1. CASE GivesUp(t)
      <4>1. ota' = [ota EXCEPT ![t].retries = Retried(t), ![t].state = "error", ![t].open = FALSE]
        BY <1>2, <3>1 DEF ReadFails
      <4>2. ota' = [ota EXCEPT ![t] = [ota[t] EXCEPT !.retries = Retried(t), !.state = "error",
                                                     !.open = FALSE]]
        BY <4>1
      <4>. QED  BY <2>0, <4>2, KindsClosed
    <3>2. CASE ~GivesUp(t)
      <4>1. PICK n \in Nat : ota' = [ota EXCEPT ![t].retries = n]
        BY <1>2, <2>0, <3>2 DEF ReadFails
      <4>. QED  BY <4>1 DEF Kinds, StateNames
    <3>. QED  BY <3>1, <3>2
  <2>. QED  BY <1>2, <2>1, FailsNeeds DEF ReadFails, parts, job
<1>3. CASE HashesChunk(t)
  <2>1. ota' = [ota EXCEPT ![t].sha = IF @ = "good" /\ buffer # ota[t].chunk THEN "bad" ELSE @]
    BY <1>3 DEF HashesChunk
  <2>2. ota' \in [Sessions -> Kinds]
    BY ZenonT(30), <2>1 DEF Kinds, StateNames
  <2>. QED  BY <1>3, <2>2 DEF HashesChunk, parts, job
<1>4. CASE WritesChunk(t)
  <2>1. CASE ota[t].open
    <3>1. ota' = [ota EXCEPT ![t].chunk = @ + 1, ![t].retries = 0] /\ UNCHANGED job
      BY <1>4, <2>1 DEF WritesChunk
    <3>0. ota[t].chunk + 1 \in Nat
      BY DEF Kinds, StateNames
    <3>2. ota' \in [Sessions -> Kinds]
      <4>1. ota' = [ota EXCEPT ![t] = [ota[t] EXCEPT !.chunk = ota[t].chunk + 1, !.retries = 0]]
        BY <3>1
      <4>2. ota[t] \in Kinds
        OBVIOUS
      <4>3. [ota[t] EXCEPT !.chunk = ota[t].chunk + 1, !.retries = 0] \in Kinds
        BY <3>0, <4>2, KindsClosed
      <4>. QED  BY <4>1, <4>3
    <3>3. flash' = IF buffer = ota[t].chunk THEN Programmed(buffer, "card")
                   ELSE [flash EXCEPT ![ota[t].chunk] = "bad"]
      BY <1>4, <2>1 DEF WritesChunk
    <3>4. flash' \in [1..Chunks -> Contents]
      BY <3>3 DEF Programmed, Contents
    <3>. QED  BY <3>1, <3>2, <3>4 DEF job
  <2>2. CASE ~ota[t].open
    <3>1. Broken(t) /\ UNCHANGED flash
      BY <1>4, <2>2 DEF WritesChunk
    <3>2. Fails(t)
      BY <3>1 DEF Broken
    <3>. QED  BY <3>1, <3>2, BrokenTypes, FailsNeeds
  <2>. QED  BY <2>1, <2>2
<1>5. CASE Verifies(t)
  <2>1. CASE ota[t].sha = "good" /\ Whole
    <3>1. ota' = [ota EXCEPT ![t].state = "verifying", ![t].open = FALSE] /\ UNCHANGED job
      BY <1>5, <2>1 DEF Verifies
    <3>2. ota' = [ota EXCEPT ![t] = [ota[t] EXCEPT !.state = "verifying", !.open = FALSE]]
      BY <3>1
    <3>3. [ota[t] EXCEPT !.state = "verifying", !.open = FALSE] \in Kinds
      BY 0 \in Nat, KindsClosed
    <3>4. ota' \in [Sessions -> Kinds]
      BY <3>2, <3>3
    <3>. QED  BY <1>5, <3>1, <3>4 DEF Verifies, parts, job
  <2>2. CASE ~(ota[t].sha = "good" /\ Whole)
    <3>1. Broken(t)
      BY <1>5, <2>2 DEF Verifies
    <3>2. Fails(t)
      BY <3>1 DEF Broken
    <3>. QED  BY <1>5, <3>1, <3>2, BrokenTypes, FailsNeeds DEF Verifies, parts
  <2>. QED  BY <2>1, <2>2
<1>6. CASE Chooses(t)
  <2>1. CASE Whole
    <3>1. ota' = [ota EXCEPT ![t].state = "success"] /\ UNCHANGED need
      BY <1>6, <2>1 DEF Chooses
    <3>2. ota' \in [Sessions -> Kinds]
      BY ZenonT(30), <3>1 DEF Kinds, StateNames
    <3>. QED  BY <1>6, <3>1, <3>2 DEF Chooses
  <2>2. CASE ~Whole
    <3>1. Broken(t)
      BY <1>6, <2>2 DEF Chooses
    <3>2. Fails(t)
      BY <3>1 DEF Broken
    <3>. QED  BY <1>6, <3>1, <3>2, BrokenTypes, FailsNeeds DEF Chooses
  <2>. QED  BY <2>1, <2>2
<1>7. CASE BeginsPanel(t)
  <2>1. CASE Started(t) /\ UNCHANGED job
    <3>1. ota' \in [Sessions -> Kinds]
      BY <2>1 DEF Started, Kinds, StateNames
    <3>2. flash' \in [1..Chunks -> Contents]
      BY <2>1 DEF Started, Begins, Erased, Contents
    <3>. QED  BY <2>1, <3>1, <3>2 DEF job
  <2>2. CASE NotStarted(t) /\ Fails(t)
    <3>1. ota' \in [Sessions -> Kinds]
      BY ZenonT(30), <2>2 DEF NotStarted, Kinds, StateNames
    <3>. QED  BY <2>2, <3>1, FailsNeeds DEF NotStarted
  <2>. QED  BY <1>7, <2>1, <2>2 DEF BeginsPanel
<1>8. CASE ToMain(t) \/ MainWaitEnds(t)
  <2>1. UNCHANGED job \/ Forgets(t)
    BY <1>8 DEF ToMain, MainWaitEnds, Finishes
  <2>2. need' \in [Sessions -> SUBSET {"panel", "main"}]
    BY <2>1 DEF job, Forgets
  <2>. QED  BY <1>8, <2>2 DEF ToMain, MainWaitEnds
<1>9. CASE MainRefuses(t)
  <2>1. need' \in [Sessions -> SUBSET {"panel", "main"}]
    BY <1>9, FailsNeeds DEF MainRefuses, job
  <2>. QED  BY <1>9, <2>1 DEF MainRefuses, parts
<1>. QED  BY <1>1, <1>2, <1>3, <1>4, <1>5, <1>6, <1>7, <1>8, <1>9 DEF Steps

LEMMA TypesStep == Types /\ [Next]_vars => Types'
<1>. SUFFICES ASSUME Types, [Next]_vars PROVE Types'
  OBVIOUS
<1>0. AInv'
  BY AInvStep DEF Types
<1>. USE DEF Types
<1>1. CASE UNCHANGED vars
  BY <1>0, <1>1 DEF vars, session, job, parts
<1>2. ASSUME NEW t \in Sessions, Steps(t) PROVE Types'
  BY <1>0, <1>2, StepTypes, StepKeeps
<1>3. CASE Learns \/ OpensStatus
  <2>1. PICK t \in Sessions : Hears(t)
    BY <1>3 DEF Learns, OpensStatus, Sessions
  <2>2. need' \in [Sessions -> SUBSET {"panel", "main"}]
    BY <2>1 DEF Hears
  <2>3. ota' = ota \/ ota' = [ota EXCEPT !["panel"] = Fresh]
    BY <1>3 DEF Learns, OpensStatus
  <2>4. ota' \in [Sessions -> Kinds]
    BY <2>3, FreshKinds
  <2>. QED  BY <1>0, <1>3, <2>2, <2>4 DEF Learns, OpensStatus, parts
<1>4. CASE Shown
  <2>1. need' = need
    BY <1>4 DEF Shown, Forgets
  <2>. QED  BY <1>0, <1>4, <2>1 DEF Shown, parts
<1>5. CASE CreatesTask \/ MainShown \/ LeavesStatus \/ ReadsStatus \/ TriggersMain
           \/ TriggersSystem \/ AsksSystemUpdate \/ AsksMainUpdate \/ UploadFails
  BY <1>0, <1>5 DEF CreatesTask, MainShown, LeavesStatus, ReadsStatus, TriggersMain,
     TriggersSystem, AsksSystemUpdate, AsksMainUpdate, UploadFails, session, job, parts
<1>6. CASE TriggersPanel \/ AsksPanelUpdate
  <2>1. PICK t \in Sessions : Started(t) \/ NotStarted(t) \/ (Begins(t) /\ UNCHANGED ota)
    BY <1>6 DEF TriggersPanel, AsksPanelUpdate, Sessions
  <2>2. ota' \in [Sessions -> Kinds]
    <3>1. CASE Started(t)
      BY <3>1 DEF Started, Kinds, StateNames
    <3>2. CASE NotStarted(t)
      BY <3>2 DEF NotStarted, Kinds, StateNames
    <3>. QED  BY <2>1, <3>1, <3>2
  <2>3. flash' \in [1..Chunks -> Contents]
    BY <2>1 DEF Started, NotStarted, Begins, Erased, Contents
  <2>. QED  BY <1>0, <1>6, <2>2, <2>3 DEF TriggersPanel, AsksPanelUpdate
<1>7. CASE AsksCheck \/ CheckAnswered
  <2>1. ASSUME AsksCheck PROVE ota' \in [Sessions -> Kinds]
    <3>1. PICK m \in Kinds : ota' = [ota EXCEPT !["web"] = m]
      BY <2>1, FreshKinds DEF AsksCheck, Fresh
    <3>. QED  BY <3>1
  <2>2. ASSUME CheckAnswered PROVE ota' \in [Sessions -> Kinds]
    <3>1. PICK s \in {"idle", "error", ota["web"].state} :
            ota' = [ota EXCEPT !["web"].state = s]
      BY <2>2 DEF CheckAnswered
    <3>2. "web" \in Sessions /\ ota["web"].state \in StateNames
      BY DEF Sessions, Kinds
    <3>. QED  BY ZenonT(30), <3>1, <3>2 DEF Kinds, StateNames
  <2>3. ota' \in [Sessions -> Kinds]
    BY <1>7, <2>1, <2>2
  <2>. QED  BY <1>0, <1>7, <2>3 DEF AsksCheck, CheckAnswered, parts
<1>8. CASE BeginsUpload \/ WritesUpload
  <2>1. flash' \in [1..Chunks -> Contents]
    BY <1>8 DEF BeginsUpload, WritesUpload, Begins, Programmed, Erased, Contents
  <2>. QED  BY <1>0, <1>8, <2>1 DEF BeginsUpload, WritesUpload, session, job
<1>9. CASE EndsUpload \/ RepliesUpload
  BY <1>0, <1>9 DEF EndsUpload, RepliesUpload, session, job
<1>10. CASE Restarts
  <2>1. ota' \in [Sessions -> Kinds] /\ need' \in [Sessions -> SUBSET {"panel", "main"}]
    BY <1>10, FreshKinds DEF Restarts, Booted
  <2>2. CASE boot = "spare" /\ Whole
    <3>1. 1 \in 1..Chunks
      BY ChunksAssumption
    <3>2. flash' = Holds(running) /\ running' = flash[1]
      BY <1>10, <2>2 DEF Restarts
    <3>3. flash' \in [1..Chunks -> Contents] /\ running' \in Contents
      BY <3>1, <3>2 DEF Holds
    <3>. QED  BY <1>0, <2>1, <3>3
  <2>3. CASE ~(boot = "spare" /\ Whole)
    BY <1>0, <1>10, <2>1, <2>3 DEF Restarts
  <2>. QED  BY <2>2, <2>3
<1>11. {"panel", "web"} = Sessions
  BY DEF Sessions
<1>. QED  BY <1>1, <1>2, <1>3, <1>4, <1>5, <1>6, <1>7, <1>8, <1>9, <1>10, <1>11
          DEF Next, WebSteps, PanelSteps, ButtonSteps, HttpdSteps, User

LEMMA BuildStays == [Next]_vars => UNCHANGED <<build, card>>
  BY DEF Next, WebSteps, PanelSteps, ButtonSteps, HttpdSteps, User, Learns, Shown, CreatesTask,
     MainShown, CheckAnswered, WritesUpload, UploadFails, EndsUpload, RepliesUpload, OpensStatus,
     LeavesStatus, TriggersPanel, TriggersMain, TriggersSystem, AsksCheck, AsksPanelUpdate,
     AsksSystemUpdate, ReadsStatus, AsksMainUpdate, BeginsUpload, Restarts, Steps, AsksChunk,
     ReadsChunk, ReadFails, RetryDelayEnds, HashesChunk, WritesChunk, Verifies, Chooses,
     BeginsPanel, SkipsPanel, ToMain, TellsMain, MainRefuses, MainWaitEnds, board, vars

(* What went astray stays noted.                                           *)
LEMMA AstrayStays == [Next]_vars /\ "astray" \in mishaps => "astray" \in mishaps'
<1>. SUFFICES ASSUME [Next]_vars PROVE "astray" \in mishaps => "astray" \in mishaps'
  OBVIOUS
<1>1. CASE UNCHANGED vars \/ Restarts
  BY <1>1 DEF vars, Restarts
<1>2. ASSUME NEW t \in Sessions, Steps(t) PROVE "astray" \in mishaps => "astray" \in mishaps'
  BY <1>2 DEF Steps, AsksChunk, ReadsChunk, ReadFails, RetryDelayEnds, HashesChunk, WritesChunk,
     Verifies, Chooses, BeginsPanel, Started, NotStarted, Begins, Marks, SkipsPanel, ToMain,
     TellsMain, MainRefuses, MainWaitEnds
<1>3. CASE Learns \/ Shown \/ ButtonSteps \/ HttpdSteps
  BY <1>3 DEF Learns, Hears, Marks, Shown, ButtonSteps, CreatesTask, MainShown, HttpdSteps,
     CheckAnswered, WritesUpload, UploadFails, EndsUpload, RepliesUpload
<1>4. CASE User
  BY <1>4 DEF User, OpensStatus, Hears, Marks, LeavesStatus, TriggersPanel, Started, NotStarted,
     Begins, TriggersMain, TriggersSystem, AsksCheck, AsksPanelUpdate, AsksSystemUpdate,
     ReadsStatus, AsksMainUpdate, BeginsUpload
<1>5. {"panel", "web"} = Sessions
  BY DEF Sessions
<1>. QED  BY <1>1, <1>2, <1>3, <1>4, <1>5 DEF Next, WebSteps, PanelSteps

LEMMA UnifiedStep ==
  ASSUME Types, ~BlueScsi, Unified, [Next]_vars
  PROVE  Unified'
<1>. USE DEF Types, AInv, Unified
<1>1. CASE UNCHANGED vars
  BY <1>1 DEF vars
<1>2. ASSUME NEW t \in Sessions, Steps(t) PROVE Unified'
  <2>1. pc[t] # "off" /\ \E l \in Places : pc' = [pc EXCEPT ![t] = l]
    BY <1>2, OneMoves
  <2>2. UNCHANGED screen
    BY <1>2 DEF Steps, AsksChunk, ReadsChunk, ReadFails, RetryDelayEnds, HashesChunk,
       WritesChunk, Verifies, Chooses, BeginsPanel, SkipsPanel, ToMain, TellsMain, MainRefuses,
       MainWaitEnds, Broken, Fails
  <2>. QED  BY <2>1, <2>2 DEF Sessions, Procs
<1>3. CASE Learns \/ Shown \/ ButtonSteps
  BY <1>3 DEF Learns, Shown, ButtonSteps, CreatesTask, MainShown, At, Goes, Procs
<1>4. CASE HttpdSteps
  BY <1>4 DEF HttpdSteps, CheckAnswered, WritesUpload, UploadFails, EndsUpload, RepliesUpload,
     HttpdRuns, At, Goes, Procs
<1>5. CASE User
  BY <1>5 DEF User, OpensStatus, LeavesStatus, TriggersPanel, TriggersMain, TriggersSystem,
     AsksCheck, AsksPanelUpdate, AsksSystemUpdate, ReadsStatus, AsksMainUpdate, BeginsUpload,
     HttpdRuns, At, Goes, Procs
<1>6. CASE Restarts
  BY <1>6 DEF Restarts, Booted, Resting
<1>7. {"panel", "web"} = Sessions
  BY DEF Sessions
<1>. QED  BY <1>1, <1>2, <1>3, <1>4, <1>5, <1>6, <1>7 DEF Next, WebSteps, PanelSteps

(* A step that touches neither partition nor board, and takes no task      *)
(* further than it may go.                                                 *)
Calm == \A u \in Sessions :
  /\ pc'[u] \in Busy => pc[u] \in Busy
  /\ pc'[u] \in Late => pc[u] \in Late
  /\ pc'[u] = "telling" => "main" \in need[u]
CalmOta  == \A u \in Sessions :
  ota'[u].open => ota[u].open /\ ota'[u].chunk = ota[u].chunk
CalmNeed == \A u \in Sessions : need'[u] = need[u] \/ (need'[u] = {} /\ pc'[u] = "off")

LEMMA CalmIsTogether ==
  ASSUME Together, UNCHANGED <<card, flash, boot, running>>, Calm, CalmOta, CalmNeed,
         main' = main \/ (PanelOwes => boot = "spare")
  PROVE  Together'
<1>. USE DEF Together
<1>1. OnlyCard'
  BY DEF OnlyCard, Calm
<1>2. OneOpen' /\ Ahead'
  BY DEF OneOpen, Ahead, CalmOta
<1>3. ChosenIsCard' /\ ToldLast'
  BY DEF ChosenIsCard, ToldLast, PanelOwes, Holds
<1>4. Heard'
  BY DEF Heard, PanelOwes, CalmNeed
<1>5. PanelFirst'
  BY DEF PanelFirst, PanelOwes, Calm, CalmNeed
<1>6. TellsLast'
  BY DEF TellsLast, Calm, CalmNeed
<1>. QED  BY <1>1, <1>2, <1>3, <1>4, <1>5, <1>6

(* One task moves to a place it may go to.                                 *)
LEMMA MovesCalmly ==
  ASSUME Types, Together, NEW t \in Sessions, NEW l, pc' = [pc EXCEPT ![t] = l],
         l \in Busy => pc[t] \in Busy, l \in Late => pc[t] \in Late,
         l = "telling" => "main" \in need[t]
  PROVE  Calm
<1>1. \A u \in Sessions : pc'[u] = IF u = t THEN l ELSE pc[u]
  BY DEF Types, AInv, Sessions, Procs
<1>. QED  BY <1>1 DEF Calm, Together, TellsLast

LEMMA FailsCalmly ==
  ASSUME Types, Together, NEW t \in Sessions, Fails(t)
  PROVE  Calm /\ CalmNeed
<1>1. PICK l \in {"off", "showing"} : pc' = [pc EXCEPT ![t] = l]
  BY DEF Fails, Goes
<1>2. Calm
  BY <1>1, MovesCalmly DEF Busy, Late
<1>3. t = "web" => l = "off"
  <2>1. t = "web" => Goes(t, "off")
    BY DEF Fails
  <2>2. pc'[t] = l /\ (t = "web" => pc'[t] = "off")
    BY <1>1, <2>1 DEF Goes, Types, AInv, Sessions, Procs
  <2>. QED  BY <2>2
<1>4. Forgets(t)
  BY DEF Fails
<1>5. CASE t = "web"
  <2>1. pc'["web"] = "off" /\ need' = [need EXCEPT !["web"] = {}]
    BY <1>1, <1>3, <1>4, <1>5 DEF Forgets, Types, AInv, Procs
  <2>. QED  BY <1>2, <2>1 DEF CalmNeed, Types
<1>6. CASE t # "web"
  BY <1>2, <1>4, <1>6 DEF Forgets, CalmNeed
<1>. QED  BY <1>5, <1>6

LEMMA BrokenCalmly ==
  ASSUME Types, NEW t \in Sessions, Broken(t)
  PROVE  CalmOta
<1>1. ota' = [ota EXCEPT ![t].state = "error", ![t].open = FALSE]
  BY DEF Broken
<1>. QED  BY <1>1 DEF CalmOta, Types, Kinds

LEMMA FinishesCalmly ==
  ASSUME Types, Together, NEW t \in Sessions, Finishes(t)
  PROVE  Calm /\ CalmNeed
<1>1. CASE t = "panel"
  <2>1. PICK l \in {"restarting", "showing"} : pc' = [pc EXCEPT ![t] = l]
    BY <1>1 DEF Finishes, Goes
  <2>2. Calm
    BY <2>1, MovesCalmly DEF Busy, Late
  <2>. QED  BY <1>1, <2>2 DEF Finishes, job, CalmNeed
<1>2. CASE t = "web"
  <2>1. pc' = [pc EXCEPT ![t] = "off"] /\ need' = [need EXCEPT !["web"] = {}]
    BY <1>2 DEF Finishes, Goes, Forgets
  <2>2. Calm
    BY <2>1, MovesCalmly DEF Busy, Late
  <2>3. pc'["web"] = "off"
    BY <1>2, <2>1 DEF Types, AInv, Procs
  <2>. QED  BY <2>1, <2>2, <2>3 DEF CalmNeed, Types
<1>. QED  BY <1>1, <1>2 DEF Sessions

(* A session that begins erases what was there, and only it is open.       *)
LEMMA StartsTogether ==
  ASSUME Types, Straight', ~BlueScsi, UNCHANGED <<build, card, boot, running, main, job>>, Together,
         NEW t \in Sessions, Started(t), pc' = [pc EXCEPT ![t] = "process"]
  PROVE  Together'
<1>. USE DEF Types, Kinds, StateNames
<1>1. flash' = Erased /\ boot # "spare" /\ \A u \in Sessions \ {t} : ~ota[u].open
  BY DEF Started, Begins, Marks, Straight, BlueScsi
<1>2. \A u \in Sessions : ota'[u].open => u = t
  BY <1>1 DEF Started
<1>3. OneOpen'
  BY <1>2 DEF OneOpen
<1>4. Ahead' /\ OnlyCard'
  BY <1>1 DEF Ahead, OnlyCard, Erased
<1>5. ChosenIsCard' /\ ToldLast' /\ Heard'
  BY <1>1 DEF Together, ChosenIsCard, ToldLast, Heard, PanelOwes, job
<1>6. \A u \in Sessions : pc'[u] = IF u = t THEN "process" ELSE pc[u]
  BY DEF AInv, Sessions, Procs
<1>7. PanelFirst'
  BY <1>6 DEF Together, PanelFirst, PanelOwes, Late, job
<1>8. TellsLast'
  BY <1>6 DEF Together, TellsLast, job
<1>. QED  BY <1>3, <1>4, <1>5, <1>7, <1>8 DEF Together

(* A chunk goes where nothing was; with an image chosen nobody writes.     *)
LEMMA WritesTogether ==
  ASSUME Types, Together, NEW t \in Sessions, WritesChunk(t), ota[t].open
  PROVE  Together'
<1>. USE DEF Types
<1>. DEFINE c == ota[t].chunk
<1>1. c \in Nat
  BY DEF Kinds
<1>2. pc[t] = "writing" /\ pc' = [pc EXCEPT ![t] = "process"] /\ UNCHANGED <<boot, running, main, job>>
  BY DEF WritesChunk, At, Goes
<1>3. UNCHANGED card
  BY DEF WritesChunk, board
<1>4. ota' = [ota EXCEPT ![t].chunk = c + 1, ![t].retries = 0]
  BY DEF WritesChunk
<1>5. flash' = IF buffer = c THEN Programmed(c, "card") ELSE [flash EXCEPT ![c] = "bad"]
  BY DEF WritesChunk
<1>6. \A u \in Sessions \ {t} : ~ota[u].open
  BY DEF Together, OneOpen
<1>7. ota'[t].chunk = c + 1 /\ \A u \in Sessions \ {t} : ota'[u] = ota[u]
  BY <1>4 DEF Kinds
<1>8. /\ \A i \in 1..Chunks : i # c => flash'[i] = flash[i]
      /\ c \in 1..Chunks => flash'[c] \in {"card", "bad"}
  BY <1>5 DEF Programmed
<1>9. \A i \in 1..Chunks : i >= c => flash[i] = "erased"
  BY DEF Together, Ahead
<1>10. OneOpen'
  BY <1>6, <1>7 DEF OneOpen
<1>11. Ahead'
  <2>1. \A i \in 1..Chunks : i >= c + 1 => flash'[i] = "erased"
    BY <1>1, <1>8, <1>9
  <2>. QED  BY <1>6, <1>7, <2>1 DEF Ahead
<1>12. OnlyCard'
  BY <1>2, <1>8 DEF Together, OnlyCard, Busy
<1>13. ChosenIsCard'
  <2>1. ASSUME boot = "spare" PROVE flash' = flash
    <3>1. \A i \in 1..Chunks : flash[i] = "card"
      BY <2>1 DEF Together, ChosenIsCard, Holds
    <3>2. c \notin 1..Chunks
      BY <1>1, <1>9, <3>1
    <3>. QED  BY <1>5, <3>2 DEF Programmed
  <2>. QED  BY <1>2, <2>1 DEF Together, ChosenIsCard, Holds
<1>14. Heard' /\ ToldLast'
  BY <1>2, <1>3 DEF Together, Heard, ToldLast, PanelOwes, job
<1>15. \A u \in Sessions : pc'[u] = IF u = t THEN "process" ELSE pc[u]
  BY <1>2 DEF AInv, Sessions, Procs
<1>16. PanelFirst' /\ TellsLast'
  BY <1>2, <1>3, <1>15 DEF Together, PanelFirst, TellsLast, PanelOwes, Late, job
<1>. QED  BY <1>10, <1>11, <1>12, <1>13, <1>14, <1>16 DEF Together

(* What a session verified and chose is the card's image.                  *)
LEMMA ChoosesTogether ==
  ASSUME Types, Together, ~BlueScsi, NEW t \in Sessions, Chooses(t), Whole
  PROVE  Together'
<1>. USE DEF Types
<1>1. pc[t] = "choosing" /\ pc' = [pc EXCEPT ![t] = "between"] /\ boot' = "spare"
  BY DEF Chooses, At, Goes
<1>2. UNCHANGED <<card, running, flash, main, need>>
  BY DEF Chooses, board
<1>3. ota' = [ota EXCEPT ![t].state = "success"]
  BY DEF Chooses
<1>4. flash = Holds("card")
  <2>1. 1 \in 1..Chunks /\ flash[1] \in {"erased", "bad", "card"}
    <3>1. 1 \in 1..Chunks
      BY ChunksAssumption
    <3>. QED  BY <1>1, <3>1 DEF Together, OnlyCard, Busy
  <2>2. PICK image \in {"first", "card", "posted"} : flash = Holds(image)
    BY DEF Whole
  <2>. QED  BY <2>1, <2>2 DEF Holds
<1>5. CalmOta
  BY <1>3 DEF CalmOta, Kinds
<1>6. \A u \in Sessions : pc'[u] = IF u = t THEN "between" ELSE pc[u]
  BY <1>1 DEF AInv, Sessions, Procs
<1>7. OneOpen' /\ Ahead'
  BY <1>2, <1>5 DEF Together, OneOpen, Ahead, CalmOta
<1>8. OnlyCard' /\ ChosenIsCard'
  BY <1>2, <1>4 DEF OnlyCard, ChosenIsCard, Holds
<1>9. Heard' /\ ToldLast' /\ PanelFirst' /\ TellsLast'
  BY <1>1, <1>2, <1>6 DEF Together, Heard, ToldLast, PanelFirst, TellsLast, PanelOwes
<1>. QED  BY <1>7, <1>8, <1>9 DEF Together

LEMMA StepTogether ==
  ASSUME UInv, Straight, Straight', NEW t \in Sessions, Steps(t), UNCHANGED <<build, card, running>>
  PROVE  Together'
<1>. Types /\ Together /\ ~BlueScsi
  BY DEF UInv, Straight
<1>1. CASE AsksChunk(t) \/ ReadsChunk(t) \/ RetryDelayEnds(t)
  <2>1. PICK l \in {"reading", "hashing", "process"} :
          pc[t] \in Busy /\ pc' = [pc EXCEPT ![t] = l]
    BY <1>1 DEF AsksChunk, ReadsChunk, RetryDelayEnds, Processes, At, Goes, Busy
  <2>2. Calm
    BY <2>1, MovesCalmly DEF Busy, Late
  <2>3. UNCHANGED <<flash, boot, main, ota, need>>
    BY <1>1 DEF AsksChunk, ReadsChunk, RetryDelayEnds, parts, session, job
  <2>4. CalmOta /\ CalmNeed
    BY <2>3 DEF CalmOta, CalmNeed
  <2>. QED  BY <2>2, <2>3, <2>4, CalmIsTogether
<1>2. CASE HashesChunk(t)
  <2>1. pc[t] = "hashing" /\ pc' = [pc EXCEPT ![t] = "writing"]
    BY <1>2 DEF HashesChunk, At, Goes
  <2>2. Calm
    BY <2>1, MovesCalmly DEF Busy, Late
  <2>3. UNCHANGED <<flash, boot, main, need>>
    BY <1>2 DEF HashesChunk, parts, job
  <2>4. ota' = [ota EXCEPT ![t].sha = IF @ = "good" /\ buffer # ota[t].chunk THEN "bad" ELSE @]
    BY <1>2 DEF HashesChunk
  <2>5. CalmOta
    BY <2>4 DEF CalmOta, Types, Kinds
  <2>6. CalmNeed
    BY <2>3 DEF CalmNeed
  <2>. QED  BY <2>2, <2>3, <2>5, <2>6, CalmIsTogether
<1>3. CASE ReadFails(t)
  <2>1. UNCHANGED <<flash, boot, main>> /\ pc[t] = "reading"
    BY <1>3 DEF ReadFails, parts, At
  <2>2. CASE GivesUp(t)
    <3>1. ota' = [ota EXCEPT ![t].retries = Retried(t), ![t].state = "error", ![t].open = FALSE]
      BY <1>3, <2>2 DEF ReadFails
    <3>2. CalmOta
      BY <3>1 DEF CalmOta, Types, Kinds
    <3>3. Fails(t)
      BY <1>3, <2>2 DEF ReadFails
    <3>. QED  BY <2>1, <3>2, <3>3, FailsCalmly, CalmIsTogether
  <2>3. CASE ~GivesUp(t)
    <3>1. ota' = [ota EXCEPT ![t].retries = Retried(t)]
      BY <1>3, <2>3 DEF ReadFails
    <3>2. CalmOta
      BY <3>1 DEF CalmOta, Types, Kinds
    <3>3. pc' = [pc EXCEPT ![t] = "delay"] /\ UNCHANGED need
      BY <1>3, <2>3 DEF ReadFails, Goes, job
    <3>4. Calm
      BY <2>1, <3>3, MovesCalmly DEF Busy, Late
    <3>5. CalmNeed
      BY <3>3 DEF CalmNeed
    <3>. QED  BY <2>1, <3>2, <3>4, <3>5, CalmIsTogether
  <2>. QED  BY <2>2, <2>3
<1>4. CASE WritesChunk(t)
  <2>1. CASE ~ota[t].open
    <3>1. Broken(t) /\ UNCHANGED <<flash, boot, main>>
      BY <1>4, <2>1 DEF WritesChunk
    <3>2. Fails(t)
      BY <3>1 DEF Broken
    <3>. QED  BY <3>1, <3>2, BrokenCalmly, FailsCalmly, CalmIsTogether
  <2>. QED  BY <1>4, <2>1, WritesTogether
<1>5. CASE Verifies(t)
  <2>1. UNCHANGED <<flash, boot, main>> /\ pc[t] = "process"
    BY <1>5 DEF Verifies, parts, Processes, At
  <2>2. CASE ota[t].sha = "good" /\ Whole
    <3>1. ota' = [ota EXCEPT ![t].state = "verifying", ![t].open = FALSE]
      BY <1>5, <2>2 DEF Verifies
    <3>2. CalmOta
      BY <3>1 DEF CalmOta, Types, Kinds
    <3>3. pc' = [pc EXCEPT ![t] = "choosing"] /\ UNCHANGED need
      BY <1>5, <2>2 DEF Verifies, Goes, job
    <3>4. Calm
      BY <2>1, <3>3, MovesCalmly DEF Busy, Late
    <3>5. CalmNeed
      BY <3>3 DEF CalmNeed
    <3>. QED  BY <2>1, <3>2, <3>4, <3>5, CalmIsTogether
  <2>3. CASE ~(ota[t].sha = "good" /\ Whole)
    <3>1. Broken(t)
      BY <1>5, <2>3 DEF Verifies
    <3>2. Fails(t)
      BY <3>1 DEF Broken
    <3>. QED  BY <2>1, <3>1, <3>2, BrokenCalmly, FailsCalmly, CalmIsTogether
  <2>. QED  BY <2>2, <2>3
<1>6. CASE Chooses(t)
  <2>1. CASE ~Whole
    <3>1. Broken(t) /\ UNCHANGED <<flash, boot, main>>
      BY <1>6, <2>1 DEF Chooses
    <3>2. Fails(t)
      BY <3>1 DEF Broken
    <3>. QED  BY <3>1, <3>2, BrokenCalmly, FailsCalmly, CalmIsTogether
  <2>. QED  BY <1>6, <2>1, ChoosesTogether
<1>7. CASE BeginsPanel(t)
  <2>1. UNCHANGED <<boot, main>>
    BY <1>7 DEF BeginsPanel
  <2>2. CASE Started(t) /\ Goes(t, "process") /\ UNCHANGED job
    BY <2>1, <2>2, StartsTogether DEF Goes
  <2>3. CASE NotStarted(t) /\ Fails(t)
    <3>1. ota' = [ota EXCEPT ![t].state = "error"] /\ UNCHANGED flash
      BY <2>3 DEF NotStarted
    <3>2. CalmOta
      BY <3>1 DEF CalmOta, Types, Kinds
    <3>. QED  BY <2>1, <2>3, <3>1, <3>2, FailsCalmly, CalmIsTogether
  <2>. QED  BY <1>7, <2>2, <2>3 DEF BeginsPanel
<1>8. CASE SkipsPanel(t)
  <2>1. pc' = [pc EXCEPT ![t] = "between"] /\ "panel" \notin need[t]
    BY <1>8 DEF SkipsPanel, Goes
  <2>2. UNCHANGED <<flash, boot, main, ota, need>>
    BY <1>8 DEF SkipsPanel, parts, session, job
  <2>3. \A u \in Sessions : pc'[u] = IF u = t THEN "between" ELSE pc[u]
    BY <2>1 DEF Types, AInv, Sessions, Procs
  <2>4. PanelFirst'
    BY <2>1, <2>2, <2>3 DEF Together, Heard, PanelFirst, PanelOwes
  <2>5. OnlyCard' /\ TellsLast'
    BY <2>2, <2>3 DEF Together, OnlyCard, TellsLast, Busy
  <2>6. OneOpen' /\ Ahead' /\ ChosenIsCard'
    BY <2>2 DEF Together, OneOpen, Ahead, ChosenIsCard, Holds
  <2>7. Heard' /\ ToldLast'
    BY <2>2 DEF Together, Heard, ToldLast, PanelOwes
  <2>. QED  BY <2>4, <2>5, <2>6, <2>7 DEF Together
<1>9. CASE ToMain(t) \/ MainWaitEnds(t)
  <2>1. UNCHANGED <<flash, boot, main, ota>>
    BY <1>9 DEF ToMain, MainWaitEnds
  <2>2. CalmOta
    BY <2>1 DEF CalmOta
  <2>3. CASE Finishes(t)
    BY <2>1, <2>2, <2>3, FinishesCalmly, CalmIsTogether
  <2>4. CASE ToMain(t) /\ "main" \in need[t]
    <3>1. pc[t] = "between" /\ pc' = [pc EXCEPT ![t] = "telling"] /\ UNCHANGED need
      BY <2>4 DEF ToMain, At, Goes, job
    <3>2. Calm
      BY <2>4, <3>1, MovesCalmly DEF Busy, Late
    <3>3. CalmNeed
      BY <3>1 DEF CalmNeed
    <3>. QED  BY <2>1, <2>2, <3>2, <3>3, CalmIsTogether
  <2>. QED  BY <1>9, <2>3, <2>4 DEF ToMain, MainWaitEnds
<1>10. CASE TellsMain(t)
  <2>1. pc[t] = "telling" /\ pc' = [pc EXCEPT ![t] = "waiting"]
    BY <1>10 DEF TellsMain, At, Goes
  <2>2. UNCHANGED <<flash, boot, ota, need>>
    BY <1>10 DEF TellsMain, parts, session, job
  <2>3. \A u \in Sessions : pc'[u] = IF u = t THEN "waiting" ELSE pc[u]
    BY <2>1 DEF Types, AInv, Sessions, Procs
  <2>4. "main" \in need[t] /\ (PanelOwes => boot = "spare")
    BY <2>1 DEF Together, TellsLast, PanelFirst, Late
  <2>5. ToldLast'
    BY <2>2, <2>4 DEF ToldLast, PanelOwes
  <2>6. OnlyCard' /\ TellsLast' /\ PanelFirst'
    BY <2>2, <2>3 DEF Together, OnlyCard, TellsLast, PanelFirst, PanelOwes, Busy, Late
  <2>7. OneOpen' /\ Ahead' /\ ChosenIsCard'
    BY <2>2 DEF Together, OneOpen, Ahead, ChosenIsCard, Holds
  <2>8. Heard'
    BY <2>2 DEF Together, Heard, PanelOwes
  <2>. QED  BY <2>5, <2>6, <2>7, <2>8 DEF Together
<1>11. CASE MainRefuses(t)
  <2>1. UNCHANGED <<flash, boot, ota>> /\ pc[t] = "telling"
    BY <1>11 DEF MainRefuses, parts, At
  <2>5. PanelOwes => boot = "spare"
    BY <2>1 DEF Together, TellsLast, PanelFirst, Late
  <2>2. CalmOta
    BY <2>1 DEF CalmOta
  <2>3. CASE t \in written
    <3>1. pc' = [pc EXCEPT ![t] = "restarting"] /\ UNCHANGED need
      BY <1>11, <2>3 DEF MainRefuses, Goes, job
    <3>2. Calm
      BY <2>1, <3>1, MovesCalmly DEF Busy, Late
    <3>3. CalmNeed
      BY <3>1 DEF CalmNeed
    <3>. QED  BY <2>1, <2>2, <2>5, <3>2, <3>3, CalmIsTogether
  <2>4. CASE t \notin written
    BY <1>11, <2>1, <2>2, <2>4, <2>5, FailsCalmly, CalmIsTogether DEF MainRefuses
  <2>. QED  BY <2>3, <2>4
<1>. QED  BY <1>1, <1>2, <1>3, <1>4, <1>5, <1>6, <1>7, <1>8, <1>9, <1>10, <1>11 DEF Steps

(* An answer that was heard tells of the panel's image.                    *)
LEMMA HearsTogether ==
  ASSUME Types, Together, Straight', ~BlueScsi, NEW t \in Sessions, Hears(t),
         UNCHANGED <<build, card, running, flash, boot, main>>, Calm, CalmOta, pc[t] \notin Late
  PROVE  Together'
<1>1. PICK heard \in SUBSET {"panel", "main"} :
        /\ need' = [need EXCEPT ![t] = heard \cap Offered]
        /\ Marks("astray", ~BlueScsi /\ "panel" \in Offered \ heard)
  BY DEF Hears
<1>2. "panel" \notin Offered \ heard
  BY <1>1 DEF Marks, Straight, BlueScsi
<1>3. PanelOwes => "panel" \in Offered
  BY DEF PanelOwes, Offered
<1>4. need'[t] = heard \cap Offered /\ \A u \in Sessions \ {t} : need'[u] = need[u]
  BY <1>1 DEF Types
<1>5. Heard'
  BY <1>2, <1>3, <1>4 DEF Together, Heard, PanelOwes
<1>6. PanelFirst' /\ TellsLast'
  BY <1>4 DEF Together, PanelFirst, TellsLast, PanelOwes, Calm, Late
<1>7. OnlyCard' /\ OneOpen' /\ Ahead'
  BY DEF Together, OnlyCard, OneOpen, Ahead, Calm, CalmOta
<1>8. ChosenIsCard' /\ ToldLast'
  BY DEF Together, ChosenIsCard, ToldLast, PanelOwes, Holds
<1>. QED  BY <1>5, <1>6, <1>7, <1>8 DEF Together

LEMMA StaysCalmly ==
  ASSUME Together
  PROVE  /\ UNCHANGED pc => Calm
         /\ UNCHANGED ota => CalmOta
         /\ UNCHANGED need => CalmNeed
  BY DEF Together, TellsLast, Calm, CalmOta, CalmNeed

LEMMA UInvStep == UInv /\ [Next]_vars => UInv'
<1>. SUFFICES ASSUME UInv, [Next]_vars PROVE UInv'
  OBVIOUS
<1>1. Types' /\ UNCHANGED <<build, card>>
  BY TypesStep, BuildStays DEF UInv
<1>2. ~BlueScsi' => ~BlueScsi /\ Unified'
  BY <1>1, UnifiedStep DEF UInv, BlueScsi
<1>. SUFFICES ASSUME Straight' PROVE Together'
  BY <1>1, <1>2 DEF UInv
<1>3. Straight /\ ~BlueScsi
  BY <1>1, AstrayStays DEF Straight, BlueScsi
<1>. Types /\ Unified /\ Together
  BY <1>3 DEF UInv
<1>. USE DEF Unified
<1>4. CASE UNCHANGED vars
  <2>1. UNCHANGED <<card, flash, boot, running, main, pc, ota, need>>
    BY <1>4 DEF vars, board, parts, session, job
  <2>. QED  BY <2>1, StaysCalmly, CalmIsTogether
<1>5. ASSUME NEW t \in Sessions, Steps(t) PROVE Together'
  BY <1>1, <1>3, <1>5, StepKeeps, StepTogether
<1>6. CASE Learns
  <2>1. pc["web"] = "learning" /\ pc' = [pc EXCEPT !["web"] = "begin"] /\ Hears("web")
    BY <1>6 DEF Learns, At, Goes
  <2>2. UNCHANGED <<running, flash, boot, main, ota>>
    BY <1>6 DEF Learns, parts
  <2>3. Calm /\ "web" \in Sessions
    BY <2>1, MovesCalmly DEF Busy, Late, Sessions
  <2>. QED  BY <1>1, <1>3, <2>1, <2>2, <2>3, HearsTogether, StaysCalmly DEF Late
<1>7. CASE OpensStatus
  <2>1. UNCHANGED <<running, flash, boot, main, pc>> /\ Hears("panel")
    BY <1>7 DEF OpensStatus, parts
  <2>2. pc["panel"] = "off" /\ "panel" \in Sessions
    BY <1>7 DEF OpensStatus, Sessions
  <2>3. ota' = [ota EXCEPT !["panel"] = Fresh]
    BY <1>7 DEF OpensStatus
  <2>4. CalmOta
    BY <2>3 DEF CalmOta, Fresh, Types
  <2>. QED  BY <1>1, <1>3, <2>1, <2>2, <2>4, HearsTogether, StaysCalmly DEF Late
<1>8. CASE Shown
  <2>1. UNCHANGED <<running, flash, boot, main, ota, need>> /\ pc' = [pc EXCEPT !["panel"] = "off"]
    BY <1>8 DEF Shown, parts, Forgets, Goes
  <2>2. Calm
    BY <2>1, MovesCalmly DEF Busy, Late, Sessions
  <2>. QED  BY <1>1, <2>1, <2>2, StaysCalmly, CalmIsTogether
<1>9. CASE ButtonSteps \/ TriggersPanel \/ TriggersMain \/ AsksPanelUpdate \/ AsksMainUpdate
           \/ BeginsUpload \/ WritesUpload \/ UploadFails \/ EndsUpload \/ RepliesUpload
  BY <1>3, <1>9 DEF ButtonSteps, CreatesTask, MainShown, TriggersPanel, TriggersMain,
     AsksPanelUpdate, AsksMainUpdate, BeginsUpload, WritesUpload, UploadFails, EndsUpload,
     RepliesUpload, HttpdRuns, At
<1>10. CASE LeavesStatus \/ ReadsStatus
  <2>1. UNCHANGED <<running, flash, boot, main, pc, ota, need>>
    BY <1>10 DEF LeavesStatus, ReadsStatus, parts, session, job
  <2>. QED  BY <1>1, <2>1, StaysCalmly, CalmIsTogether
<1>11. CASE TriggersSystem
  <2>1. UNCHANGED <<running, flash, boot, main, ota, need>>
    BY <1>11 DEF TriggersSystem, parts, session, job
  <2>2. PICK l \in {"begin", "off"} : pc' = [pc EXCEPT !["panel"] = l]
    BY <1>11 DEF TriggersSystem, Goes
  <2>3. Calm
    BY <2>2, MovesCalmly DEF Busy, Late, Sessions
  <2>. QED  BY <1>1, <2>1, <2>3, StaysCalmly, CalmIsTogether
<1>12. CASE AsksSystemUpdate
  <2>1. UNCHANGED <<running, flash, boot, main, ota, need>>
    BY <1>12 DEF AsksSystemUpdate, parts, session, job
  <2>2. pc' = [pc EXCEPT !["web"] = "learning"]
    BY <1>12 DEF AsksSystemUpdate, Goes
  <2>3. Calm
    BY <2>2, MovesCalmly DEF Busy, Late, Sessions
  <2>. QED  BY <1>1, <2>1, <2>3, StaysCalmly, CalmIsTogether
<1>13. CASE AsksCheck \/ CheckAnswered
  <2>1. UNCHANGED <<running, flash, boot, main, need>>
    BY <1>13 DEF AsksCheck, CheckAnswered, parts
  <2>2. PICK l \in {"checking", "idle"} : pc' = [pc EXCEPT !["httpd"] = l]
    BY <1>13 DEF AsksCheck, CheckAnswered, Goes
  <2>3. \A u \in Sessions : pc'[u] = pc[u]
    BY <2>2 DEF Sessions, Types, AInv
  <2>4. Calm
    BY <2>3 DEF Calm, Together, TellsLast
  <2>5. ota'["panel"] = ota["panel"] /\ (~ota'["web"].open \/
          (ota'["web"].open = ota["web"].open /\ ota'["web"].chunk = ota["web"].chunk))
    BY <1>13 DEF AsksCheck, CheckAnswered, Fresh, Types, Kinds, Sessions
  <2>6. CalmOta
    BY <2>5 DEF CalmOta, Sessions
  <2>. QED  BY <1>1, <2>1, <2>4, <2>6, StaysCalmly, CalmIsTogether
<1>14. CASE Restarts
  <2>1. pc' = Resting /\ need' = [t \in Sessions |-> {}] /\ boot' = "runs" /\ UNCHANGED main
    BY <1>14 DEF Restarts, Booted
  <2>2. ota' = [t \in Sessions |-> [Fresh EXCEPT !.state = "unset"]]
    BY <1>14 DEF Restarts, Booted
  <2>3. \A t \in Sessions : ota'[t].open = FALSE
    BY <2>2 DEF Fresh
  <2>4. OnlyCard' /\ TellsLast' /\ PanelFirst'
    BY <2>1 DEF OnlyCard, TellsLast, PanelFirst, Resting, Sessions, Busy, Late
  <2>5. OneOpen' /\ Ahead'
    BY <2>3 DEF OneOpen, Ahead
  <2>6. Heard' /\ ChosenIsCard'
    BY <2>1 DEF Heard, ChosenIsCard
  <2>7. ToldLast'
    <3>1. CASE boot = "spare"
      <4>1. flash = Holds("card") /\ Whole
        BY <3>1 DEF Together, ChosenIsCard, Whole
      <4>2. 1 \in 1..Chunks
        BY ChunksAssumption
      <4>3. running' = "card"
        BY <1>14, <3>1, <4>1, <4>2 DEF Restarts, Holds
      <4>. QED  BY <4>3 DEF ToldLast, PanelOwes
    <3>2. CASE boot # "spare"
      BY <1>1, <1>14, <2>1, <3>2 DEF Together, Restarts, ToldLast, PanelOwes
    <3>. QED  BY <3>1, <3>2
  <2>. QED  BY <2>4, <2>5, <2>6, <2>7 DEF Together
<1>15. {"panel", "web"} = Sessions
  BY DEF Sessions
<1>. QED  BY <1>4, <1>5, <1>6, <1>7, <1>8, <1>9, <1>10, <1>11, <1>12, <1>13, <1>14, <1>15
          DEF Next, WebSteps, PanelSteps, HttpdSteps, User

(* The unified update (main.c, web_server.cpp) never leaves an updated     *)
(* main board beside an old panel, unless an answer about the panel's      *)
(* image was missed or two sessions overlapped.                            *)
THEOREM BoardsMatch == Spec => []VersionsMatch
<1>1. UInv => VersionsMatch
  BY DEF UInv, Together, ToldLast, PanelOwes, Straight, VersionsMatch
<1>. QED  BY <1>1, UInvInit, UInvStep, PTL DEF Spec

-----------------------------------------------------------------------------
(* The types, and the bounds of the counters, for both products.  A task   *)
(* that tries a chunk has an attempt left, and one that reads, hashes or   *)
(* writes has a chunk; the panel's task is only created by a button task   *)
(* that finds none, because nothing leaves the update's screen.            *)
Trying == {"process", "reading", "delay", "hashing", "writing"}
Bounded(t) ==
  /\ ota[t].chunk \in 1 .. Chunks + 1 /\ ota[t].retries \in 0 .. MaxRetries
  /\ pc[t] \in {"reading", "hashing", "writing"} => ota[t].chunk <= Chunks
  /\ pc[t] \in Trying => ota[t].retries < MaxRetries
Counters ==
  /\ \A t \in Sessions : Bounded(t)
  /\ pc["button"] = "starting" => ota["panel"].retries < MaxRetries
OnScreen ==
  /\ pc["panel"] # "off" \/ pc["button"] = "starting" => screen = "update"
  /\ pc["button"] \in {"starting", "showing"} => pc["panel"] = "off"
Plain ==
  /\ main \in {"old", "told"} /\ boot \in {"runs", "spare"}
  /\ running \in {"first", "card", "posted"} /\ written \subseteq Sessions
  /\ got \in 0 .. Chunks /\ restart \in BOOLEAN
  /\ phase \in {"idle", "panel", "mainboard", "waiting", "success", "error"}
  /\ screen \in {"settings", "main_menu", "status", "update"}
TInv == Types /\ Counters /\ OnScreen /\ Plain /\ buffer \in 0 .. Chunks

LEMMA BoundsAre ==
  /\ Chunks \in Nat /\ Chunks >= 1 /\ MaxRetries \in Nat /\ MaxRetries >= 1
  /\ 1 \in 1 .. Chunks /\ 1 \in 1 .. Chunks + 1 /\ 0 \in 0 .. MaxRetries /\ 0 \in 0 .. Chunks
<1>1. Chunks \in Nat /\ Chunks >= 1 /\ MaxRetries \in Nat /\ MaxRetries >= 1
  BY ChunksAssumption
<1>. QED  BY <1>1

(* What a step of an update task leaves alone.                             *)
LEMMA StepFrame ==
  ASSUME Types, NEW t \in Sessions, Steps(t)
  PROVE  /\ \A u \in Sessions \ {t} : ota'[u] = ota[u] /\ pc'[u] = pc[u]
         /\ pc'["button"] = pc["button"]
<1>1. \E l \in Places : pc' = [pc EXCEPT ![t] = l]
  BY OneMoves
<1>2. \A u \in Sessions \ {t} : pc'[u] = pc[u]
  BY <1>1 DEF Types, AInv, Sessions, Procs
<1>3. pc'["button"] = pc["button"]
  BY <1>1 DEF Types, AInv, Sessions, Procs
<1>4. \A u \in Sessions \ {t} : ota'[u] = ota[u]
  BY DEF Types, Steps, AsksChunk, ReadsChunk, ReadFails, RetryDelayEnds, HashesChunk, WritesChunk,
     Verifies, Chooses, BeginsPanel, Started, NotStarted, SkipsPanel, ToMain, TellsMain,
     MainRefuses, MainWaitEnds, Broken, session
<1>. QED  BY <1>2, <1>3, <1>4

LEMMA BoundedStays ==
  ASSUME NEW t \in Sessions, Bounded(t), ota'[t].chunk = ota[t].chunk,
         ota'[t].retries = ota[t].retries, pc'[t] = pc[t] \/ pc'[t] \notin Trying
  PROVE  Bounded(t)'
  BY DEF Bounded, Trying

LEMMA BoundedFresh ==
  ASSUME NEW t \in Sessions, ota'[t].chunk = 1, ota'[t].retries = 0
  PROVE  Bounded(t)' /\ ota'[t].retries < MaxRetries
  BY BoundsAre DEF Bounded

LEMMA BrokenStays ==
  ASSUME Types, NEW t \in Sessions, Bounded(t), Broken(t)
  PROVE  Bounded(t)'
<1>1. ota'[t].chunk = ota[t].chunk /\ ota'[t].retries = ota[t].retries
  BY DEF Broken, Types, Kinds
<1>2. pc'[t] \notin Trying
  BY FailsNeeds DEF Broken, Trying
<1>. QED  BY <1>1, <1>2, BoundedStays

LEMMA StepBounded ==
  ASSUME Types, NEW t \in Sessions, Bounded(t), Steps(t)
  PROVE  Bounded(t)'
<1>0. /\ ota[t].chunk \in Nat /\ ota[t].retries \in Nat /\ t \in Procs /\ ota[t] \in Kinds
      /\ \A l : Goes(t, l) => pc'[t] = l
  BY DEF Types, Kinds, AInv, Sessions, Procs, Goes
<1>1. CASE AsksChunk(t)
  <2>1. ota' = ota /\ pc[t] = "process" /\ pc'[t] = "reading" /\ ota[t].chunk <= Chunks
    BY <1>0, <1>1 DEF AsksChunk, Processes, At, session
  <2>. QED  BY <2>1 DEF Bounded, Trying
<1>2. CASE ReadsChunk(t) \/ RetryDelayEnds(t)
  <2>1. /\ ota' = ota /\ pc[t] \in Trying
        /\ \/ pc[t] = "reading" /\ pc'[t] = "hashing"
           \/ pc'[t] = "process"
    BY <1>0, <1>2 DEF ReadsChunk, RetryDelayEnds, At, session, Trying
  <2>. QED  BY <2>1 DEF Bounded, Trying
<1>3. CASE ReadFails(t)
  <2>1. pc[t] = "reading" /\ ota[t].retries < MaxRetries
    BY <1>3 DEF ReadFails, At, Bounded, Trying
  <2>2. /\ ota'[t].chunk = ota[t].chunk /\ ota'[t].retries = ota[t].retries + 1
    BY <1>0, <1>3 DEF ReadFails, Retried, Types, Kinds
  <2>3. \/ pc'[t] \notin Trying \cup {"reading", "hashing", "writing"}
        \/ pc'[t] = "delay" /\ ota[t].retries + 1 < MaxRetries
    <3>1. CASE GivesUp(t)
      BY <1>3, <3>1, FailsNeeds DEF ReadFails, Trying
    <3>2. CASE ~GivesUp(t)
      <4>1. ota[t].retries + 1 < MaxRetries
        BY <1>0, <3>2, BoundsAre DEF GivesUp, Retried
      <4>. QED  BY <1>0, <1>3, <3>2, <4>1 DEF ReadFails
    <3>. QED  BY <3>1, <3>2
  <2>4. ota[t].retries + 1 \in 0 .. MaxRetries
    BY <1>0, <2>1, BoundsAre
  <2>. QED  BY <2>2, <2>3, <2>4 DEF Bounded, Trying
<1>4. CASE HashesChunk(t)
  <2>1. ota'[t].chunk = ota[t].chunk /\ ota'[t].retries = ota[t].retries
    BY <1>4 DEF HashesChunk, Types, Kinds
  <2>2. pc[t] = "hashing" /\ pc'[t] = "writing"
    BY <1>0, <1>4 DEF HashesChunk, At
  <2>. QED  BY <2>1, <2>2 DEF Bounded, Trying
<1>5. CASE WritesChunk(t)
  <2>1. CASE ota[t].open
    <3>1. /\ ota'[t].chunk = ota[t].chunk + 1 /\ ota'[t].retries = 0 /\ pc'[t] = "process"
      BY <1>0, <1>5, <2>1 DEF WritesChunk, Types, Kinds
    <3>2. ota[t].chunk <= Chunks
      BY <1>5 DEF WritesChunk, At, Bounded
    <3>3. ota[t].chunk + 1 \in 1 .. Chunks + 1 /\ 0 < MaxRetries
      BY <1>0, <3>2, BoundsAre
    <3>. QED  BY <3>1, <3>3, BoundsAre DEF Bounded
  <2>2. CASE ~ota[t].open
    BY <1>5, <2>2, BrokenStays DEF WritesChunk
  <2>. QED  BY <2>1, <2>2
<1>6. CASE Verifies(t)
  <2>1. CASE ota[t].sha = "good" /\ Whole
    <3>1. ota'[t].chunk = ota[t].chunk /\ ota'[t].retries = ota[t].retries /\ pc'[t] = "choosing"
      BY <1>0, <1>6, <2>1 DEF Verifies, Types, Kinds
    <3>. QED  BY <3>1, BoundedStays DEF Trying
  <2>2. CASE ~(ota[t].sha = "good" /\ Whole)
    BY <1>6, <2>2, BrokenStays DEF Verifies
  <2>. QED  BY <2>1, <2>2
<1>7. CASE Chooses(t)
  <2>1. CASE Whole
    <3>1. ota'[t].chunk = ota[t].chunk /\ ota'[t].retries = ota[t].retries
      BY <1>7, <2>1 DEF Chooses, Types, Kinds
    <3>2. pc'[t] \in {"restarting", "between"}
      BY <1>0, <1>7, <2>1 DEF Chooses
    <3>. QED  BY <3>1, <3>2, BoundedStays DEF Trying
  <2>2. CASE ~Whole
    BY <1>7, <2>2, BrokenStays DEF Chooses
  <2>. QED  BY <2>1, <2>2
<1>8. CASE BeginsPanel(t)
  <2>1. CASE Started(t)
    <3>1. ota'[t].chunk = 1 /\ ota'[t].retries = 0
      BY <2>1 DEF Started, Types
    <3>. QED  BY <3>1, BoundedFresh
  <2>2. CASE NotStarted(t) /\ Fails(t)
    <3>1. ota'[t].chunk = ota[t].chunk /\ ota'[t].retries = ota[t].retries
      BY <2>2 DEF NotStarted, Types, Kinds
    <3>. QED  BY <2>2, <3>1, FailsNeeds, BoundedStays DEF Trying
  <2>. QED  BY <1>8, <2>1, <2>2 DEF BeginsPanel
<1>9. CASE SkipsPanel(t) \/ TellsMain(t) \/ MainRefuses(t)
  <2>1. ota' = ota
    BY <1>9 DEF SkipsPanel, TellsMain, MainRefuses, session
  <2>2. pc'[t] \notin Trying
    BY <1>0, <1>9, FailsNeeds DEF SkipsPanel, TellsMain, MainRefuses, Trying
  <2>. QED  BY <2>1, <2>2, BoundedStays
<1>10. CASE ToMain(t) \/ MainWaitEnds(t)
  <2>1. ota' = ota
    BY <1>10 DEF ToMain, MainWaitEnds
  <2>2. pc'[t] \notin Trying
    BY <1>0, <1>10 DEF ToMain, MainWaitEnds, Finishes, Trying
  <2>. QED  BY <2>1, <2>2, BoundedStays
<1>. QED  BY <1>1, <1>2, <1>3, <1>4, <1>5, <1>6, <1>7, <1>8, <1>9, <1>10 DEF Steps

(* The update's screen ignores the buttons.                                *)
LEMMA OnScreenStep ==
  ASSUME Types, OnScreen, [Next]_vars
  PROVE  OnScreen'
<1>. pc \in [Procs -> Places] /\ {"panel", "web", "button", "httpd"} = Procs
  BY DEF Types, AInv, Procs
<1>0. ASSUME pc'["panel"] = pc["panel"], pc'["button"] = pc["button"],
             (pc["panel"] = "off" /\ pc["button"] # "starting") \/ screen' = screen
      PROVE  OnScreen'
  BY <1>0 DEF OnScreen
<1>1. ASSUME NEW t \in Sessions, Steps(t)
      PROVE  OnScreen'
  <2>1. CASE t = "web"
    <3>1. pc'["panel"] = pc["panel"] /\ pc'["button"] = pc["button"]
      BY <1>1, <2>1, StepFrame DEF Sessions
    <3>2. screen' = screen
      BY <1>1, <2>1 DEF Steps, AsksChunk, ReadsChunk, ReadFails, RetryDelayEnds, HashesChunk,
         WritesChunk, Verifies, Chooses, BeginsPanel, SkipsPanel, ToMain, TellsMain, MainRefuses,
         MainWaitEnds, Broken, Fails
    <3>. QED  BY <1>0, <3>1, <3>2
  <2>2. CASE t = "panel"
    <3>1. pc["panel"] # "off" /\ pc'["button"] = pc["button"]
      BY <1>1, <2>2, OneMoves, StepFrame
    <3>2. screen' = screen \/ pc'["panel"] = "off"
      <4>1. ASSUME Fails("panel") PROVE screen' = screen \/ pc'["panel"] = "off"
        BY <4>1 DEF Fails, Goes
      <4>. QED  BY <1>1, <2>2, <4>1
         DEF Steps, AsksChunk, ReadsChunk, ReadFails, RetryDelayEnds, HashesChunk,
             WritesChunk, Verifies, Chooses, BeginsPanel, SkipsPanel, ToMain, TellsMain,
             MainRefuses, MainWaitEnds, Broken
    <3>. QED  BY <3>1, <3>2 DEF OnScreen
  <2>. QED  BY <2>1, <2>2 DEF Sessions
<1>2. CASE Learns \/ AsksPanelUpdate \/ AsksSystemUpdate \/ HttpdSteps \/ AsksCheck \/ BeginsUpload
           \/ ReadsStatus \/ AsksMainUpdate \/ UNCHANGED vars
  <2>1. screen' = screen
    BY <1>2 DEF Learns, AsksPanelUpdate, AsksSystemUpdate, HttpdSteps, CheckAnswered, WritesUpload,
       UploadFails, EndsUpload, RepliesUpload, AsksCheck, BeginsUpload, ReadsStatus,
       AsksMainUpdate, vars
  <2>2. pc'["panel"] = pc["panel"] /\ pc'["button"] = pc["button"]
    BY <1>2 DEF Learns, AsksPanelUpdate, AsksSystemUpdate, HttpdSteps, CheckAnswered, WritesUpload,
       UploadFails, EndsUpload, RepliesUpload, AsksCheck, BeginsUpload, ReadsStatus,
       AsksMainUpdate, vars, Goes
  <2>. QED  BY <1>0, <2>1, <2>2
<1>3. CASE Shown
  <2>1. pc["panel"] = "showing" /\ pc' = [pc EXCEPT !["panel"] = "off"]
    BY <1>3 DEF Shown, At, Goes
  <2>. QED  BY <2>1 DEF OnScreen
<1>4. CASE CreatesTask
  <2>1. /\ pc["button"] = "starting" /\ pc'["button"] = "idle" /\ screen' = screen
    BY <1>4 DEF CreatesTask, At
  <2>. QED  BY <2>1 DEF OnScreen
<1>5. CASE MainShown
  <2>1. pc["button"] = "showing" /\ pc' = [pc EXCEPT !["button"] = "idle"]
    BY <1>5 DEF MainShown, At, Goes
  <2>. QED  BY <2>1 DEF OnScreen
<1>6. CASE OpensStatus \/ LeavesStatus
  <2>1. pc["button"] = "idle" /\ screen # "update" /\ pc' = pc
    BY <1>6 DEF OpensStatus, LeavesStatus, At, session
  <2>. QED  BY <2>1 DEF OnScreen
<1>7. CASE TriggersPanel
  <2>1. pc["panel"] = "off" /\ pc["button"] = "idle"
    BY <1>7 DEF TriggersPanel, At, OnScreen
  <2>2. \/ pc' = [pc EXCEPT !["button"] = "starting"] /\ screen' = "update"
        \/ pc' = pc
    BY <1>7 DEF TriggersPanel, Goes
  <2>. QED  BY <2>1, <2>2 DEF OnScreen
<1>8. CASE TriggersMain
  <2>1. pc["panel"] = "off" /\ pc' = [pc EXCEPT !["button"] = "showing"]
    BY <1>8 DEF TriggersMain, At, OnScreen, Goes
  <2>. QED  BY <2>1 DEF OnScreen
<1>9. CASE TriggersSystem
  <2>1. pc["button"] = "idle" /\ screen' = "update" /\ pc'["button"] = pc["button"]
    BY <1>9 DEF TriggersSystem, At, Goes
  <2>. QED  BY <2>1 DEF OnScreen
<1>10. CASE Restarts
  BY <1>10 DEF Restarts, Booted, Resting, OnScreen
<1>11. {"panel", "web"} = Sessions
  BY DEF Sessions
<1>. QED  BY <1>1, <1>2, <1>3, <1>4, <1>5, <1>6, <1>7, <1>8, <1>9, <1>10, <1>11
          DEF Next, WebSteps, PanelSteps, ButtonSteps, User

LEMMA CountersStep ==
  ASSUME Types, OnScreen, Counters, [Next]_vars
  PROVE  Counters'
<1>. pc \in [Procs -> Places] /\ ota \in [Sessions -> Kinds] /\ Sessions \subseteq Procs
     /\ {"panel", "web"} = Sessions /\ Procs = {"panel", "web", "button", "httpd"}
  BY DEF Types, AInv, Procs, Sessions
<1>1. ASSUME NEW t \in Sessions, Steps(t)
      PROVE  Counters'
  <2>1. Bounded(t)'
    BY <1>1, StepBounded DEF Counters
  <2>2. \A u \in Sessions \ {t} : Bounded(u)'
    BY <1>1, StepFrame, BoundedStays DEF Counters
  <2>3. pc'["button"] = "starting" => ota'["panel"].retries < MaxRetries
    BY <1>1, StepFrame, OneMoves DEF Counters, OnScreen
  <2>. QED  BY <2>1, <2>2, <2>3 DEF Counters
<1>2. ASSUME UNCHANGED ota, \A t \in Sessions : pc'[t] = pc[t] \/ pc'[t] \notin Trying,
             pc'["button"] = "starting" => pc["button"] = "starting"
      PROVE  Counters'
  BY <1>2, BoundedStays DEF Counters
<1>3. CASE Learns \/ Shown \/ TriggersSystem \/ AsksSystemUpdate
  <2>1. ota' = ota
    BY <1>3 DEF Learns, Shown, TriggersSystem, AsksSystemUpdate, session
  <2>2. \E t \in Sessions, l \in Places \ Trying : pc' = [pc EXCEPT ![t] = l]
    BY <1>3 DEF Learns, Shown, TriggersSystem, AsksSystemUpdate, Goes, Places, Trying
  <2>. QED  BY <1>2, <2>1, <2>2
<1>4. CASE MainShown \/ TriggersMain \/ WritesUpload \/ UploadFails \/ EndsUpload \/ RepliesUpload
           \/ BeginsUpload
  <2>1. ota' = ota
    BY <1>4 DEF MainShown, TriggersMain, WritesUpload, UploadFails, EndsUpload, RepliesUpload,
                BeginsUpload, session
  <2>2. \E t \in {"button", "httpd"}, l \in Places \ {"starting"} : pc' \in {pc, [pc EXCEPT ![t] = l]}
    BY <1>4 DEF MainShown, TriggersMain, WritesUpload, UploadFails, EndsUpload, RepliesUpload,
                BeginsUpload, Goes, Places
  <2>. QED  BY <1>2, <2>1, <2>2
<1>5. CASE LeavesStatus \/ ReadsStatus \/ AsksMainUpdate \/ UNCHANGED vars
  <2>1. UNCHANGED <<ota, pc>>
    BY <1>5 DEF LeavesStatus, ReadsStatus, AsksMainUpdate, vars, session
  <2>. QED  BY <1>2, <2>1
<1>6. CASE CreatesTask
  <2>1. /\ ota' = ota /\ pc["button"] = "starting" /\ pc'["button"] = "idle"
        /\ pc'["web"] = pc["web"] /\ pc'["panel"] \in {"process", "off"}
    BY <1>6 DEF CreatesTask, At, session
  <2>2. Bounded("web")'
    BY <2>1, BoundedStays DEF Counters
  <2>3. Bounded("panel")'
    <3>1. ota["panel"].retries < MaxRetries
      BY <2>1 DEF Counters
    <3>. QED  BY <2>1, <3>1 DEF Counters, Bounded, Trying
  <2>. QED  BY <2>1, <2>2, <2>3 DEF Counters
<1>7. CASE OpensStatus
  <2>1. pc' = pc /\ pc["button"] = "idle" /\ ota' = [ota EXCEPT !["panel"] = Fresh]
    BY <1>7 DEF OpensStatus, At
  <2>2. Bounded("web")'
    BY <2>1, BoundedStays DEF Counters
  <2>3. Bounded("panel")'
    BY <2>1, BoundedFresh DEF Fresh
  <2>. QED  BY <2>1, <2>2, <2>3 DEF Counters
<1>8. CASE TriggersPanel
  <2>1. pc'["panel"] = pc["panel"] /\ pc'["web"] = pc["web"]
    BY <1>8 DEF TriggersPanel, Goes
  <2>2. CASE Started("panel")
    <3>1. ota'["panel"].chunk = 1 /\ ota'["panel"].retries = 0 /\ ota'["web"] = ota["web"]
      BY <2>2 DEF Started
    <3>. QED  BY <2>1, <3>1, BoundedFresh, BoundedStays DEF Counters
  <2>3. CASE NotStarted("panel") /\ UNCHANGED <<pc, screen>>
    <3>1. /\ ota'["panel"].chunk = ota["panel"].chunk /\ ota'["panel"].retries = ota["panel"].retries
          /\ ota'["web"] = ota["web"]
      BY <2>3 DEF NotStarted, Kinds
    <3>. QED  BY <2>3, <3>1, BoundedStays DEF Counters
  <2>. QED  BY <1>8, <2>2, <2>3 DEF TriggersPanel
<1>9. CASE AsksCheck
  <2>1. pc'["panel"] = pc["panel"] /\ pc'["web"] = pc["web"] /\ pc'["button"] = pc["button"]
    BY <1>9 DEF AsksCheck, Goes
  <2>2. ota'["web"].chunk = 1 /\ ota'["web"].retries = 0 /\ ota'["panel"] = ota["panel"]
    BY <1>9 DEF AsksCheck, Fresh
  <2>. QED  BY <2>1, <2>2, BoundedFresh, BoundedStays DEF Counters
<1>10. CASE CheckAnswered
  <2>1. pc'["panel"] = pc["panel"] /\ pc'["web"] = pc["web"] /\ pc'["button"] = pc["button"]
    BY <1>10 DEF CheckAnswered, Goes
  <2>2. /\ ota'["web"].chunk = ota["web"].chunk /\ ota'["web"].retries = ota["web"].retries
        /\ ota'["panel"] = ota["panel"]
    BY <1>10 DEF CheckAnswered, Kinds
  <2>. QED  BY <2>1, <2>2, BoundedStays DEF Counters
<1>11. CASE AsksPanelUpdate
  <2>1. pc'["panel"] = pc["panel"] /\ pc'["button"] = pc["button"]
    BY <1>11 DEF AsksPanelUpdate, Goes
  <2>2. CASE Started("web")
    <3>1. ota'["web"].chunk = 1 /\ ota'["web"].retries = 0 /\ ota'["panel"] = ota["panel"]
      BY <2>2 DEF Started
    <3>. QED  BY <2>1, <3>1, BoundedFresh, BoundedStays DEF Counters
  <2>3. CASE UNCHANGED <<ota, pc>>
    BY <1>2, <2>3
  <2>4. CASE NotStarted("web") /\ UNCHANGED pc
    <3>1. /\ ota'["web"].chunk = ota["web"].chunk /\ ota'["web"].retries = ota["web"].retries
          /\ ota'["panel"] = ota["panel"]
      BY <2>4 DEF NotStarted, Kinds
    <3>. QED  BY <2>4, <3>1, BoundedStays DEF Counters
  <2>. QED  BY <1>11, <2>2, <2>3, <2>4 DEF AsksPanelUpdate
<1>12. CASE Restarts
  <2>1. ota' = [t \in Sessions |-> [Fresh EXCEPT !.state = "unset"]] /\ pc'["button"] = "idle"
    BY <1>12 DEF Restarts, Booted, Resting
  <2>2. \A t \in Sessions : ota'[t].chunk = 1 /\ ota'[t].retries = 0
    BY <2>1 DEF Fresh
  <2>. QED  BY <2>1, <2>2, BoundedFresh DEF Counters
<1>. QED  BY <1>1, <1>3, <1>4, <1>5, <1>6, <1>7, <1>8, <1>9, <1>10, <1>11, <1>12
          DEF Next, WebSteps, PanelSteps, ButtonSteps, HttpdSteps, User

LEMMA FailsPlain ==
  ASSUME Plain, NEW t \in Sessions, Fails(t)
  PROVE  /\ phase' \in {"idle", "panel", "mainboard", "waiting", "success", "error"}
         /\ screen' \in {"settings", "main_menu", "status", "update"}
         /\ written' \subseteq Sessions
<1>1. phase' = phase \/ phase' = "error"
  BY DEF Fails
<1>2. screen' = screen \/ screen' = "main_menu"
  BY DEF Fails
<1>3. written' = written \ {t}
  BY DEF Fails, Forgets
<1>. QED  BY <1>1, <1>2, <1>3 DEF Plain

LEMMA FinishesPlain ==
  ASSUME Plain, NEW t \in Sessions, Finishes(t)
  PROVE  /\ phase' \in {"idle", "panel", "mainboard", "waiting", "success", "error"}
         /\ written' \subseteq Sessions /\ restart' \in BOOLEAN
<1>1. phase' = phase \/ phase' = "success"
  BY DEF Finishes
<1>2. written' = written \/ written' = written \ {t}
  BY DEF Finishes, Forgets, job
<1>3. restart' = restart \/ restart' = (restart \/ t \in written)
  BY DEF Finishes
<1>. QED  BY <1>1, <1>2, <1>3 DEF Plain

LEMMA StepPlain ==
  ASSUME Plain, NEW t \in Sessions, Steps(t)
  PROVE  Plain'
<1>1. CASE AsksChunk(t) \/ ReadsChunk(t) \/ RetryDelayEnds(t) \/ HashesChunk(t) \/ SkipsPanel(t)
  BY <1>1 DEF AsksChunk, ReadsChunk, RetryDelayEnds, HashesChunk, SkipsPanel, parts, session, job,
              Plain
<1>2. CASE ReadFails(t)
  <2>1. UNCHANGED <<main, boot, running, got, restart>>
    BY <1>2 DEF ReadFails, parts
  <2>2. Fails(t) \/ UNCHANGED <<phase, screen, written>>
    BY <1>2 DEF ReadFails, job
  <2>. QED  BY <2>1, <2>2, FailsPlain DEF Plain
<1>3. CASE WritesChunk(t)
  <2>1. UNCHANGED <<main, boot, running, got, restart>>
    BY <1>3 DEF WritesChunk
  <2>2. Fails(t) \/ UNCHANGED <<phase, screen, written>>
    BY <1>3 DEF WritesChunk, Broken, job
  <2>. QED  BY <2>1, <2>2, FailsPlain DEF Plain
<1>4. CASE Verifies(t)
  <2>1. UNCHANGED <<main, boot, running, got, restart>>
    BY <1>4 DEF Verifies, parts
  <2>2. Fails(t) \/ UNCHANGED <<phase, screen, written>>
    BY <1>4 DEF Verifies, Broken, job
  <2>. QED  BY <2>1, <2>2, FailsPlain DEF Plain
<1>5. CASE Chooses(t)
  <2>1. UNCHANGED <<main, running, got, restart>>
    BY <1>5 DEF Chooses
  <2>2. \/ Fails(t) /\ boot' = boot
        \/ boot' = "spare" /\ UNCHANGED <<phase, screen>> /\ written' = written \cup {t}
    BY <1>5 DEF Chooses, Broken
  <2>. QED  BY <2>1, <2>2, FailsPlain DEF Plain
<1>6. CASE BeginsPanel(t)
  <2>1. UNCHANGED <<main, boot, running, got, restart>>
    BY <1>6 DEF BeginsPanel
  <2>2. Fails(t) \/ UNCHANGED <<phase, screen, written>>
    BY <1>6 DEF BeginsPanel, job
  <2>. QED  BY <2>1, <2>2, FailsPlain DEF Plain
<1>7. CASE ToMain(t)
  <2>1. UNCHANGED <<main, boot, running, got, screen>>
    BY <1>7 DEF ToMain
  <2>2. \/ Finishes(t)
        \/ UNCHANGED <<restart, written>> /\ phase' \in {phase, "mainboard"}
    BY <1>7 DEF ToMain, job
  <2>. QED  BY <2>1, <2>2, FinishesPlain DEF Plain
<1>8. CASE TellsMain(t)
  BY <1>8 DEF TellsMain, parts, session, job, Plain
<1>9. CASE MainRefuses(t)
  <2>1. UNCHANGED <<boot, running, got, restart>> /\ main' \in {main, "told"}
    BY <1>9 DEF MainRefuses, parts
  <2>2. Fails(t) \/ UNCHANGED <<phase, screen, written>>
    BY <1>9 DEF MainRefuses, job
  <2>. QED  BY <2>1, <2>2, FailsPlain DEF Plain
<1>10. CASE MainWaitEnds(t)
  BY <1>10, FinishesPlain DEF MainWaitEnds, Plain
<1>. QED  BY <1>1, <1>2, <1>3, <1>4, <1>5, <1>6, <1>7, <1>8, <1>9, <1>10 DEF Steps

LEMMA PlainStep ==
  ASSUME Types, Plain, [Next]_vars
  PROVE  Plain'
<1>1. CASE Learns \/ CreatesTask \/ LeavesStatus \/ TriggersSystem \/ AsksSystemUpdate
           \/ ReadsStatus \/ MainShown \/ OpensStatus \/ Shown
  BY <1>1 DEF Learns, CreatesTask, LeavesStatus, TriggersSystem, AsksSystemUpdate, ReadsStatus,
              MainShown, OpensStatus, Shown, Forgets, parts, session, job, Plain
<1>2. CASE AsksCheck \/ CheckAnswered \/ AsksMainUpdate \/ TriggersMain \/ UNCHANGED vars
  BY <1>2 DEF AsksCheck, CheckAnswered, AsksMainUpdate, TriggersMain, vars, parts, session, job,
              Plain
<1>3. CASE TriggersPanel \/ AsksPanelUpdate
  BY <1>3 DEF TriggersPanel, AsksPanelUpdate, Plain
<1>4. CASE WritesUpload
  <2>1. got + 1 \in 0 .. Chunks
    BY <1>4, BoundsAre DEF WritesUpload, Plain
  <2>. QED  BY <1>4, <2>1 DEF WritesUpload, session, job, Plain
<1>5. CASE BeginsUpload \/ UploadFails \/ EndsUpload
  BY <1>5, BoundsAre DEF BeginsUpload, UploadFails, EndsUpload, parts, session, job, Plain
<1>6. CASE RepliesUpload
  BY <1>6 DEF RepliesUpload, session, job, Plain
<1>7. CASE Restarts
  <2>1. running' \in {"first", "card", "posted"}
    <3>1. CASE boot = "spare" /\ Whole
      <4>1. PICK image \in {"first", "card", "posted"} : flash = Holds(image)
        BY <3>1 DEF Whole
      <4>2. flash[1] = image
        BY <4>1, BoundsAre DEF Holds
      <4>. QED  BY <1>7, <3>1, <4>2 DEF Restarts
    <3>2. CASE ~(boot = "spare" /\ Whole)
      BY <1>7, <3>2 DEF Restarts, Plain
    <3>. QED  BY <3>1, <3>2
  <2>. QED  BY <1>7, <2>1, BoundsAre DEF Restarts, Booted, Plain
<1>8. ASSUME NEW t \in Sessions, Steps(t) PROVE Plain'
  BY <1>8, StepPlain
<1>. QED  BY <1>1, <1>2, <1>3, <1>4, <1>5, <1>6, <1>7, <1>8
          DEF Next, WebSteps, PanelSteps, ButtonSteps, HttpdSteps, User, Sessions

(* The chunk read is one the image has.                                    *)
LEMMA BufferStep ==
  ASSUME Counters, buffer \in 0 .. Chunks, [Next]_vars
  PROVE  buffer' \in 0 .. Chunks
<1>1. ASSUME NEW t \in Sessions, Steps(t) PROVE buffer' \in 0 .. Chunks
  <2>1. CASE ReadsChunk(t)
    <3>1. ota[t].chunk \in 1 .. Chunks + 1 /\ ota[t].chunk <= Chunks
      BY <2>1 DEF ReadsChunk, At, Counters, Bounded
    <3>2. ota[t].chunk \in 0 .. Chunks
      BY <3>1, BoundsAre
    <3>. QED  BY <2>1, <3>2 DEF ReadsChunk
  <2>2. CASE WritesChunk(t)
    BY <2>2, BoundsAre DEF WritesChunk
  <2>3. CASE Steps(t) /\ ~ReadsChunk(t) /\ ~WritesChunk(t)
    BY <2>3 DEF Steps, AsksChunk, ReadFails, RetryDelayEnds, HashesChunk, Verifies, Chooses,
                BeginsPanel, SkipsPanel, ToMain, TellsMain, MainRefuses, MainWaitEnds, session
  <2>. QED  BY <1>1, <2>1, <2>2, <2>3
<1>2. CASE Restarts
  BY <1>2, BoundsAre DEF Restarts, Booted
<1>3. CASE Learns \/ Shown \/ ButtonSteps \/ HttpdSteps \/ User \/ UNCHANGED vars
  BY <1>3 DEF Learns, Shown, ButtonSteps, CreatesTask, MainShown, HttpdSteps, CheckAnswered,
     WritesUpload, UploadFails, EndsUpload, RepliesUpload, User, OpensStatus, LeavesStatus,
     TriggersPanel, TriggersMain, TriggersSystem, AsksCheck, AsksPanelUpdate, AsksSystemUpdate,
     ReadsStatus, AsksMainUpdate, BeginsUpload, vars, session
<1>. QED  BY <1>1, <1>2, <1>3 DEF Next, WebSteps, PanelSteps, Sessions

LEMMA TInvInit == Init => TInv
<1>. SUFFICES ASSUME Init PROVE TInv
  OBVIOUS
<1>1. Types
  BY UInvInit DEF UInv
<1>2. ota = [t \in Sessions |-> [Fresh EXCEPT !.state = "unset"]] /\ pc = Resting
  BY DEF Init
<1>3. \A t \in Sessions : ota[t].chunk = 1 /\ ota[t].retries = 0 /\ pc[t] = "off"
  BY <1>2 DEF Fresh, Resting, Sessions
<1>4. pc["button"] = "idle" /\ "panel" \in Sessions
  BY <1>2 DEF Resting, Sessions
<1>5. Counters
  BY <1>3, <1>4, BoundsAre DEF Counters, Bounded, Trying
<1>6. OnScreen
  BY <1>3, <1>4 DEF OnScreen
<1>7. Plain /\ buffer \in 0 .. Chunks
  BY BoundsAre DEF Init, Plain
<1>. QED  BY <1>1, <1>5, <1>6, <1>7 DEF TInv

LEMMA TInvStep == TInv /\ [Next]_vars => TInv'
<1>. SUFFICES ASSUME TInv, [Next]_vars PROVE TInv'
  OBVIOUS
<1>. QED  BY TypesStep, CountersStep, OnScreenStep, PlainStep, BufferStep DEF TInv

(* Whatever the board answers, how often it fails and who updates at the   *)
(* same time: no manager asks for a chunk past the image's last or tries a *)
(* chunk more than OTA_MAX_RETRIES times, and every variable has its type. *)
THEOREM ManagersTyped == Spec => []TypeOK
<1>1. TInv => TypeOK
  <2>. SUFFICES ASSUME TInv PROVE TypeOK
    OBVIOUS
  <2>1. ota \in [Sessions -> Manager]
    BY DEF TInv, Types, Counters, Bounded, Kinds, Manager, StateNames
  <2>. QED  BY <2>1 DEF TInv, Types, Plain, TypeOK
<1>. QED  BY <1>1, TInvInit, TInvStep, PTL DEF Spec
=============================================================================
