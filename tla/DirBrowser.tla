------------------------------ MODULE DirBrowser -----------------------------
(***************************************************************************)
(* The panel's directory browser (main.c, menu_system.c): the cached rows  *)
(* of disc_menu, the flag disc_list_loaded that says whether they need to  *)
(* be read again, and the four parties that touch them without a lock: the *)
(* button task, the status task (whose recovery re-enumerates), the web    *)
(* server (which changes the card behind the panel's back and then         *)
(* invalidates the cache) and the display task, which draws the rows.      *)
(*                                                                         *)
(* One processor: the button task (priority 10) interrupts any other task  *)
(* between two statements and gives way only where it waits for the board; *)
(* the status task (4) never interrupts the display task (5).              *)
(***************************************************************************)
EXTENDS Integers, Sequences

CONSTANTS Listings,     \* Listings[s]: the kinds of the entries of listing s
          Builds,       \* the builds: TRUE is BlueSCSI, whose status task re-enumerates too
          MaxFaults     \* bound: how often a call to the board fails

ASSUME ListingsAssumption == Listings \in Seq(Seq({"up", "dir", "file"})) /\ Listings # <<>>
ASSUME BuildsAssumption   == Builds \subseteq BOOLEAN
ASSUME BoundAssumption    == MaxFaults \in Nat

(* Bound: the board shows listings 0, 1, ... MaxStamp, each newer than the *)
(* one before; Listings says what is in them.                              *)
MaxStamp == Len(Listings) - 1
Stamps   == 0 .. MaxStamp
Listing(s) == Listings[s + 1]

VARIABLES
  now,          \* the board: the listing it shows
  mounted,      \* the last image loaded through the browser, as <<listing, entry>>
  rows,         \* disc_menu.items
  loaded,       \* disc_list_loaded
  linkUp,       \* host_comm.link_up
  screen,       \* "menu": main menu, "list", "info" over the list, "other"
  sel,          \* the row the button task is selecting, while it does
  task,         \* the two tasks that re-enumerate: where they are
  web,          \* a web handler that changes the card
  recovers,     \* the status task can re-enumerate; it never changes
  draw,         \* ui_draw_menu: the rows it is drawing are live or freed
  faults,       \* calls that failed
  owed,         \* history: the newest listing for which the cache was invalidated
                \* while no task rebuilt the rows
  due           \* history: that at the last opening

vars == <<now, mounted, rows, loaded, linkUp, screen, sel, task, web,
          draw, owed, due, faults, recovers>>
boardVars == <<now, mounted>>
histVars  == <<owed, due>>

Tasks == {"button", "status"}
None  == -1

(* A row: what it shows (entry "at" of listing "of"), and the entry_index  *)
(* that selecting it sends.                                                *)
Row(kind, of, at) == [kind |-> kind, of |-> of, at |-> at, index |-> 0]
Placeholder == Row("none", None, None)

Idle == [pc |-> "idle", i |-> 0, n |-> 0, todo |-> None, then |-> "end",
         ret |-> "open", ok |-> FALSE]

(* app_main has failed to read the directory.                              *)
Init ==
  /\ recovers \in Builds
  /\ now = 0 /\ mounted = <<None, None>>
  /\ rows = <<[Placeholder EXCEPT !.index = None]>> /\ loaded = FALSE
  /\ linkUp = TRUE /\ screen = "menu" /\ sel = Placeholder
  /\ task = [t \in Tasks |-> Idle]
  /\ web = "idle" /\ draw = "none"
  /\ faults = 0 /\ owed = 0 /\ due = 0

-----------------------------------------------------------------------------
(* Scheduling. *)

Statements == {"stamp", "mark", "end"}      \* steps that wait for nothing

ButtonRuns == task["button"].pc \in Statements

CanRun(t) == IF t = "button" THEN TRUE ELSE ~ButtonRuns /\ draw = "none"

At(t, pc)  == task[t].pc = pc /\ CanRun(t)

(* Where a task is between menu_clear_items and disc_list_loaded = true.   *)
Rebuilds   == {"count", "entry", "stamp", "mark"}
Rebuilding == \E t \in Tasks : task[t].pc \in Rebuilds

-----------------------------------------------------------------------------
(* refresh_directory_list, in task t. *)

(* menu_clear_items frees the array ui_draw_menu may be walking.           *)
Refresh(t, ret) ==
  IF linkUp
    THEN /\ rows' = <<>>
         /\ draw' = IF draw = "live" THEN "freed" ELSE draw
         /\ task' = [task EXCEPT ![t] = [Idle EXCEPT !.pc = "count", !.ret = ret]]
    ELSE /\ task' = [task EXCEPT ![t] = [Idle EXCEPT !.pc = "end", !.ret = ret]]
         /\ UNCHANGED <<rows, draw>>

(* menu_add_item; its index, still 0, is set by the next statement.        *)
AddRow(t, row, rest) ==
  /\ rows' = Append(rows, row)
  /\ task' = [task EXCEPT ![t] = rest]

Stamping(t, index, then) ==
  [task[t] EXCEPT !.pc = "stamp", !.todo = index, !.then = then]

RefreshOnly == UNCHANGED <<boardVars, linkUp, sel, web, histVars, recovers>>

Entries == Listing(now)

Faulty  == faults < MaxFaults /\ faults' = faults + 1
NoFault == UNCHANGED faults

CountReplies(t) ==
  /\ At(t, "count")
  /\ \/ /\ Entries # <<>>
        /\ AddRow(t, Row("up", now, None),
                  [Stamping(t, None, "entry") EXCEPT !.n = Len(Entries)])
        /\ NoFault
     \/ /\ Entries = <<>>
        /\ AddRow(t, Placeholder, [Stamping(t, None, "end") EXCEPT !.ok = TRUE])
        /\ NoFault
     \/ /\ Faulty
        /\ AddRow(t, Placeholder, Stamping(t, None, "end"))
  /\ UNCHANGED <<loaded, screen, draw>>
  /\ RefreshOnly

(* Mutant: one entry too many.                                             *)
AfterEntry_OneMore(t) == IF task[t].i < task[t].n THEN "entry" ELSE "mark"

AfterEntry(t) == IF task[t].i + 1 < task[t].n THEN "entry" ELSE "mark"

(* The board's own ".." is skipped; what cannot be read is an error row.   *)
EntryReplies(t) ==
  LET i == task[t].i
      known == i < Len(Entries)
      kind  == IF known THEN Entries[i + 1] ELSE "error" IN
  /\ At(t, "entry")
  /\ \/ /\ kind = "up"
        /\ task' = [task EXCEPT ![t].i = i + 1, ![t].pc = AfterEntry(t)]
        /\ UNCHANGED rows /\ NoFault
     \/ \E k \in {kind, "error"} \ {"up"} :
          /\ IF k = kind THEN NoFault ELSE Faulty
          /\ AddRow(t, Row(k, now, i),
                    [Stamping(t, i, AfterEntry(t)) EXCEPT !.i = i + 1])
  /\ UNCHANGED <<loaded, screen, draw>>
  /\ RefreshOnly

(* set_last_menu_entry_index: whichever row is the last.                   *)
SetsIndex(t) ==
  /\ At(t, "stamp")
  /\ rows' = IF rows = <<>> THEN rows
             ELSE [rows EXCEPT ![Len(rows)].index = task[t].todo]
  /\ task' = [task EXCEPT ![t].pc = task[t].then]
  /\ UNCHANGED <<loaded, screen, draw>>
  /\ RefreshOnly /\ NoFault

MarksLoaded(t) ==
  /\ At(t, "mark")
  /\ loaded' = TRUE
  /\ task' = [task EXCEPT ![t].pc = "end", ![t].ok = TRUE]
  /\ UNCHANGED <<rows, screen, draw>>
  /\ RefreshOnly /\ NoFault

(* Back in the caller: the main menu, the browser itself, reconnect_to_host. *)
Returns(t) ==
  LET ret == task[t].ret
      lost == ret \in {"recover", "imaging"} /\ ~task[t].ok IN
  /\ At(t, "end")
  /\ task' = [task EXCEPT ![t] = Idle]
  /\ linkUp' = (linkUp /\ ~lost)
  /\ screen' = CASE ret = "open"                -> "list"
                 [] ret = "recover" /\ linkUp'  -> "menu"
                 [] OTHER                       -> screen
  /\ UNCHANGED <<boardVars, rows, loaded, sel, web, draw, histVars, faults, recovers>>

RefreshStep(t) == CountReplies(t) \/ EntryReplies(t) \/ SetsIndex(t)
                  \/ MarksLoaded(t) \/ Returns(t)

-----------------------------------------------------------------------------
(* The board. *)

(* The listing becomes a new one.                                          *)
Moves == now < MaxStamp /\ now' = now + 1

(* SELECT_ENTRY.                                                           *)
Selects(index) ==
  LET names == index + 1 \in DOMAIN Entries /\ Entries[index + 1] = "file" IN
  \/ names /\ mounted' = <<now, index>> /\ UNCHANGED now
  \/ ~names /\ Moves /\ UNCHANGED mounted

-----------------------------------------------------------------------------
(* The button task: handle_button_event on the screens around the browser. *)

Pressed(s) == At("button", "idle") /\ screen = s

ScreenOnly ==
  UNCHANGED <<boardVars, rows, loaded, linkUp, sel, task, web, draw, owed, faults, recovers>>

(* Select Image, in the main menu.                                         *)
Open ==
  /\ Pressed("menu")
  /\ due' = owed
  /\ IF ~loaded /\ linkUp
       THEN Refresh("button", "open") /\ UNCHANGED screen
       ELSE screen' = "list" /\ UNCHANGED <<rows, task, draw>>
  /\ UNCHANGED <<boardVars, loaded, linkUp, sel, web, owed, faults, recovers>>

Leave == \/ Pressed("list") /\ screen' = "menu" /\ UNCHANGED due /\ ScreenOnly
         \/ Pressed("info") /\ screen' = "list" /\ UNCHANGED due /\ ScreenOnly
         \/ Pressed("other") /\ screen' = "menu" /\ UNCHANGED due /\ ScreenOnly

Pick_Position(k) ==
  /\ Pressed("list") /\ linkUp /\ k \in DOMAIN rows
  /\ sel' = [rows[k] EXCEPT !.index = k - 2]
  /\ task' = [task EXCEPT !["button"] =
                [Idle EXCEPT !.pc = "select",
                             !.ret = IF k = 1 \/ rows[k].kind = "dir" THEN "browse" ELSE "load"]]
  /\ UNCHANGED <<boardVars, rows, loaded, linkUp, screen, web, draw, histVars, faults, recovers>>

(* A row selected: the first row and the bracketed ones are directories.   *)
Pick(k) ==
  /\ Pressed("list") /\ linkUp /\ k \in DOMAIN rows
  /\ sel' = rows[k]
  /\ task' = [task EXCEPT !["button"] =
                [Idle EXCEPT !.pc = "select",
                             !.ret = IF k = 1 \/ rows[k].kind = "dir" THEN "browse" ELSE "load"]]
  /\ UNCHANGED <<boardVars, rows, loaded, linkUp, screen, web, draw, histVars, faults, recovers>>

(* An image for the next power cycle leaves an info screen over the list.  *)
SelectReplies ==
  /\ At("button", "select")
  /\ Selects(sel.index)
  /\ IF task["button"].ret = "browse"
       THEN Refresh("button", "browse") /\ UNCHANGED screen
       ELSE /\ screen' \in {"info", "other"}
            /\ task' = [task EXCEPT !["button"] = Idle]
            /\ UNCHANGED <<rows, draw>>
  /\ sel' = Placeholder
  /\ UNCHANGED <<loaded, linkUp, web, histVars, faults, recovers>>

(* handle_comm_error -> reconnect_to_host, up to the RESET.                *)
Reconnects(t, ret) ==
  /\ loaded' = FALSE
  /\ task' = [task EXCEPT ![t] = [Idle EXCEPT !.pc = "reset", !.ret = ret]]

(* The board refused, or did it and the answer was lost.                   *)
SelectFails ==
  /\ At("button", "select")
  /\ \/ Faulty /\ (Selects(sel.index) \/ UNCHANGED boardVars)
     \/ now = MaxStamp /\ UNCHANGED boardVars /\ NoFault
  /\ \/ Reconnects("button", "recover")
     \/ task' = [task EXCEPT !["button"] = Idle] /\ UNCHANGED loaded
  /\ sel' = Placeholder
  /\ UNCHANGED <<rows, linkUp, screen, web, draw, histVars, recovers>>

WasReset(t) ==
  /\ At(t, "reset")
  /\ Refresh(t, task[t].ret)
  /\ UNCHANGED <<boardVars, loaded, linkUp, screen, sel, web, histVars, faults, recovers>>

ButtonStep == \/ Open \/ Leave \/ (\E k \in DOMAIN rows : Pick(k)) \/ SelectReplies
              \/ SelectFails \/ WasReset("button")
              \/ RefreshStep("button")

-----------------------------------------------------------------------------
(* The other tasks. *)

(* refresh_initiator_status got an error that is no timeout.               *)
StatusFails ==
  /\ recovers /\ At("status", "idle") /\ linkUp
  /\ Faulty
  /\ Reconnects("status", "imaging")
  /\ UNCHANGED <<boardVars, rows, linkUp, screen, sel, web, draw, histVars, recovers>>

(* on_host_link_established.                                               *)
Relinked ==
  /\ At("status", "idle") /\ ~linkUp
  /\ linkUp' = TRUE /\ loaded' = FALSE
  /\ UNCHANGED <<boardVars, rows, screen, sel, task, web, draw, histVars, faults, recovers>>

StatusStep == StatusFails \/ Relinked \/ WasReset("status") \/ RefreshStep("status")

(* A web handler: an entry selected, a file deleted, renamed, created or   *)
(* uploaded.  The card exchanged and noticed by the status poll is alike.  *)
WebChanges ==
  /\ web = "idle" /\ ~ButtonRuns
  /\ Moves
  /\ web' = "changed"
  /\ UNCHANGED <<mounted, rows, loaded, linkUp, screen, sel, task, draw, histVars, faults, recovers>>

(* What the invalidation promises: nothing when it falls into a rebuild,   *)
(* whose end (MarksLoaded) declares the cache valid over it.               *)
Promises == owed' = IF Rebuilding THEN owed ELSE now

(* Mutant: a handler that forgets to invalidate.                           *)
WebInvalidates_Forgets ==
  /\ web = "changed" /\ ~ButtonRuns
  /\ Promises
  /\ web' = "idle"
  /\ UNCHANGED <<boardVars, rows, loaded, linkUp, screen, sel, task, draw, due, faults, recovers>>

WebInvalidates ==
  /\ web = "changed" /\ ~ButtonRuns
  /\ loaded' = FALSE
  /\ Promises
  /\ web' = "idle"
  /\ UNCHANGED <<boardVars, rows, linkUp, screen, sel, task, draw, due, faults, recovers>>

DrawBegins ==
  /\ draw = "none" /\ ~ButtonRuns
  /\ screen = "list" /\ rows # <<>>
  /\ draw' = "live"
  /\ UNCHANGED <<boardVars, rows, loaded, linkUp, screen, sel, task, web, histVars, faults, recovers>>

DrawEnds ==
  /\ draw # "none" /\ ~ButtonRuns
  /\ draw' = "none"
  /\ UNCHANGED <<boardVars, rows, loaded, linkUp, screen, sel, task, web, histVars, faults, recovers>>

Next == ButtonStep \/ StatusStep \/ WebChanges \/ WebInvalidates \/ DrawBegins \/ DrawEnds

Spec == Init /\ [][Next]_vars

-----------------------------------------------------------------------------
(* Properties. *)

RowType == [kind : {"up", "dir", "file", "none", "error"}, of : Stamps \cup {None},
            at : Nat \cup {None}, index : Nat \cup {None}]

(* The variables keep their types.                                         *)
TypeOK ==
  /\ now \in Stamps
  /\ mounted \in (Stamps \X Nat) \cup {<<None, None>>}
  /\ \A k \in DOMAIN rows : rows[k] \in RowType
  /\ loaded \in BOOLEAN /\ linkUp \in BOOLEAN /\ sel \in RowType
  /\ screen \in {"menu", "list", "info", "other"}
  /\ \A t \in Tasks :
       /\ task[t].pc \in Statements \cup {"idle", "count", "entry", "select", "reset"}
       /\ task[t].i <= task[t].n
  /\ web \in {"idle", "changed"} /\ draw \in {"none", "live", "freed"}
  /\ recovers \in Builds /\ faults \in 0 .. MaxFaults
  /\ owed \in Stamps /\ due \in Stamps

(* main.c:620-623: the index sent must not be desynchronised from the row: *)
(* an image loaded from the listing the row was read from is the image the *)
(* row shows; and main.c:1823-1824: a row that names no entry must not     *)
(* "load a real image the user never picked".  Where the status task does  *)
(* not rebuild the rows as well.                                           *)
LoadsWhatIsShown ==
  [][~recovers /\ mounted' # mounted =>
       /\ sel.kind \notin {"none", "up"}
       /\ sel.of = mounted'[1] => sel.at = mounted'[2]]_vars

(* main.c:160-162: the web handlers "invalidate the cache here and the     *)
(* browser reloads on its next open": a listing opened over a link that is *)
(* up is no older than the last change invalidated while neither task was  *)
(* rebuilding the rows, whatever was changed, invalidated, reset or        *)
(* refused since.  What is invalidated during a rebuild is not promised:   *)
(* main.c:1872 declares the cache valid over it, at the end of the reading *)
(* of rows that may be older.                                              *)
ReloadsOnOpen ==
  [][screen = "menu" /\ screen' = "list" /\ linkUp =>
       \A k \in DOMAIN rows' : rows'[k].of # None => rows'[k].of >= due']_vars
=============================================================================
