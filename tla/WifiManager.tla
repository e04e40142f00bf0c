----------------------------- MODULE WifiManager -----------------------------
(***************************************************************************)
(* The WiFi manager (wifi_manager.c): the settings in flash, one NVS key   *)
(* each and read at boot; the station and the access point, driven by      *)
(* events of the driver; the web server's requests to connect, to scan and *)
(* to rename the panel; the button's "Reset WiFi"; and the power going out *)
(* between any two of their steps.                                         *)
(*                                                                         *)
(* One processor: the event task (priority 20) handles an event, with all  *)
(* it writes to flash, before the button task (10), httpd (5) and app_main *)
(* (1) run on.  These three call the driver and the flash, and wait there; *)
(* they are taken to interleave at every such call.                        *)
(*                                                                         *)
(* An ssid and a password are the name of the network they belong to, so a *)
(* station gets in exactly when the two are the same; a request without a  *)
(* password, or with another network's, does not.                          *)
(***************************************************************************)
EXTENDS Naturals, Sequences

CONSTANTS Networks,     \* the networks in reach
          MaxRetries,   \* max_retry_attempts
          MaxRequests,  \* bound: requests of the user
          MaxCuts       \* bound: power failures

Absent == "absent"   \* no such key
Empty  == "empty"    \* "", or a default

ASSUME NetworksAssumption == {Absent, Empty} \cap Networks = {}
ASSUME BoundsAssumption   ==
  MaxRetries \in Nat /\ MaxRequests \in Nat /\ MaxCuts \in Nat

VARIABLES
  nvs,      \* the flash: "auto" is auto_conn with ap_enabled, conn_tmo and
            \* max_retry, "ident" the panel's own names, "legacy" the old blob
  ram,      \* the settings in wifi_manager_t
  mgr,      \* the rest of it: state, station_connected, ap_active, ...
  orig,     \* s_original_mode
  drv,      \* the driver: mode, the station's configuration, link, address
  events,   \* what the driver has posted and the event task not handled
  writes,   \* the keys a save has still to write
  pc,       \* where app_main, the button task and httpd are
  asked,    \* the network of the web request under way
  requests, cuts,
  reset,    \* history: "running" or "done" if the last thing the user asked was
            \* a reset and no key was kept from it, "no" otherwise
  lostScan  \* history: a client went away before its scan was cleaned up

settings == <<nvs, ram, writes>>
history  == <<requests, cuts, reset, lostScan>>
vars     == <<settings, history, mgr, orig, drv, events, pc, asked>>

NewKeys     == {"ssid", "pass", "auto", "ident"}
Keys        == NewKeys \cup {"legacy"}
StationKeys == <<"ssid", "pass", "auto">>
EraseOrder  == <<"ssid", "pass", "auto", "ident", "legacy">>
Modes       == {"null", "sta", "ap", "apsta"}
HasSta(m)   == m \in {"sta", "apsta"}
HasAp(m)    == m \in {"ap", "apsta"}

Defaults == [ssid |-> Empty, pass |-> Empty, auto |-> "no", ident |-> Empty]
Unset    == [state |-> "idle", station |-> FALSE, ap |-> FALSE, retry |-> 0,
             pending |-> FALSE]
Radio    == [mode |-> "null", ssid |-> Empty, pass |-> Empty, link |-> "down",
             address |-> FALSE]
Resting  == [main |-> "off", button |-> "idle", httpd |-> "idle"]

(* A fresh panel, or one whose settings an older firmware stored.          *)
Init ==
  /\ nvs \in {[k \in Keys |-> IF k = "legacy" THEN l ELSE Absent] :
                l \in Networks \cup {Absent}}
  /\ ram = Defaults /\ mgr = Unset /\ drv = Radio /\ orig = "null"
  /\ events = <<>> /\ writes = <<>> /\ pc = Resting /\ asked = Empty
  /\ requests = 0 /\ cuts = 0 /\ reset = "no" /\ lostScan = FALSE

(* The lower tasks run when the event task has nothing left to do.         *)
Quiet      == events = <<>> /\ writes = <<>>
Up         == pc.main = "up" /\ Quiet
At(t, l)   == pc[t] = l
Goes(t, l) == pc' = [pc EXCEPT ![t] = l]

-----------------------------------------------------------------------------
(* The settings in flash.                                                  *)
Or(key, default) == IF nvs[key] = Absent THEN default ELSE nvs[key]
Found    == \E k \in NewKeys : nvs[k] # Absent
Imported == ~Found /\ nvs["legacy"] # Absent

(* wifi_manager_load_settings, import_legacy_settings included             *)
Loaded ==
  IF Imported
    THEN [Defaults EXCEPT !.ssid = nvs["legacy"], !.pass = nvs["legacy"], !.auto = "yes"]
    ELSE [ssid |-> Or("ssid", Empty), pass |-> Or("pass", Empty),
          auto |-> Or("auto", "no"), ident |-> Or("ident", Empty)]

Joins(s) == s.auto = "yes" /\ s.ssid # Empty

(* A key is in flash once it is set; nvs_commit adds nothing to that.      *)
WritesKey ==
  /\ writes # <<>>
  /\ nvs' = [nvs EXCEPT ![Head(writes)] = ram[Head(writes)]]
  /\ writes' = Tail(writes)
  /\ UNCHANGED <<ram, mgr, orig, drv, events, pc, asked, history>>

(* A full flash ends the save where it is.                                 *)
WriteFails ==
  /\ writes # <<>> /\ writes' = <<>>
  /\ UNCHANGED <<nvs, ram, mgr, orig, drv, events, pc, asked, history>>

-----------------------------------------------------------------------------
(* The driver and the network, external.                                   *)
Post(es) == events' = events \o es

(* esp_wifi_set_mode, with the esp_wifi_start that follows it: an          *)
(* interface that goes away takes its link along.                          *)
InMode(d, m) ==
  IF HasSta(m) THEN [d EXCEPT !.mode = m]
  ELSE [d EXCEPT !.mode = m, !.link = "down", !.address = FALSE]
ModeEvents(d, m) ==
     (IF ~HasSta(m) /\ d.link # "down" THEN <<"sta_disconnected">> ELSE <<>>)
  \o (IF HasAp(d.mode) /\ ~HasAp(m) THEN <<"ap_stop">> ELSE <<>>)
  \o (IF ~HasAp(d.mode) /\ HasAp(m) THEN <<"ap_start">> ELSE <<>>)

(* esp_wifi_connect: refused without a station, ignored while one is       *)
(* trying, and leaving the network the station is on.                      *)
Dialing(d) == IF HasSta(d.mode) THEN [d EXCEPT !.link = "trying", !.address = FALSE] ELSE d
LeftEvents(d) == IF HasSta(d.mode) /\ d.link = "up" THEN <<"sta_disconnected">> ELSE <<>>

(* It associates if the password is the network's, and may fail anyway.    *)
Associates ==
  /\ drv.link = "trying" /\ drv.ssid \in Networks /\ drv.pass = drv.ssid
  /\ drv' = [drv EXCEPT !.link = "up"]
  /\ Post(<<"sta_connected">>)
  /\ UNCHANGED <<settings, mgr, orig, pc, asked, history>>

Drops ==
  /\ drv.link \in {"trying", "up"}
  /\ drv' = [drv EXCEPT !.link = "down", !.address = FALSE]
  /\ Post(<<"sta_disconnected">>)
  /\ UNCHANGED <<settings, mgr, orig, pc, asked, history>>

GetsAddress ==
  /\ drv.link = "up" /\ ~drv.address
  /\ drv' = [drv EXCEPT !.address = TRUE]
  /\ Post(<<"got_ip">>)
  /\ UNCHANGED <<settings, mgr, orig, pc, asked, history>>

-----------------------------------------------------------------------------
(* wifi_event_handler                                                      *)
Receives(e) ==
  /\ writes = <<>> /\ events # <<>> /\ Head(events) = e
  /\ UNCHANGED <<nvs, orig, pc, asked, history>>

StaConnected ==
  /\ Receives("sta_connected")
  /\ mgr' = [mgr EXCEPT !.station = TRUE]
  /\ events' = Tail(events)
  /\ UNCHANGED <<ram, writes, drv>>

(* Mutant: the attempts are counted only once one has been given up.       *)
StaDisconnected_Uncounted ==
  /\ Receives("sta_disconnected")
  /\ mgr' = [mgr EXCEPT !.station = FALSE, !.state = "connecting"]
  /\ drv' = Dialing(drv)
  /\ events' = Tail(events)
  /\ UNCHANGED <<ram, writes>>

(* Mutant: one attempt more than max_retry_attempts.                       *)
StaDisconnected_OneMore ==
  /\ Receives("sta_disconnected")
  /\ IF mgr.retry <= MaxRetries
       THEN /\ mgr' = [mgr EXCEPT !.station = FALSE, !.state = "connecting", !.retry = @ + 1]
            /\ drv' = Dialing(drv)
       ELSE mgr' = [mgr EXCEPT !.station = FALSE, !.state = "error"] /\ UNCHANGED drv
  /\ events' = Tail(events)
  /\ UNCHANGED <<ram, writes>>

(* It dials again with what the driver was last told, whoever hung up.     *)
StaDisconnected ==
  /\ Receives("sta_disconnected")
  /\ IF mgr.retry < MaxRetries
       THEN /\ mgr' = [mgr EXCEPT !.station = FALSE, !.state = "connecting", !.retry = @ + 1]
            /\ drv' = Dialing(drv)
            /\ events' = Tail(events) \o LeftEvents(drv)
       ELSE /\ mgr' = [mgr EXCEPT !.station = FALSE, !.state = "error"]
            /\ events' = Tail(events)
            /\ UNCHANGED drv
  /\ UNCHANGED <<ram, writes>>

ApStart ==
  /\ Receives("ap_start")
  /\ mgr' = [mgr EXCEPT !.ap = TRUE, !.state = "ap_mode"]
  /\ events' = Tail(events)
  /\ UNCHANGED <<ram, writes, drv>>

ApStop ==
  /\ Receives("ap_stop")
  /\ mgr' = [mgr EXCEPT !.ap = FALSE]
  /\ events' = Tail(events)
  /\ UNCHANGED <<ram, writes, drv>>

(* The first address after connect_and_save saves what is in RAM.          *)
GotIp ==
  /\ Receives("got_ip")
  /\ mgr' = [mgr EXCEPT !.state = "connected", !.retry = 0, !.pending = FALSE]
  /\ IF mgr.pending
       THEN ram' = [ram EXCEPT !.auto = "yes"] /\ writes' = StationKeys
       ELSE UNCHANGED <<ram, writes>>
  /\ events' = Tail(events)
  /\ UNCHANGED drv

-----------------------------------------------------------------------------
(* wifi_manager_connect tells the driver the mode and what is in RAM.  (A  *)
(* driver that refuses ends in ESP_ERROR_CHECK's restart: a PowerCut.)     *)
Configured(d) == [InMode(d, "sta") EXCEPT !.ssid = ram.ssid, !.pass = ram.pass]

(* wifi_manager_start_ap                                                   *)
StartsAp == drv' = InMode(drv, "ap") /\ Post(ModeEvents(drv, "ap"))

(* app_main: the power comes on, wifi_manager_init reads the settings, and *)
(* those of the old blob are written out under the new keys; then it joins *)
(* the saved network or opens the access point.                            *)
Boots ==
  /\ At("main", "off")
  /\ ram' = Loaded /\ writes' = (IF Imported THEN StationKeys ELSE <<>>)
  /\ Goes("main", "loaded")
  /\ UNCHANGED <<nvs, mgr, orig, drv, events, asked, history>>

Starts ==
  /\ At("main", "loaded") /\ Quiet
  /\ IF Joins(ram)
       THEN /\ drv' = Dialing(Configured(drv))
            /\ mgr' = [mgr EXCEPT !.state = "connecting", !.retry = 0]
            /\ UNCHANGED events
       ELSE StartsAp /\ UNCHANGED mgr
  /\ Goes("main", "up")
  /\ UNCHANGED <<settings, orig, asked, history>>

(* The power goes, with everything that is not in flash.                   *)
PowerCut ==
  /\ pc.main # "off" /\ cuts < MaxCuts
  /\ cuts' = cuts + 1
  /\ ram' = Defaults /\ mgr' = Unset /\ drv' = Radio /\ orig' = "null"
  /\ events' = <<>> /\ writes' = <<>> /\ pc' = Resting /\ asked' = Empty
  /\ lostScan' = FALSE
  /\ reset' = (IF reset = "done" THEN "done" ELSE "no")
  /\ UNCHANGED <<nvs, requests>>

-----------------------------------------------------------------------------
(* The web server's requests, one at a time.                               *)
Request ==
  /\ Up /\ At("httpd", "idle") /\ requests < MaxRequests
  /\ requests' = requests + 1
  /\ UNCHANGED cuts

(* api_wifi_connect_handler: wifi_manager_connect_and_save marks the next  *)
(* address as one to save, and copies the names into RAM one by one.       *)
AsksConnect(ssid, pass) ==
  /\ Request
  /\ mgr' = [mgr EXCEPT !.pending = TRUE]
  /\ ram' = [ram EXCEPT !.ssid = ssid]
  /\ asked' = pass /\ reset' = "no"
  /\ Goes("httpd", "pass")
  /\ UNCHANGED <<nvs, writes, orig, drv, events, lostScan>>

(* Too long a name: the mark is already made.                              *)
AsksTooLong ==
  /\ Request
  /\ mgr' = [mgr EXCEPT !.pending = TRUE]
  /\ UNCHANGED <<settings, orig, drv, events, pc, asked, reset, lostScan>>

CopiesPassword ==
  /\ Up /\ At("httpd", "pass")
  /\ ram' = [ram EXCEPT !.pass = asked] /\ asked' = Empty
  /\ Goes("httpd", "driver")
  /\ UNCHANGED <<nvs, writes, mgr, orig, drv, events, history>>

(* Mutant: the driver keeps the configuration it had.                      *)
SetsDriver_KeepsConfig ==
  /\ Up /\ At("httpd", "driver")
  /\ drv' = InMode(drv, "sta")
  /\ Post(ModeEvents(drv, "sta"))
  /\ Goes("httpd", "dial")
  /\ UNCHANGED <<settings, mgr, orig, asked, history>>

SetsDriver ==
  /\ Up /\ At("httpd", "driver")
  /\ drv' = Configured(drv)
  /\ Post(ModeEvents(drv, "sta"))
  /\ Goes("httpd", "dial")
  /\ UNCHANGED <<settings, mgr, orig, asked, history>>

Dials ==
  /\ Up /\ At("httpd", "dial")
  /\ mgr' = [mgr EXCEPT !.state = "connecting", !.retry = 0]
  /\ drv' = Dialing(drv) /\ Post(LeftEvents(drv))
  /\ Goes("httpd", "idle")
  /\ UNCHANGED <<settings, orig, asked, history>>

(* wifi_manager_set_ap_ssid and its like: RAM at once, "" for the default. *)
Renames == \E name \in {"named", Empty} : ram' = [ram EXCEPT !.ident = name]

(* api_settings_set_handler: RAM, then the flash, from RAM.                *)
AsksName ==
  /\ Request
  /\ Renames
  /\ reset' = "no"
  /\ Goes("httpd", "name")
  /\ UNCHANGED <<nvs, writes, mgr, orig, drv, events, asked, lostScan>>

(* save_identity_setting: the default is not stored.                       *)
SavesName ==
  /\ Up /\ At("httpd", "name")
  /\ nvs' = [nvs EXCEPT !["ident"] = IF ram.ident = Empty THEN Absent ELSE ram.ident]
  /\ Goes("httpd", "idle")
  /\ UNCHANGED <<ram, writes, mgr, orig, drv, events, asked, history>>

(* Mutant: the mode to go back to is read after the change.                *)
AsksScan_LateSave ==
  /\ Request
  /\ LET m == CASE drv.mode = "ap" -> "apsta" [] drv.mode = "null" -> "sta" [] OTHER -> drv.mode
     IN drv' = InMode(drv, m) /\ Post(ModeEvents(drv, m)) /\ orig' = m
  /\ Goes("httpd", "scan")
  /\ UNCHANGED <<settings, mgr, asked, reset, lostScan>>

(* wifi_manager_scan_start                                                 *)
AsksScan ==
  /\ Request
  /\ orig' = drv.mode
  /\ LET m == CASE drv.mode = "ap" -> "apsta" [] drv.mode = "null" -> "sta" [] OTHER -> drv.mode
     IN drv' = InMode(drv, m) /\ Post(ModeEvents(drv, m))
  /\ Goes("httpd", "scan")
  /\ UNCHANGED <<settings, mgr, asked, reset, lostScan>>

(* wifi_manager_scan_cleanup                                               *)
RestoresMode == drv' = InMode(drv, orig) /\ Post(ModeEvents(drv, orig))

(* All networks are sent, or sending one failed.                           *)
CleansUp ==
  /\ Up /\ At("httpd", "scan")
  /\ RestoresMode
  /\ Goes("httpd", "idle")
  /\ UNCHANGED <<settings, mgr, orig, asked, history>>

(* The client is gone before the list begins: no clean-up.                 *)
LosesClient ==
  /\ Up /\ At("httpd", "scan")
  /\ lostScan' = TRUE
  /\ Goes("httpd", "idle")
  /\ UNCHANGED <<settings, mgr, orig, drv, events, asked, requests, cuts, reset>>

-----------------------------------------------------------------------------
(* "Reset WiFi" of the panel's menu: disconnect, clear_config, start_ap.   *)
ResetBegins ==
  /\ Up /\ At("button", "idle") /\ requests < MaxRequests
  /\ requests' = requests + 1
  /\ mgr' = [mgr EXCEPT !.state = "idle", !.station = FALSE]
  /\ drv' = [drv EXCEPT !.link = "down", !.address = FALSE]
  /\ Post(IF drv.link = "down" THEN <<>> ELSE <<"sta_disconnected">>)
  /\ reset' = (IF pc.httpd \in {"idle", "scan"} THEN "running" ELSE "no")
  /\ Goes("button", "forget")
  /\ UNCHANGED <<settings, orig, asked, cuts, lostScan>>

Forgets ==
  /\ Up /\ At("button", "forget")
  /\ ram' = Defaults
  /\ Goes("button", "ssid")
  /\ UNCHANGED <<nvs, writes, mgr, orig, drv, events, asked, history>>

(* Mutant: the old blob is left for a downgrade.                           *)
AfterErase_KeepsBlob(k) ==
  LET i == CHOOSE j \in DOMAIN EraseOrder : EraseOrder[j] = k
  IN  IF i >= 4 THEN "ap" ELSE EraseOrder[i + 1]

AfterErase(k) ==
  LET i == CHOOSE j \in DOMAIN EraseOrder : EraseOrder[j] = k
  IN  IF i = Len(EraseOrder) THEN "ap" ELSE EraseOrder[i + 1]

(* wifi_manager_clear_config, one nvs_erase_key                            *)
ErasesKey ==
  /\ Up /\ pc.button \in Keys
  /\ nvs' = [nvs EXCEPT ![pc.button] = Absent]
  /\ Goes("button", AfterErase(pc.button))
  /\ reset' = (IF AfterErase(pc.button) = "ap" /\ reset = "running" THEN "done" ELSE reset)
  /\ UNCHANGED <<ram, writes, mgr, orig, drv, events, asked, requests, cuts, lostScan>>

(* The flash refuses to erase a key, or to be opened at all: that is       *)
(* logged, and the reset goes on as if it had been done.                   *)
EraseFails ==
  /\ Up /\ pc.button \in Keys
  /\ \/ Goes("button", AfterErase(pc.button))
     \/ pc.button = EraseOrder[1] /\ Goes("button", "ap")
  /\ reset' = "no"
  /\ UNCHANGED <<nvs, ram, writes, mgr, orig, drv, events, asked, requests, cuts, lostScan>>

OpensAp ==
  /\ Up /\ At("button", "ap")
  /\ StartsAp
  /\ Goes("button", "idle")
  /\ UNCHANGED <<settings, mgr, orig, asked, history>>

-----------------------------------------------------------------------------
EventTask == StaConnected \/ StaDisconnected \/ ApStart \/ ApStop \/ GotIp
Driver    == Associates \/ Drops \/ GetsAddress
Httpd     == CopiesPassword \/ SetsDriver \/ Dials \/ SavesName \/ CleansUp \/ LosesClient
Button    == Forgets \/ ErasesKey \/ EraseFails \/ OpensAp
Main      == Boots \/ Starts
User      == \/ \E n \in Networks, p \in Networks \cup {Empty} : AsksConnect(n, p)
             \/ AsksTooLong \/ AsksName \/ AsksScan \/ ResetBegins

Next == EventTask \/ Driver \/ Httpd \/ Button \/ Main \/ User
        \/ WritesKey \/ WriteFails \/ PowerCut

(* The tasks run; an attempt ends one way or the other; and a network that *)
(* lets the station in also gives it an address or throws it out, which    *)
(* the code relies on: connection_timeout_ms is read by nothing.           *)
Fairness ==
  /\ WF_vars(EventTask) /\ WF_vars(WritesKey) /\ WF_vars(Main)
  /\ WF_vars(Httpd) /\ WF_vars(Button) /\ WF_vars(Driver)

Spec     == Init /\ [][Next]_vars
FairSpec == Spec /\ Fairness
-----------------------------------------------------------------------------
(* Types; and the station is dialled at most max_retry_attempts times on   *)
(* its own account (wifi_event_handler).                                   *)
Names      == Networks \cup {Empty}
EventNames == {"sta_connected", "sta_disconnected", "ap_start", "ap_stop", "got_ip"}
TypeOK ==
  /\ nvs \in [Keys -> Networks \cup {Absent, Empty, "yes", "no", "named"}]
  /\ ram \in [ssid : Names, pass : Names, auto : {"yes", "no"}, ident : {Empty, "named"}]
  /\ mgr \in [state : {"idle", "connecting", "connected", "ap_mode", "error"},
              station : BOOLEAN, ap : BOOLEAN, retry : 0 .. MaxRetries, pending : BOOLEAN]
  /\ drv \in [mode : Modes, ssid : Names, pass : Names,
              link : {"down", "trying", "up"}, address : BOOLEAN]
  /\ orig \in Modes /\ asked \in Names
  /\ events \in Seq(EventNames)
  /\ writes \in {<<>>, <<"auto">>, <<"pass", "auto">>, StationKeys}
  /\ pc \in [main   : {"off", "loaded", "up"},
             button : Keys \cup {"idle", "forget", "ap"},
             httpd  : {"idle", "pass", "driver", "dial", "name", "scan"}]
  /\ requests \in 0 .. MaxRequests /\ cuts \in 0 .. MaxCuts
  /\ reset \in {"no", "running", "done"} /\ lostScan \in BOOLEAN

(* A reset is final: whatever connection attempt, address, save or scan    *)
(* was under way while wifi_manager_clear_config erased the keys one by    *)
(* one, and however often the power fails afterwards, the panel opens its  *)
(* access point at the next boot and has its default names, until the user *)
(* asks for something else.                                                *)
ResetIsFinal == reset = "done" => ~Joins(Loaded) /\ Loaded.ident = Empty

(* "Only called on successful connection so invalid station settings       *)
(* aren't saved" (wifi_manager.c:409): unless the address arrives in the   *)
(* middle of the next request or of a reset, the names that are saved are  *)
(* those of the network that gave the address.                             *)
SavesWhatWorked ==
  [][GotIp /\ mgr.pending /\ pc.httpd \notin {"pass", "driver", "dial"} /\ pc.button = "idle"
       => ram.ssid = drv.ssid /\ ram.pass = drv.ssid /\ drv.ssid \in Networks]_vars

(* "Mode will be restored after cleanup" (wifi_manager.c:832): between     *)
(* scans the panel is an access point or a station, never both, however    *)
(* resets and requests fell into the scan, unless a client went away       *)
(* before the list began.                                                  *)
ScanRestoresMode == pc.httpd # "scan" /\ ~lostScan => drv.mode # "apsta"

(* No attempt to connect goes on for ever: whether the network answers or  *)
(* not, whoever hangs up, and whatever request, scan or reset falls into   *)
(* it, a station leaves CONNECTING.  Where there is an access point there  *)
(* is no attempt, and CONNECTING may be shown for good: a reset that falls *)
(* between the mode and the last statements of wifi_manager_connect has it *)
(* dial without a station (wifi_manager.c:596-605), in AP mode and in the  *)
(* APSTA mode of a scan after it.                                          *)
Attempting == mgr.state = "connecting" /\ drv.mode = "sta"
ConnectingEnds == Attempting ~> ~Attempting

(* "No key at all means this is either a fresh device or one still holding *)
(* the old single blob" (wifi_manager.c:500): with the blob there and      *)
(* nothing asked by anybody, the panel joins the blob's network.  It does  *)
(* not when the power failed, or the flash was full, between two keys of   *)
(* the migration: the next boot finds a key and leaves the blob alone.     *)
MigrationSurvives ==
  requests = 0 /\ nvs["legacy"] # Absent /\ pc.main = "off" =>
    Joins(Loaded) /\ Loaded.ssid = nvs["legacy"] /\ Loaded.pass = nvs["legacy"]
=============================================================================
