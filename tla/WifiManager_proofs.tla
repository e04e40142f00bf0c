------------------------- MODULE WifiManager_proofs --------------------------
(***************************************************************************)
(* Proofs about WifiManager, for any networks, retries and number of       *)
(* requests and power failures: a reset is final, a scan leaves the mode   *)
(* it found, and what is saved is what gave the address.                   *)
(***************************************************************************)
EXTENDS WifiManager, SequenceTheorems, TLAPS

InSeq(e, s) == \E i \in 1 .. Len(s) : s[i] = e
Waiting(e)  == InSeq(e, events)

(* What each key can hold: the old blob is only ever erased, and the       *)
(* default names are never stored.                                         *)
Stored ==
  /\ nvs["ssid"] \in Names \cup {Absent} /\ nvs["pass"] \in Names \cup {Absent}
  /\ nvs["auto"] \in {Absent, "yes", "no"} /\ nvs["ident"] \in {Absent, "named"}
  /\ nvs["legacy"] \in Networks \cup {Absent}

(* How far the reset is, and what of the settings is gone by then.         *)
Cleared(ks) == (reset = "running" /\ pc.button \in ks) \/ reset = "done"
ResetWorks ==
  /\ reset \in {"running", "done"} => pc.httpd \in {"idle", "scan"}
  /\ reset = "running" => pc.main = "up" /\ pc.button \in Keys \cup {"forget"}
  /\ Cleared(Keys) => ram.ssid = Empty /\ ram.ident = Empty
  /\ Cleared({"pass", "auto", "ident", "legacy"}) => nvs["ssid"] \in {Absent, Empty}
  /\ Cleared({"legacy"}) => nvs["ident"] = Absent
  /\ reset = "done" => nvs["legacy"] = Absent

(* A scan goes back to a mode that is not the mode of a scan.              *)
ScanWorks ==
  ~lostScan => IF pc.httpd = "scan" THEN orig # "apsta" ELSE drv.mode # "apsta"

(* A link is to the network of the driver's configuration, unless this was *)
(* changed and is about to be dialled; there is none without a station,    *)
(* and none before the radio is started.                                   *)
Genuine    == drv.ssid \in Networks /\ drv.pass = drv.ssid
LinkWorks ==
  /\ (drv.link = "up" \/ Waiting("got_ip")) /\ pc.httpd # "dial" => Genuine
  /\ ~HasSta(drv.mode) => drv.link = "down"
  /\ pc.main # "up" => drv.link = "down" /\ events = <<>>

(* The web server's requests begin once the panel is up.                   *)
NotYetUp == pc.main # "up" => pc.httpd = "idle"

(* The driver has the names that are in RAM; if not, a request or a reset  *)
(* is under way, or no link can come of them.                              *)
SameNames == drv.ssid = ram.ssid /\ drv.pass = ram.pass
NoLink ==
  /\ drv.link = "down" /\ ~Waiting("got_ip")
  /\ HasSta(drv.mode) => ~Waiting("sta_disconnected") /\ pc.httpd # "dial"
NamesWork ==
  SameNames \/ pc.httpd \in {"pass", "driver"} \/ pc.button # "idle" \/ NoLink

Inv == TypeOK /\ Stored /\ ResetWorks /\ ScanWorks /\ LinkWorks /\ NotYetUp /\ NamesWork

-----------------------------------------------------------------------------
(* What the queue of events holds. *)

LEMMA InConcat ==
  ASSUME NEW S, NEW s \in Seq(S), NEW t \in Seq(S), NEW e
  PROVE  /\ s \o t \in Seq(S)
         /\ InSeq(e, s \o t) => InSeq(e, s) \/ InSeq(e, t)
<1>1. /\ s \o t \in Seq(S) /\ Len(s \o t) = Len(s) + Len(t)
      /\ \A i \in 1 .. Len(s) + Len(t) : (s \o t)[i] = IF i <= Len(s) THEN s[i] ELSE t[i - Len(s)]
  BY ConcatProperties
<1>2. ASSUME NEW i \in 1 .. Len(s \o t), (s \o t)[i] = e
      PROVE  InSeq(e, s) \/ InSeq(e, t)
  <2>0. Len(s) \in Nat /\ Len(t) \in Nat
    OBVIOUS
  <2>1. CASE i <= Len(s)
    BY <1>1, <1>2, <2>0, <2>1 DEF InSeq
  <2>2. CASE i > Len(s)
    <3>1. i - Len(s) \in 1 .. Len(t) /\ t[i - Len(s)] = e
      BY <1>1, <1>2, <2>0, <2>2
    <3>. QED  BY <3>1 DEF InSeq
  <2>. QED  BY <2>0, <2>1, <2>2
<1>. QED  BY <1>1, <1>2 DEF InSeq

LEMMA InTail ==
  ASSUME NEW S, NEW s \in Seq(S), s # <<>>, NEW e
  PROVE  /\ Tail(s) \in Seq(S) /\ Head(s) \in S
         /\ InSeq(Head(s), s)
         /\ InSeq(e, Tail(s)) => InSeq(e, s)
<1>1. /\ Tail(s) \in Seq(S) /\ Len(Tail(s)) = Len(s) - 1
      /\ \A i \in 1 .. Len(Tail(s)) : Tail(s)[i] = s[i + 1]
      /\ Head(s) = s[1] /\ Len(s) \in Nat /\ Len(s) > 0
  BY HeadTailProperties
<1>2. ASSUME NEW i \in 1 .. Len(Tail(s)), Tail(s)[i] = e
      PROVE  InSeq(e, s)
  <2>1. i + 1 \in 1 .. Len(s) /\ s[i + 1] = e
    BY <1>1, <1>2
  <2>. QED  BY <2>1 DEF InSeq
<1>3. 1 \in 1 .. Len(s) /\ Head(s) \in S
  BY <1>1
<1>. QED  BY <1>1, <1>2, <1>3 DEF InSeq

LEMMA InShort ==
  ASSUME NEW e
  PROVE  /\ ~InSeq(e, <<>>)
         /\ \A x : InSeq(e, <<x>>) => e = x
  BY DEF InSeq

(* The events of a change of mode.                                         *)
LEMMA ModeEventsAre ==
  ASSUME NEW d, NEW m
  PROVE  /\ ModeEvents(d, m) \in Seq(EventNames)
         /\ ~InSeq("got_ip", ModeEvents(d, m))
         /\ HasSta(m) \/ d.link = "down" => ~InSeq("sta_disconnected", ModeEvents(d, m))
<1>. DEFINE a == IF ~HasSta(m) /\ d.link # "down" THEN <<"sta_disconnected">> ELSE <<>>
            b == IF HasAp(d.mode) /\ ~HasAp(m) THEN <<"ap_stop">> ELSE <<>>
            c == IF ~HasAp(d.mode) /\ HasAp(m) THEN <<"ap_start">> ELSE <<>>
<1>1. ModeEvents(d, m) = (a \o b) \o c
  BY Zenon DEF ModeEvents
<1>2. a \in Seq(EventNames) /\ b \in Seq(EventNames) /\ c \in Seq(EventNames)
  BY DEF EventNames
<1>3. /\ ~InSeq("got_ip", a) /\ ~InSeq("got_ip", b) /\ ~InSeq("got_ip", c)
      /\ ~InSeq("sta_disconnected", b) /\ ~InSeq("sta_disconnected", c)
      /\ HasSta(m) \/ d.link = "down" => ~InSeq("sta_disconnected", a)
  BY InShort
<1>. HIDE DEF a, b, c
<1>4. a \o b \in Seq(EventNames)
  BY <1>2, InConcat
<1>5. ASSUME NEW e
      PROVE  /\ (a \o b) \o c \in Seq(EventNames)
             /\ InSeq(e, (a \o b) \o c) => InSeq(e, a) \/ InSeq(e, b) \/ InSeq(e, c)
  BY <1>2, <1>4, InConcat
<1>. QED  BY <1>1, <1>3, <1>5

LEMMA LeftEventsAre ==
  ASSUME NEW d
  PROVE  /\ LeftEvents(d) \in Seq(EventNames)
         /\ ~InSeq("got_ip", LeftEvents(d))
         /\ d.link = "down" => ~InSeq("sta_disconnected", LeftEvents(d))
<1>1. LeftEvents(d) \in {<<>>, <<"sta_disconnected">>}
  BY DEF LeftEvents
<1>2. <<>> \in Seq(EventNames) /\ <<"sta_disconnected">> \in Seq(EventNames)
  BY DEF EventNames
<1>3. d.link = "down" => LeftEvents(d) = <<>>
  BY DEF LeftEvents
<1>. QED  BY <1>1, <1>2, <1>3, InShort

(* What a step posts, and no other event, comes to the queue.              *)
LEMMA Posts ==
  ASSUME events \in Seq(EventNames), NEW es \in Seq(EventNames), Post(es), NEW e
  PROVE  /\ events' \in Seq(EventNames)
         /\ Waiting(e)' => Waiting(e) \/ InSeq(e, es)
  BY InConcat DEF Post, Waiting

LEMMA NoneWaits ==
  ASSUME events = <<>>, NEW e
  PROVE  ~Waiting(e)
  BY InShort DEF Waiting

-----------------------------------------------------------------------------
(* What the helpers return. *)

RamSet == [ssid : Names, pass : Names, auto : {"yes", "no"}, ident : {Empty, "named"}]
MgrSet == [state : {"idle", "connecting", "connected", "ap_mode", "error"},
           station : BOOLEAN, ap : BOOLEAN, retry : 0 .. MaxRetries, pending : BOOLEAN]
DrvSet == [mode : Modes, ssid : Names, pass : Names,
           link : {"down", "trying", "up"}, address : BOOLEAN]
PcSet  == [main   : {"off", "loaded", "up"},
           button : Keys \cup {"idle", "forget", "ap"},
           httpd  : {"idle", "pass", "driver", "dial", "name", "scan"}]
WritesSet == {<<>>, <<"auto">>, <<"pass", "auto">>, StationKeys}

Rest == /\ orig \in Modes /\ asked \in Names
        /\ requests \in 0 .. MaxRequests /\ cuts \in 0 .. MaxCuts
        /\ reset \in {"no", "running", "done"} /\ lostScan \in BOOLEAN
NvsTyped == nvs \in [Keys -> Networks \cup {Absent, Empty, "yes", "no", "named"}] /\ Stored

LEMMA TypesAre ==
  /\ TypeOK /\ Stored <=>
       /\ NvsTyped /\ ram \in RamSet /\ mgr \in MgrSet /\ drv \in DrvSet /\ Rest
       /\ events \in Seq(EventNames) /\ writes \in WritesSet /\ pc \in PcSet
  /\ TypeOK' /\ Stored' <=>
       /\ NvsTyped' /\ ram' \in RamSet /\ mgr' \in MgrSet /\ drv' \in DrvSet /\ Rest'
       /\ events' \in Seq(EventNames) /\ writes' \in WritesSet /\ pc' \in PcSet
  BY DEF TypeOK, NvsTyped, RamSet, MgrSet, DrvSet, PcSet, WritesSet, Rest

LEMMA InModeIs ==
  ASSUME NEW d \in DrvSet, NEW m \in Modes
  PROVE  /\ InMode(d, m) \in DrvSet
         /\ InMode(d, m).mode = m
         /\ InMode(d, m).ssid = d.ssid /\ InMode(d, m).pass = d.pass
         /\ InMode(d, m).link = IF HasSta(m) THEN d.link ELSE "down"
  BY DEF InMode, DrvSet

LEMMA DialingIs ==
  ASSUME NEW d \in DrvSet
  PROVE  /\ Dialing(d) \in DrvSet
         /\ Dialing(d).mode = d.mode
         /\ Dialing(d).ssid = d.ssid /\ Dialing(d).pass = d.pass
         /\ Dialing(d).link = IF HasSta(d.mode) THEN "trying" ELSE d.link
  BY DEF Dialing, DrvSet

LEMMA ConfiguredIs ==
  ASSUME ram \in RamSet, NEW d \in DrvSet
  PROVE  /\ Configured(d) \in DrvSet
         /\ Configured(d).mode = "sta"
         /\ Configured(d).ssid = ram.ssid /\ Configured(d).pass = ram.pass
         /\ Configured(d).link = d.link
<1>. DEFINE i == InMode(d, "sta")
<1>1. i \in DrvSet /\ i.mode = "sta" /\ i.link = d.link
  BY InModeIs DEF Modes, HasSta
<1>2. ram.ssid \in Names /\ ram.pass \in Names
  BY DEF RamSet
<1>. HIDE DEF i
<1>3. [i EXCEPT !.ssid = ram.ssid, !.pass = ram.pass] \in DrvSet
  BY <1>1, <1>2 DEF DrvSet
<1>4. Configured(d) = [i EXCEPT !.ssid = ram.ssid, !.pass = ram.pass]
  BY DEF Configured, i
<1>. QED  BY <1>1, <1>3, <1>4 DEF DrvSet

LEMMA StartsApIs ==
  ASSUME drv \in DrvSet, events \in Seq(EventNames), StartsAp
  PROVE  /\ drv' \in DrvSet /\ events' \in Seq(EventNames)
         /\ drv'.mode = "ap" /\ drv'.link = "down"
         /\ drv'.ssid = drv.ssid /\ drv'.pass = drv.pass
         /\ Waiting("got_ip")' => Waiting("got_ip")
<1>1. "ap" \in Modes /\ ~HasSta("ap")
  BY DEF Modes, HasSta
<1>. QED  BY <1>1, InModeIs, ModeEventsAre, Posts DEF StartsAp

LEMMA GoesIs ==
  ASSUME pc \in PcSet, NEW l
  PROVE  /\ Goes("main", l) /\ l \in {"off", "loaded", "up"} =>
              pc' \in PcSet /\ pc'.main = l /\ pc'.button = pc.button /\ pc'.httpd = pc.httpd
         /\ Goes("button", l) /\ l \in Keys \cup {"idle", "forget", "ap"} =>
              pc' \in PcSet /\ pc'.button = l /\ pc'.main = pc.main /\ pc'.httpd = pc.httpd
         /\ Goes("httpd", l) /\ l \in {"idle", "pass", "driver", "dial", "name", "scan"} =>
              pc' \in PcSet /\ pc'.httpd = l /\ pc'.button = pc.button /\ pc'.main = pc.main
  BY DEF Goes, PcSet

LEMMA AfterEraseIs ==
  /\ AfterErase("ssid") = "pass" /\ AfterErase("pass") = "auto" /\ AfterErase("auto") = "ident"
  /\ AfterErase("ident") = "legacy" /\ AfterErase("legacy") = "ap"
<1>. DEFINE At2(k) == CHOOSE j \in DOMAIN EraseOrder : EraseOrder[j] = k
<1>1. DOMAIN EraseOrder = 1 .. 5 /\ Len(EraseOrder) = 5
      /\ EraseOrder[1] = "ssid" /\ EraseOrder[2] = "pass" /\ EraseOrder[3] = "auto"
      /\ EraseOrder[4] = "ident" /\ EraseOrder[5] = "legacy"
  BY DEF EraseOrder
<1>2. ASSUME NEW i \in 1 .. 5
      PROVE  At2(EraseOrder[i]) = i
  <2>1. \A j \in 1 .. 5 : EraseOrder[j] = EraseOrder[i] => j = i
    BY <1>1
  <2>. QED  BY <1>1, <2>1
<1>3. At2("ssid") = 1 /\ At2("pass") = 2 /\ At2("auto") = 3 /\ At2("ident") = 4 /\ At2("legacy") = 5
  BY <1>1, <1>2
<1>4. \A k : AfterErase(k) = IF At2(k) = 5 THEN "ap" ELSE EraseOrder[At2(k) + 1]
  BY <1>1 DEF AfterErase
<1>. HIDE DEF At2
<1>. QED  BY <1>1, <1>3, <1>4

LEMMA KeysAre ==
  Keys = {"ssid", "pass", "auto", "ident", "legacy"}
  BY DEF Keys, NewKeys

(* What a boot reads.                                                      *)
LEMMA LoadedIs ==
  ASSUME NvsTyped
  PROVE  /\ Loaded \in RamSet
         /\ nvs["legacy"] = Absent /\ nvs["ssid"] \in {Absent, Empty} => Loaded.ssid = Empty
         /\ nvs["legacy"] = Absent /\ nvs["ident"] = Absent => Loaded.ident = Empty
         /\ nvs["legacy"] = Absent => ~Imported
<1>1. Empty \in Names /\ Networks \subseteq Names
  BY DEF Names
<1>2. CASE Imported
  <2>1. nvs["legacy"] \in Networks /\ nvs["legacy"] # Absent
    BY <1>2 DEF Imported, NvsTyped, Stored
  <2>2. Loaded = [ssid |-> nvs["legacy"], pass |-> nvs["legacy"], auto |-> "yes", ident |-> Empty]
    BY <1>2 DEF Loaded, Defaults
  <2>. QED  BY <1>1, <2>1, <2>2 DEF RamSet
<1>3. CASE ~Imported
  <2>1. Loaded = [ssid |-> Or("ssid", Empty), pass |-> Or("pass", Empty),
                  auto |-> Or("auto", "no"), ident |-> Or("ident", Empty)]
    BY <1>3 DEF Loaded
  <2>2. /\ Or("ssid", Empty) \in Names /\ Or("pass", Empty) \in Names
        /\ Or("auto", "no") \in {"yes", "no"} /\ Or("ident", Empty) \in {Empty, "named"}
    BY <1>1 DEF Or, NvsTyped, Stored
  <2>3. /\ nvs["ssid"] \in {Absent, Empty} => Or("ssid", Empty) = Empty
        /\ nvs["ident"] = Absent => Or("ident", Empty) = Empty
    BY DEF Or
  <2>. QED  BY <1>3, <2>1, <2>2, <2>3 DEF RamSet
<1>. QED  BY <1>2, <1>3

-----------------------------------------------------------------------------
(* The types. *)

Types == TypeOK /\ Stored

FrameRest == UNCHANGED <<orig, asked, history>>

LEMMA RestKept ==
  ASSUME Rest, FrameRest
  PROVE  Rest'
  BY DEF Rest, FrameRest, history

(* One key of a save.                                                      *)
LEMMA WritesKeyIs ==
  ASSUME Types, WritesKey
  PROVE  /\ NvsTyped' /\ writes' \in WritesSet
         /\ nvs'["ident"] = nvs["ident"] /\ nvs'["legacy"] = nvs["legacy"]
         /\ nvs'["ssid"] \in {nvs["ssid"], ram.ssid}
<1>1. NvsTyped /\ ram \in RamSet /\ writes \in WritesSet \ {<<>>}
  BY TypesAre DEF Types, WritesKey
<1>2. /\ Head(writes) \in {"ssid", "pass", "auto"} /\ Tail(writes) \in WritesSet
  <2>1. CASE writes = <<"auto">>
    BY <2>1 DEF WritesSet
  <2>2. CASE writes = <<"pass", "auto">>
    BY <2>2 DEF WritesSet
  <2>3. CASE writes = StationKeys
    BY <2>3 DEF WritesSet, StationKeys
  <2>. QED  BY <1>1, <2>1, <2>2, <2>3 DEF WritesSet
<1>3. PICK k \in {"ssid", "pass", "auto"} : k = Head(writes)
  BY <1>2
<1>4. nvs' = [nvs EXCEPT ![k] = ram[k]] /\ writes' = Tail(writes)
  BY <1>3 DEF WritesKey
<1>5. /\ ram["ssid"] \in Names /\ ram["pass"] \in Names /\ ram["auto"] \in {"yes", "no"}
      /\ ram["ssid"] = ram.ssid
  BY <1>1 DEF RamSet
<1>6. ram[k] \in Networks \cup {Absent, Empty, "yes", "no", "named"}
  BY <1>5 DEF Names
<1>7. nvs' \in [Keys -> Networks \cup {Absent, Empty, "yes", "no", "named"}]
  BY <1>1, <1>4, <1>6 DEF NvsTyped
<1>8. \A j \in Keys : nvs'[j] = IF j = k THEN ram[k] ELSE nvs[j]
  BY <1>1, <1>4 DEF NvsTyped
<1>9. Stored'
  BY <1>1, <1>5, <1>8, KeysAre DEF NvsTyped, Stored
<1>. QED  BY <1>2, <1>4, <1>5, <1>7, <1>8, <1>9, KeysAre DEF NvsTyped

LEMMA FlashTypes ==
  ASSUME Types, WritesKey \/ WriteFails
  PROVE  Types'
<1>. USE TypesAre DEF Types
<1>1. CASE WritesKey
  <2>1. NvsTyped' /\ writes' \in WritesSet
    BY <1>1, WritesKeyIs
  <2>2. FrameRest /\ UNCHANGED <<ram, mgr, drv, events, pc>>
    BY <1>1 DEF WritesKey, FrameRest
  <2>. QED  BY <2>1, <2>2, RestKept
<1>2. CASE WriteFails
  <2>1. writes' \in WritesSet /\ NvsTyped'
    BY <1>2 DEF WriteFails, WritesSet, NvsTyped, Stored
  <2>2. FrameRest /\ UNCHANGED <<ram, mgr, drv, events, pc>>
    BY <1>2 DEF WriteFails, FrameRest
  <2>. QED  BY <2>1, <2>2, RestKept
<1>. QED  BY <1>1, <1>2

(* A step that leaves the flash alone.                                     *)
LEMMA NvsKept ==
  ASSUME NvsTyped, UNCHANGED nvs
  PROVE  NvsTyped'
  BY DEF NvsTyped, Stored

LEMMA EventIs ==
  ASSUME events \in Seq(EventNames), NEW e, Receives(e)
  PROVE  /\ Tail(events) \in Seq(EventNames) /\ Waiting(e)
         /\ \A x : InSeq(x, Tail(events)) => Waiting(x)
         /\ UNCHANGED <<nvs, pc>> /\ FrameRest
  BY InTail DEF Receives, Waiting, FrameRest

LEMMA EventTypes ==
  ASSUME Types, EventTask
  PROVE  Types'
<1>. USE TypesAre DEF Types
<1>. NvsTyped /\ ram \in RamSet /\ mgr \in MgrSet /\ drv \in DrvSet /\ Rest
     /\ events \in Seq(EventNames) /\ writes \in WritesSet /\ pc \in PcSet
  OBVIOUS
<1>0. ASSUME NEW e, Receives(e)
      PROVE  NvsTyped' /\ Rest' /\ pc' = pc /\ Tail(events) \in Seq(EventNames)
  BY <1>0, EventIs, RestKept, NvsKept
<1>1. mgr.retry \in Nat /\ mgr.retry \in 0 .. MaxRetries /\ MaxRetries \in Nat
  BY BoundsAssumption DEF MgrSet
<1>2. CASE StaConnected
  BY <1>0, <1>2 DEF StaConnected, MgrSet
<1>3. CASE StaDisconnected
  <2>1. mgr' \in MgrSet
    <3>1. mgr.retry < MaxRetries => mgr.retry + 1 \in 0 .. MaxRetries
      BY <1>1
    <3>2. CASE mgr.retry < MaxRetries
      BY <1>3, <3>1, <3>2 DEF StaDisconnected, MgrSet
    <3>3. CASE ~(mgr.retry < MaxRetries)
      BY <1>3, <3>3 DEF StaDisconnected, MgrSet
    <3>. QED  BY <3>2, <3>3
  <2>2. drv' \in DrvSet
    BY <1>3, DialingIs DEF StaDisconnected
  <2>3. Receives("sta_disconnected")
    BY <1>3 DEF StaDisconnected
  <2>4. events' \in {Tail(events), Tail(events) \o LeftEvents(drv)}
    BY <1>3 DEF StaDisconnected
  <2>5. events' \in Seq(EventNames)
    <3>1. LeftEvents(drv) \in Seq(EventNames) /\ Tail(events) \in Seq(EventNames)
      BY <1>0, <2>3, LeftEventsAre
    <3>2. Tail(events) \o LeftEvents(drv) \in Seq(EventNames)
      BY <3>1, ConcatProperties
    <3>. QED  BY <2>4, <3>1, <3>2
  <2>6. UNCHANGED <<ram, writes>>
    BY <1>3 DEF StaDisconnected
  <2>. QED  BY <1>0, <2>1, <2>2, <2>3, <2>5, <2>6
<1>4. CASE ApStart
  BY <1>0, <1>4 DEF ApStart, MgrSet
<1>5. CASE ApStop
  BY <1>0, <1>5 DEF ApStop, MgrSet
<1>6. CASE GotIp
  <2>0. 0 \in 0 .. MaxRetries
    BY <1>1
  <2>1. mgr' \in MgrSet
    BY <1>6, <2>0 DEF GotIp, MgrSet
  <2>2. ram' \in RamSet /\ writes' \in WritesSet
    BY <1>6 DEF GotIp, RamSet, WritesSet
  <2>. QED  BY <1>0, <1>6, <2>1, <2>2 DEF GotIp
<1>. QED  BY <1>2, <1>3, <1>4, <1>5, <1>6 DEF EventTask

LEMMA DriverTypes ==
  ASSUME Types, Driver
  PROVE  Types'
<1>. USE TypesAre DEF Types
<1>1. /\ <<"sta_connected">> \in Seq(EventNames) /\ <<"sta_disconnected">> \in Seq(EventNames)
      /\ <<"got_ip">> \in Seq(EventNames)
  BY DEF EventNames
<1>2. events' \in Seq(EventNames)
  BY <1>1, Posts DEF Driver, Associates, Drops, GetsAddress
<1>3. drv' \in DrvSet
  BY DEF Driver, Associates, Drops, GetsAddress, DrvSet
<1>4. UNCHANGED <<nvs, ram, writes, mgr, pc>> /\ FrameRest
  BY DEF Driver, Associates, Drops, GetsAddress, settings, FrameRest
<1>. QED  BY <1>2, <1>3, <1>4, RestKept, NvsKept

LEMMA MainTypes ==
  ASSUME Types, Main
  PROVE  Types'
<1>. USE TypesAre DEF Types
<1>. NvsTyped /\ ram \in RamSet /\ mgr \in MgrSet /\ drv \in DrvSet /\ Rest
     /\ events \in Seq(EventNames) /\ writes \in WritesSet /\ pc \in PcSet
  OBVIOUS
<1>1. CASE Boots
  <2>1. ram' \in RamSet /\ writes' \in WritesSet
    BY <1>1, LoadedIs DEF Boots, WritesSet
  <2>2. pc' \in PcSet
    BY <1>1, GoesIs DEF Boots
  <2>3. UNCHANGED <<nvs, mgr, drv, events>> /\ FrameRest
    BY <1>1 DEF Boots, FrameRest
  <2>. QED  BY <2>1, <2>2, <2>3, RestKept, NvsKept
<1>2. CASE Starts
  <2>1. pc' \in PcSet /\ UNCHANGED <<nvs, ram, writes>> /\ FrameRest
    BY <1>2, GoesIs DEF Starts, FrameRest, settings
  <2>2. CASE Joins(ram)
    <3>1. drv' \in DrvSet /\ events' = events
      BY <1>2, <2>2, ConfiguredIs, DialingIs DEF Starts
    <3>2. 0 \in 0 .. MaxRetries
      BY BoundsAssumption
    <3>3. mgr' \in MgrSet
      BY <1>2, <2>2, <3>2 DEF Starts, MgrSet
    <3>. QED  BY <2>1, <3>1, <3>3, RestKept, NvsKept
  <2>3. CASE ~Joins(ram)
    <3>1. drv' \in DrvSet /\ events' \in Seq(EventNames) /\ mgr' = mgr
      BY <1>2, <2>3, StartsApIs DEF Starts
    <3>. QED  BY <2>1, <3>1, RestKept, NvsKept
  <2>. QED  BY <2>2, <2>3
<1>. QED  BY <1>1, <1>2 DEF Main

LEMMA RestoresModeIs ==
  ASSUME Types, RestoresMode
  PROVE  /\ drv' \in DrvSet /\ events' \in Seq(EventNames)
         /\ drv'.mode = orig /\ drv'.ssid = drv.ssid /\ drv'.pass = drv.pass
         /\ drv'.link = IF HasSta(orig) THEN drv.link ELSE "down"
<1>1. drv \in DrvSet /\ orig \in Modes /\ events \in Seq(EventNames)
  BY TypesAre DEF Types, Rest
<1>. QED  BY <1>1, InModeIs, ModeEventsAre, Posts DEF RestoresMode

LEMMA HttpdTypes ==
  ASSUME Types, Httpd
  PROVE  Types'
<1>. USE TypesAre DEF Types
<1>. NvsTyped /\ ram \in RamSet /\ mgr \in MgrSet /\ drv \in DrvSet /\ Rest
     /\ events \in Seq(EventNames) /\ writes \in WritesSet /\ pc \in PcSet
  OBVIOUS
<1>1. pc' \in PcSet
  BY GoesIs DEF Httpd, CopiesPassword, SetsDriver, Dials, SavesName, CleansUp, LosesClient
<1>2. CASE CopiesPassword
  <2>1. ram' \in RamSet /\ Rest'
    BY <1>2 DEF CopiesPassword, RamSet, Rest, Names, history
  <2>. QED  BY <1>1, <1>2, <2>1, NvsKept DEF CopiesPassword
<1>3. CASE SetsDriver
  <2>1. drv' \in DrvSet /\ events' \in Seq(EventNames)
    BY <1>3, ConfiguredIs, ModeEventsAre, Posts DEF SetsDriver
  <2>2. UNCHANGED <<nvs, ram, writes, mgr>> /\ FrameRest
    BY <1>3 DEF SetsDriver, settings, FrameRest
  <2>. QED  BY <1>1, <2>1, <2>2, RestKept, NvsKept
<1>4. CASE Dials
  <2>1. drv' \in DrvSet /\ events' \in Seq(EventNames)
    BY <1>4, DialingIs, LeftEventsAre, Posts DEF Dials
  <2>2. 0 \in 0 .. MaxRetries
    BY BoundsAssumption
  <2>3. mgr' \in MgrSet
    BY <1>4, <2>2 DEF Dials, MgrSet
  <2>4. UNCHANGED <<nvs, ram, writes>> /\ FrameRest
    BY <1>4 DEF Dials, settings, FrameRest
  <2>. QED  BY <1>1, <2>1, <2>3, <2>4, RestKept, NvsKept
<1>5. CASE SavesName
  <2>1. PICK v \in {Absent, "named"} : nvs' = [nvs EXCEPT !["ident"] = v]
    BY <1>5 DEF SavesName, RamSet
  <2>2. nvs' \in [Keys -> Networks \cup {Absent, Empty, "yes", "no", "named"}]
    BY <2>1 DEF NvsTyped
  <2>3. \A j \in Keys : nvs'[j] = IF j = "ident" THEN v ELSE nvs[j]
    BY <2>1 DEF NvsTyped
  <2>4. Stored'
    BY <2>3, KeysAre DEF NvsTyped, Stored
  <2>5. UNCHANGED <<ram, writes, mgr, drv, events>> /\ FrameRest
    BY <1>5 DEF SavesName, FrameRest
  <2>. QED  BY <1>1, <2>2, <2>4, <2>5, RestKept DEF NvsTyped
<1>6. CASE CleansUp
  <2>1. drv' \in DrvSet /\ events' \in Seq(EventNames)
    BY <1>6, RestoresModeIs DEF CleansUp
  <2>2. UNCHANGED <<nvs, ram, writes, mgr>> /\ FrameRest
    BY <1>6 DEF CleansUp, settings, FrameRest
  <2>. QED  BY <1>1, <2>1, <2>2, RestKept, NvsKept
<1>7. CASE LosesClient
  <2>1. Rest'
    BY <1>7 DEF LosesClient, Rest
  <2>. QED  BY <1>1, <1>7, <2>1, NvsKept DEF LosesClient, settings
<1>. QED  BY <1>2, <1>3, <1>4, <1>5, <1>6, <1>7 DEF Httpd

LEMMA ScanModeIs ==
  ASSUME Types, AsksScan
  PROVE  \E m \in Modes :
           /\ drv' = InMode(drv, m) /\ Post(ModeEvents(drv, m))
           /\ HasSta(m)
<1>1. drv.mode \in Modes
  BY TypesAre DEF Types, DrvSet
<1>. DEFINE m == CASE drv.mode = "ap" -> "apsta" [] drv.mode = "null" -> "sta" [] OTHER -> drv.mode
<1>2. m \in Modes /\ HasSta(m)
  BY <1>1 DEF Modes, HasSta
<1>3. drv' = InMode(drv, m) /\ Post(ModeEvents(drv, m))
  BY DEF AsksScan
<1>. HIDE DEF m
<1>. QED  BY <1>2, <1>3

LEMMA UserTypes ==
  ASSUME Types, User
  PROVE  Types'
<1>. USE TypesAre DEF Types
<1>. NvsTyped /\ ram \in RamSet /\ mgr \in MgrSet /\ drv \in DrvSet /\ Rest
     /\ events \in Seq(EventNames) /\ writes \in WritesSet /\ pc \in PcSet
  OBVIOUS
<1>0. ASSUME requests < MaxRequests, requests' = requests + 1
      PROVE  requests' \in 0 .. MaxRequests
  BY <1>0, BoundsAssumption DEF Rest
<1>1. requests' \in 0 .. MaxRequests /\ cuts' = cuts
  BY <1>0 DEF User, AsksConnect, AsksTooLong, AsksName, AsksScan, ResetBegins, Request
<1>2. ASSUME NEW n \in Networks, NEW p \in Networks \cup {Empty}, AsksConnect(n, p)
      PROVE  Types'
  <2>1. ram' \in RamSet /\ mgr' \in MgrSet
    BY <1>2 DEF AsksConnect, RamSet, MgrSet, Names
  <2>2. pc' \in PcSet
    BY <1>2, GoesIs DEF AsksConnect
  <2>3. Rest'
    BY <1>1, <1>2 DEF AsksConnect, Rest, Names
  <2>. QED  BY <1>2, <2>1, <2>2, <2>3, NvsKept DEF AsksConnect
<1>3. CASE AsksTooLong
  <2>1. mgr' \in MgrSet
    BY <1>3 DEF AsksTooLong, MgrSet
  <2>2. Rest'
    BY <1>1, <1>3 DEF AsksTooLong, Rest
  <2>. QED  BY <1>3, <2>1, <2>2, NvsKept DEF AsksTooLong, settings
<1>4. CASE AsksName
  <2>1. ram' \in RamSet
    BY <1>4 DEF AsksName, Renames, RamSet
  <2>2. pc' \in PcSet
    BY <1>4, GoesIs DEF AsksName
  <2>3. Rest'
    BY <1>1, <1>4 DEF AsksName, Rest
  <2>. QED  BY <1>4, <2>1, <2>2, <2>3, NvsKept DEF AsksName
<1>5. CASE AsksScan
  <2>1. drv' \in DrvSet /\ events' \in Seq(EventNames)
    BY <1>5, ScanModeIs, InModeIs, ModeEventsAre, Posts
  <2>2. pc' \in PcSet
    BY <1>5, GoesIs DEF AsksScan
  <2>3. Rest'
    BY <1>1, <1>5 DEF AsksScan, Rest, DrvSet
  <2>. QED  BY <1>5, <2>1, <2>2, <2>3, NvsKept DEF AsksScan, settings
<1>6. CASE ResetBegins
  <2>1. drv' \in DrvSet /\ mgr' \in MgrSet
    BY <1>6 DEF ResetBegins, DrvSet, MgrSet
  <2>2. <<>> \in Seq(EventNames) /\ <<"sta_disconnected">> \in Seq(EventNames)
    BY DEF EventNames
  <2>3. events' \in Seq(EventNames)
    BY <1>6, <2>2, Posts DEF ResetBegins
  <2>4. pc' \in PcSet
    BY <1>6, GoesIs DEF ResetBegins
  <2>5. Rest'
    BY <1>1, <1>6 DEF ResetBegins, Rest
  <2>. QED  BY <1>6, <2>1, <2>3, <2>4, <2>5, NvsKept DEF ResetBegins, settings
<1>. QED  BY <1>2, <1>3, <1>4, <1>5, <1>6 DEF User

LEMMA ErasesKeyIs ==
  ASSUME Types, ErasesKey
  PROVE  /\ NvsTyped' /\ pc' \in PcSet
         /\ pc.button \in Keys /\ pc'.button = AfterErase(pc.button)
         /\ pc'.button \in Keys \cup {"ap"}
         /\ pc'.httpd = pc.httpd /\ pc'.main = pc.main
         /\ \A j \in Keys : nvs'[j] = IF j = pc.button THEN Absent ELSE nvs[j]
<1>1. NvsTyped /\ pc \in PcSet /\ pc.button \in Keys /\ nvs' = [nvs EXCEPT ![pc.button] = Absent]
  BY TypesAre DEF Types, ErasesKey
<1>2. nvs' \in [Keys -> Networks \cup {Absent, Empty, "yes", "no", "named"}]
  BY <1>1 DEF NvsTyped
<1>3. \A j \in Keys : nvs'[j] = IF j = pc.button THEN Absent ELSE nvs[j]
  BY <1>1 DEF NvsTyped
<1>4. Stored'
  BY <1>1, <1>3, KeysAre DEF NvsTyped, Stored
<1>5. AfterErase(pc.button) \in Keys \cup {"ap"}
  BY <1>1, AfterEraseIs, KeysAre
<1>6. pc' \in PcSet /\ pc'.button = AfterErase(pc.button) /\ pc'.httpd = pc.httpd /\ pc'.main = pc.main
  BY <1>1, <1>5, GoesIs DEF ErasesKey
<1>. QED  BY <1>1, <1>2, <1>3, <1>4, <1>5, <1>6 DEF NvsTyped

LEMMA EraseFailsIs ==
  ASSUME Types, EraseFails
  PROVE  /\ pc' \in PcSet /\ pc.button \in Keys /\ pc'.button \in Keys \cup {"ap"}
         /\ pc'.httpd = pc.httpd /\ pc'.main = pc.main /\ reset' = "no"
         /\ UNCHANGED <<nvs, ram, writes, mgr, orig, drv, events, asked, requests, cuts, lostScan>>
<1>1. pc \in PcSet /\ pc.button \in Keys
  BY TypesAre DEF Types, EraseFails
<1>2. PICK l \in Keys \cup {"ap"} : Goes("button", l)
  BY <1>1, AfterEraseIs, KeysAre DEF EraseFails
<1>3. pc' \in PcSet /\ pc'.button = l /\ pc'.httpd = pc.httpd /\ pc'.main = pc.main
  BY <1>1, <1>2, GoesIs, KeysAre
<1>. QED  BY <1>1, <1>3 DEF EraseFails

LEMMA ButtonTypes ==
  ASSUME Types, Button
  PROVE  Types'
<1>. USE TypesAre DEF Types
<1>. NvsTyped /\ ram \in RamSet /\ mgr \in MgrSet /\ drv \in DrvSet /\ Rest
     /\ events \in Seq(EventNames) /\ writes \in WritesSet /\ pc \in PcSet
  OBVIOUS
<1>1. CASE Forgets
  <2>1. ram' \in RamSet
    BY <1>1 DEF Forgets, Defaults, RamSet, Names
  <2>2. pc' \in PcSet
    BY <1>1, GoesIs, KeysAre DEF Forgets
  <2>3. FrameRest /\ UNCHANGED <<nvs, writes, mgr, drv, events>>
    BY <1>1 DEF Forgets, FrameRest
  <2>. QED  BY <2>1, <2>2, <2>3, RestKept, NvsKept
<1>2. CASE ErasesKey
  <2>1. NvsTyped' /\ pc' \in PcSet
    BY <1>2, ErasesKeyIs
  <2>2. Rest'
    BY <1>2 DEF ErasesKey, Rest
  <2>. QED  BY <1>2, <2>1, <2>2 DEF ErasesKey
<1>3. CASE OpensAp
  <2>1. drv' \in DrvSet /\ events' \in Seq(EventNames)
    BY <1>3, StartsApIs DEF OpensAp
  <2>2. pc' \in PcSet
    BY <1>3, GoesIs DEF OpensAp
  <2>3. FrameRest /\ UNCHANGED <<nvs, ram, writes, mgr>>
    BY <1>3 DEF OpensAp, FrameRest, settings
  <2>. QED  BY <2>1, <2>2, <2>3, RestKept, NvsKept
<1>4. CASE EraseFails
  <2>1. Rest'
    BY <1>4, EraseFailsIs DEF Rest
  <2>. QED  BY <1>4, <2>1, EraseFailsIs, NvsKept
<1>. QED  BY <1>1, <1>2, <1>3, <1>4 DEF Button

LEMMA InitialValues ==
  /\ Defaults \in RamSet /\ Unset \in MgrSet /\ Radio \in DrvSet /\ Resting \in PcSet
  /\ <<>> \in Seq(EventNames) /\ <<>> \in WritesSet
<1>1. 0 \in 0 .. MaxRetries
  BY BoundsAssumption
<1>. QED  BY <1>1 DEF Defaults, Unset, Radio, Resting, RamSet, MgrSet, DrvSet, PcSet, WritesSet,
                     Names, Modes

LEMMA PowerCutTypes ==
  ASSUME Types, PowerCut
  PROVE  Types'
<1>. USE TypesAre DEF Types
<1>1. cuts' \in 0 .. MaxCuts
  BY BoundsAssumption DEF PowerCut, Rest
<1>2. Rest'
  BY <1>1 DEF PowerCut, Rest, Modes, Names
<1>. QED  BY <1>2, InitialValues, NvsKept DEF PowerCut

LEMMA InitTypes ==
  ASSUME Init
  PROVE  Types
<1>1. NvsTyped
  BY KeysAre DEF Init, NvsTyped, Stored
<1>2. Rest
  <2>1. orig = "null" /\ asked = Empty /\ requests = 0 /\ cuts = 0 /\ reset = "no"
        /\ lostScan = FALSE
    BY DEF Init
  <2>2. 0 \in 0 .. MaxRequests /\ 0 \in 0 .. MaxCuts
    BY BoundsAssumption
  <2>. QED  BY <2>1, <2>2 DEF Rest, Modes, Names
<1>. QED  BY <1>1, <1>2, InitialValues, TypesAre DEF Init, Types

LEMMA StepTypes ==
  ASSUME Types, [Next]_vars
  PROVE  Types'
<1>1. CASE UNCHANGED vars
  BY <1>1 DEF vars, settings, history, Types, TypeOK, Stored
<1>. QED  BY <1>1, EventTypes, DriverTypes, HttpdTypes, ButtonTypes, MainTypes, UserTypes,
             FlashTypes, PowerCutTypes DEF Next

-----------------------------------------------------------------------------
(* A reset is final. *)

LEMMA ResetUnmoved ==
  ASSUME ResetWorks, UNCHANGED <<nvs, reset>>,
         ram'.ssid = ram.ssid, ram'.ident = ram.ident,
         pc'.button = pc.button, pc'.main \in {pc.main, "up"},
         pc.httpd \in {"idle", "scan"} => pc'.httpd \in {"idle", "scan"}
  PROVE  ResetWorks'
  BY DEF ResetWorks, Cleared

LEMMA ResetStep ==
  ASSUME Types, ResetWorks, [Next]_vars
  PROVE  ResetWorks'
<1>. NvsTyped /\ ram \in RamSet /\ pc \in PcSet
  BY TypesAre DEF Types
<1>1. CASE EventTask
  <2>1. UNCHANGED <<nvs, reset, pc>>
    BY <1>1 DEF EventTask, StaConnected, StaDisconnected, ApStart, ApStop, GotIp, Receives, history
  <2>2. ram'.ssid = ram.ssid /\ ram'.ident = ram.ident
    BY <1>1 DEF EventTask, StaConnected, StaDisconnected, ApStart, ApStop, GotIp, RamSet
  <2>. QED  BY <2>1, <2>2, ResetUnmoved
<1>2. CASE Driver \/ WriteFails \/ UNCHANGED vars
  <2>1. UNCHANGED <<nvs, ram, reset, pc>>
    BY <1>2 DEF Driver, Associates, Drops, GetsAddress, WriteFails, vars, settings, history
  <2>. QED  BY <2>1, ResetUnmoved
<1>3. CASE Httpd
  <2>1. CASE SavesName
    <3>1. pc.httpd = "name" /\ reset' = reset
      BY <2>1 DEF SavesName, At, history
    <3>2. reset \notin {"running", "done"}
      BY <3>1 DEF ResetWorks
    <3>. QED  BY <3>1, <3>2 DEF ResetWorks, Cleared
  <2>2. CASE ~SavesName
    <3>1. UNCHANGED <<nvs, reset>> /\ ram'.ssid = ram.ssid /\ ram'.ident = ram.ident
      BY <1>3, <2>2 DEF Httpd, CopiesPassword, SetsDriver, Dials, CleansUp, LosesClient,
                        settings, history, RamSet
    <3>2. /\ pc'.button = pc.button /\ pc'.main = pc.main
          /\ pc.httpd \in {"idle", "scan"} => pc'.httpd \in {"idle", "scan"}
      BY <1>3, <2>2, GoesIs DEF Httpd, CopiesPassword, SetsDriver, Dials, CleansUp, LosesClient, At
    <3>. QED  BY <3>1, <3>2, ResetUnmoved
  <2>. QED  BY <2>1, <2>2
<1>4. CASE WritesKey
  <2>1. /\ nvs'["ident"] = nvs["ident"] /\ nvs'["legacy"] = nvs["legacy"]
        /\ nvs'["ssid"] \in {nvs["ssid"], ram.ssid}
    BY <1>4, WritesKeyIs
  <2>2. UNCHANGED <<ram, pc, reset>>
    BY <1>4 DEF WritesKey, history
  <2>3. Cleared({"pass", "auto", "ident", "legacy"}) => Cleared(Keys)
    BY KeysAre DEF Cleared
  <2>. QED  BY <2>1, <2>2, <2>3 DEF ResetWorks, Cleared
<1>5. CASE Boots
  <2>1. /\ pc.main = "off" /\ ram' = Loaded /\ UNCHANGED <<nvs, reset>>
        /\ pc'.button = pc.button /\ pc'.httpd = pc.httpd
    BY <1>5, GoesIs DEF Boots, At, history
  <2>2. reset # "running"
    BY <2>1 DEF ResetWorks
  <2>3. reset = "done" => Loaded.ssid = Empty /\ Loaded.ident = Empty
    BY LoadedIs DEF ResetWorks, Cleared
  <2>. QED  BY <2>1, <2>2, <2>3 DEF ResetWorks, Cleared
<1>6. CASE Starts
  <2>1. UNCHANGED <<nvs, ram, reset>>
    BY <1>6 DEF Starts, settings, history
  <2>2. pc'.main = "up" /\ pc'.button = pc.button /\ pc'.httpd = pc.httpd
    BY <1>6, GoesIs DEF Starts
  <2>. QED  BY <2>1, <2>2, ResetUnmoved
<1>7. CASE User
  <2>1. CASE reset' = "no"
    BY <2>1 DEF ResetWorks, Cleared
  <2>2. CASE AsksTooLong \/ AsksScan
    <3>1. UNCHANGED <<nvs, ram, reset>>
      BY <2>2 DEF AsksTooLong, AsksScan, settings
    <3>2. pc'.button = pc.button /\ pc'.main = pc.main /\ pc'.httpd \in {pc.httpd, "scan"}
      BY <2>2, GoesIs DEF AsksTooLong, AsksScan
    <3>. QED  BY <3>1, <3>2, ResetUnmoved
  <2>3. CASE ResetBegins /\ reset' # "no"
    <3>1. reset' = "running" /\ pc.httpd \in {"idle", "scan"} /\ pc.main = "up"
      BY <2>3 DEF ResetBegins, Up
    <3>2. pc'.button = "forget" /\ pc'.main = pc.main /\ pc'.httpd = pc.httpd
      BY <2>3, GoesIs DEF ResetBegins
    <3>3. ~Cleared(Keys)' /\ ~Cleared({"pass", "auto", "ident", "legacy"})' /\ ~Cleared({"legacy"})'
      BY <3>1, <3>2, KeysAre DEF Cleared
    <3>. QED  BY <3>1, <3>2, <3>3 DEF ResetWorks
  <2>. QED  BY <1>7, <2>1, <2>2, <2>3 DEF User, AsksConnect, AsksName
<1>8. CASE Forgets
  <2>1. pc.button = "forget" /\ pc'.button = "ssid" /\ pc'.main = pc.main /\ pc'.httpd = pc.httpd
    BY <1>8, GoesIs, KeysAre DEF Forgets, At
  <2>2. ram'.ssid = Empty /\ ram'.ident = Empty /\ UNCHANGED <<nvs, reset>>
    BY <1>8 DEF Forgets, Defaults, history
  <2>. QED  BY <2>1, <2>2, KeysAre DEF ResetWorks, Cleared
<1>9. CASE ErasesKey
  <2>1. /\ pc.button \in Keys /\ pc'.button = AfterErase(pc.button)
        /\ pc'.httpd = pc.httpd /\ pc'.main = pc.main
        /\ \A j \in Keys : nvs'[j] = IF j = pc.button THEN Absent ELSE nvs[j]
    BY <1>9, ErasesKeyIs
  <2>2. /\ ram' = ram
        /\ reset' = (IF pc'.button = "ap" /\ reset = "running" THEN "done" ELSE reset)
    BY <1>9, <2>1 DEF ErasesKey
  <2>3. /\ pc'.button = "ap" <=> pc.button = "legacy"
        /\ pc'.button \in {"pass", "auto", "ident", "legacy", "ap"}
        /\ pc'.button = "pass" <=> pc.button = "ssid"
        /\ pc'.button = "legacy" <=> pc.button = "ident"
    BY <2>1, AfterEraseIs, KeysAre
  <2>4. /\ reset' = "running" => reset = "running" /\ pc'.button \in Keys
        /\ reset' = "done" => reset = "done" \/ (reset = "running" /\ pc.button = "legacy")
    BY <2>2, <2>3, KeysAre
  <2>5. Cleared(Keys)' => Cleared(Keys)
    BY <2>1, <2>4 DEF Cleared
  <2>6. Cleared({"pass", "auto", "ident", "legacy"})' => nvs'["ssid"] \in {Absent, Empty}
    <3>1. Cleared({"pass", "auto", "ident", "legacy"})' =>
            Cleared({"pass", "auto", "ident", "legacy"}) \/ pc.button = "ssid"
      BY <2>1, <2>4, KeysAre DEF Cleared
    <3>. QED  BY <2>1, <3>1, KeysAre DEF ResetWorks
  <2>7. Cleared({"legacy"})' => nvs'["ident"] = Absent
    <3>1. Cleared({"legacy"})' => Cleared({"legacy"}) \/ pc.button = "ident"
      BY <2>3, <2>4 DEF Cleared
    <3>. QED  BY <2>1, <3>1, KeysAre DEF ResetWorks
  <2>8. reset' = "done" => nvs'["legacy"] = Absent
    BY <2>1, <2>4, KeysAre DEF ResetWorks
  <2>. QED  BY <2>1, <2>2, <2>4, <2>5, <2>6, <2>7, <2>8 DEF ResetWorks
<1>10. CASE OpensAp
  <2>1. pc.button = "ap" /\ UNCHANGED <<nvs, ram, reset>>
    BY <1>10 DEF OpensAp, At, settings, history
  <2>2. pc'.main = pc.main /\ pc'.httpd = pc.httpd
    BY <1>10, GoesIs DEF OpensAp
  <2>3. reset # "running"
    BY <2>1, KeysAre DEF ResetWorks
  <2>. QED  BY <2>1, <2>2, <2>3 DEF ResetWorks, Cleared
<1>11. CASE PowerCut
  <2>1. reset' \in {"no", reset} /\ reset' # "running" /\ nvs' = nvs
        /\ ram'.ssid = Empty /\ ram'.ident = Empty /\ pc'.httpd = "idle"
    BY <1>11 DEF PowerCut, Defaults, Resting
  <2>. QED  BY <2>1 DEF ResetWorks, Cleared
<1>12. CASE EraseFails
  BY <1>12, EraseFailsIs DEF ResetWorks, Cleared
<1>. QED  BY <1>1, <1>2, <1>3, <1>4, <1>5, <1>6, <1>7, <1>8, <1>9, <1>10, <1>11, <1>12
          DEF Next, Main, Button

-----------------------------------------------------------------------------
(* A scan leaves the mode it found. *)

LEMMA ScanUnmoved ==
  ASSUME ScanWorks, lostScan' \/ lostScan' = lostScan, orig' = orig, drv'.mode = drv.mode,
         pc'.httpd = "scan" <=> pc.httpd = "scan"
  PROVE  ScanWorks'
  BY DEF ScanWorks

LEMMA ScanStep ==
  ASSUME Types, ScanWorks, [Next]_vars
  PROVE  ScanWorks'
<1>. drv \in DrvSet /\ pc \in PcSet /\ orig \in Modes
  BY TypesAre DEF Types, Rest
<1>1. CASE EventTask
  <2>1. UNCHANGED <<orig, pc, lostScan>>
    BY <1>1 DEF EventTask, StaConnected, StaDisconnected, ApStart, ApStop, GotIp, Receives, history
  <2>2. drv'.mode = drv.mode
    BY <1>1, DialingIs DEF EventTask, StaConnected, StaDisconnected, ApStart, ApStop, GotIp
  <2>. QED  BY <2>1, <2>2, ScanUnmoved
<1>2. CASE Driver
  <2>1. UNCHANGED <<orig, pc, lostScan>> /\ drv'.mode = drv.mode
    BY <1>2 DEF Driver, Associates, Drops, GetsAddress, DrvSet, history
  <2>. QED  BY <2>1, ScanUnmoved
<1>3. CASE WritesKey \/ WriteFails \/ UNCHANGED vars
  <2>1. UNCHANGED <<orig, pc, lostScan, drv>>
    BY <1>3 DEF WritesKey, WriteFails, vars, history
  <2>. QED  BY <2>1, ScanUnmoved
<1>4. CASE CopiesPassword \/ Dials \/ SavesName
  <2>1. UNCHANGED <<orig, lostScan>> /\ drv'.mode = drv.mode
    BY <1>4, DialingIs DEF CopiesPassword, Dials, SavesName, history
  <2>2. pc.httpd # "scan" /\ pc'.httpd # "scan"
    BY <1>4, GoesIs DEF CopiesPassword, Dials, SavesName, At
  <2>. QED  BY <2>1, <2>2, ScanUnmoved
<1>5. CASE SetsDriver
  <2>1. drv'.mode = "sta" /\ pc'.httpd = "dial"
    BY <1>5, TypesAre, ConfiguredIs, GoesIs DEF SetsDriver, Types
  <2>. QED  BY <2>1 DEF ScanWorks
<1>6. CASE CleansUp
  <2>1. pc.httpd = "scan" /\ pc'.httpd = "idle" /\ lostScan' = lostScan /\ drv'.mode = orig
    BY <1>6, InModeIs, GoesIs DEF CleansUp, RestoresMode, At, history
  <2>. QED  BY <2>1 DEF ScanWorks
<1>7. CASE LosesClient
  BY <1>7 DEF LosesClient, ScanWorks
<1>8. CASE Boots
  <2>1. UNCHANGED <<orig, lostScan, drv>> /\ pc'.httpd = pc.httpd
    BY <1>8, GoesIs DEF Boots, history
  <2>. QED  BY <2>1, ScanUnmoved
<1>9. CASE Starts
  <2>1. drv'.mode \in {"sta", "ap"}
    <3>1. CASE Joins(ram)
      BY <1>9, <3>1, TypesAre, ConfiguredIs, DialingIs DEF Starts, Types
    <3>2. CASE ~Joins(ram)
      BY <1>9, <3>2, TypesAre, StartsApIs DEF Starts, Types
    <3>. QED  BY <3>1, <3>2
  <2>2. UNCHANGED <<orig, lostScan>> /\ pc'.httpd = pc.httpd
    BY <1>9, GoesIs DEF Starts, history
  <2>. QED  BY <2>1, <2>2 DEF ScanWorks
<1>10. ASSUME NEW n \in Networks, NEW p \in Networks \cup {Empty}, AsksConnect(n, p)
       PROVE  ScanWorks'
  <2>1. UNCHANGED <<orig, lostScan, drv>> /\ pc.httpd = "idle" /\ pc'.httpd = "pass"
    BY <1>10, GoesIs DEF AsksConnect, Request, At
  <2>. QED  BY <2>1, ScanUnmoved
<1>11. CASE AsksTooLong \/ AsksName
  <2>1. UNCHANGED <<orig, lostScan, drv>>
    BY <1>11 DEF AsksTooLong, AsksName
  <2>2. pc.httpd = "idle" /\ pc'.httpd \in {"idle", "name"}
    BY <1>11, GoesIs DEF AsksTooLong, AsksName, Request, At
  <2>. QED  BY <2>1, <2>2, ScanUnmoved
<1>12. CASE AsksScan
  <2>1. pc.httpd = "idle" /\ pc'.httpd = "scan" /\ orig' = drv.mode /\ lostScan' = lostScan
    BY <1>12, GoesIs DEF AsksScan, Request, At
  <2>. QED  BY <2>1 DEF ScanWorks
<1>13. CASE ResetBegins
  <2>1. UNCHANGED <<orig, lostScan>> /\ drv'.mode = drv.mode /\ pc'.httpd = pc.httpd
    BY <1>13, GoesIs DEF ResetBegins, DrvSet
  <2>. QED  BY <2>1, ScanUnmoved
<1>14. CASE Forgets \/ ErasesKey \/ EraseFails
  <2>1. UNCHANGED <<orig, lostScan, drv>>
    BY <1>14 DEF Forgets, ErasesKey, EraseFails, history
  <2>2. pc'.httpd = pc.httpd
    BY <1>14, GoesIs, ErasesKeyIs, EraseFailsIs, KeysAre DEF Forgets
  <2>. QED  BY <2>1, <2>2, ScanUnmoved
<1>15. CASE OpensAp
  <2>1. drv'.mode = "ap" /\ orig' = orig /\ lostScan' = lostScan
    BY <1>15, TypesAre, StartsApIs DEF OpensAp, Types, history
  <2>2. pc'.httpd = pc.httpd
    BY <1>15, GoesIs DEF OpensAp
  <2>. QED  BY <2>1, <2>2 DEF ScanWorks
<1>16. CASE PowerCut
  BY <1>16 DEF PowerCut, ScanWorks, Resting, Radio
<1>. QED  BY <1>1, <1>2, <1>3, <1>4, <1>5, <1>6, <1>7, <1>8, <1>9, <1>10, <1>11, <1>12, <1>13,
             <1>14, <1>15, <1>16 DEF Next, Httpd, Main, Button, User

-----------------------------------------------------------------------------
(* A link is to the network of the configuration. *)

LEMMA LinkStill ==
  ASSUME LinkWorks, UNCHANGED <<drv, events>>, pc'.main = pc.main,
         pc.httpd = "dial" => pc'.httpd = "dial"
  PROVE  LinkWorks'
  BY DEF LinkWorks, Genuine, Waiting

LEMMA LinkMoves ==
  ASSUME LinkWorks, drv'.ssid = drv.ssid, drv'.pass = drv.pass,
         drv'.link = "up" => drv.link = "up", Waiting("got_ip")' => Waiting("got_ip"),
         pc.httpd = "dial" => pc'.httpd = "dial",
         ~HasSta(drv'.mode) => drv'.link = "down", pc'.main = "up"
  PROVE  LinkWorks'
  BY DEF LinkWorks, Genuine

LEMMA LinkStep ==
  ASSUME Types, LinkWorks, [Next]_vars
  PROVE  LinkWorks'
<1>. drv \in DrvSet /\ pc \in PcSet /\ orig \in Modes /\ events \in Seq(EventNames) /\ ram \in RamSet
  BY TypesAre DEF Types, Rest
<1>1. CASE EventTask
  <2>1. PICK e : Receives(e)
    BY <1>1 DEF EventTask, StaConnected, StaDisconnected, ApStart, ApStop, GotIp
  <2>2. pc' = pc /\ Tail(events) \in Seq(EventNames)
        /\ (InSeq("got_ip", Tail(events)) => Waiting("got_ip"))
    BY <2>1, EventIs
  <2>3. pc.main = "up"
    BY <2>1 DEF Receives, LinkWorks
  <2>4. events' \in {Tail(events), Tail(events) \o LeftEvents(drv)}
    BY <1>1 DEF EventTask, StaConnected, StaDisconnected, ApStart, ApStop, GotIp
  <2>5. InSeq("got_ip", Tail(events) \o LeftEvents(drv)) => InSeq("got_ip", Tail(events))
    BY <2>2, LeftEventsAre, InConcat
  <2>6. Waiting("got_ip")' => Waiting("got_ip")
    BY <2>2, <2>4, <2>5 DEF Waiting
  <2>7. drv' \in {drv, Dialing(drv)}
    BY <1>1 DEF EventTask, StaConnected, StaDisconnected, ApStart, ApStop, GotIp
  <2>8. /\ drv'.ssid = drv.ssid /\ drv'.pass = drv.pass /\ (drv'.link = "up" => drv.link = "up")
        /\ (~HasSta(drv'.mode) => drv'.link = "down")
    BY <2>7, DialingIs DEF LinkWorks
  <2>. QED  BY <2>2, <2>3, <2>6, <2>8, LinkMoves
<1>2. CASE Associates
  <2>1. /\ drv'.mode = drv.mode /\ drv'.link = "up" /\ drv.link = "trying"
        /\ drv'.ssid \in Networks /\ drv'.pass = drv'.ssid /\ pc' = pc
    BY <1>2 DEF Associates, DrvSet
  <2>. QED  BY <2>1 DEF LinkWorks, Genuine
<1>3. CASE Drops
  <2>1. /\ drv'.ssid = drv.ssid /\ drv'.pass = drv.pass /\ drv'.link = "down" /\ pc' = pc
        /\ drv.link # "down"
    BY <1>3 DEF Drops, DrvSet
  <2>2. pc.main = "up"
    BY <2>1 DEF LinkWorks
  <2>3. <<"sta_disconnected">> \in Seq(EventNames)
    BY DEF EventNames
  <2>5. ~InSeq("got_ip", <<"sta_disconnected">>)
    BY InShort
  <2>4. Waiting("got_ip")' => Waiting("got_ip")
    BY <1>3, <2>3, <2>5, Posts DEF Drops
  <2>. QED  BY <2>1, <2>2, <2>4, LinkMoves
<1>4. CASE GetsAddress
  <2>1. /\ drv'.mode = drv.mode /\ drv'.ssid = drv.ssid /\ drv'.pass = drv.pass
        /\ drv'.link = "up" /\ drv.link = "up" /\ pc' = pc
    BY <1>4 DEF GetsAddress, DrvSet
  <2>. QED  BY <2>1 DEF LinkWorks, Genuine
<1>5. CASE WritesKey \/ WriteFails \/ UNCHANGED vars
  <2>1. UNCHANGED <<drv, events, pc>>
    BY <1>5 DEF WritesKey, WriteFails, vars
  <2>. QED  BY <2>1, LinkStill
<1>6. CASE CopiesPassword \/ SavesName \/ LosesClient
  <2>1. UNCHANGED <<drv, events>>
    BY <1>6 DEF CopiesPassword, SavesName, LosesClient
  <2>2. pc'.main = pc.main /\ pc.httpd # "dial"
    BY <1>6, GoesIs DEF CopiesPassword, SavesName, LosesClient, At
  <2>. QED  BY <2>1, <2>2, LinkStill
<1>7. CASE SetsDriver
  <2>1. drv'.mode = "sta" /\ pc'.httpd = "dial" /\ pc'.main = "up"
    BY <1>7, ConfiguredIs, GoesIs DEF SetsDriver, Up
  <2>. QED  BY <2>1 DEF LinkWorks, HasSta
<1>8. CASE Dials
  <2>1. pc'.main = "up" /\ events = <<>>
    BY <1>8, GoesIs DEF Dials, Up, Quiet
  <2>2. drv'.link # "up" /\ (~HasSta(drv'.mode) => drv'.link = "down")
    BY <1>8, DialingIs DEF Dials, LinkWorks
  <2>3. ~Waiting("got_ip")'
    BY <1>8, <2>1, LeftEventsAre, Posts, NoneWaits DEF Dials
  <2>. QED  BY <2>1, <2>2, <2>3 DEF LinkWorks
<1>9. CASE CleansUp
  <2>1. pc.httpd = "scan" /\ pc'.main = "up"
    BY <1>9, GoesIs DEF CleansUp, Up, At
  <2>2. /\ drv'.mode = orig /\ drv'.ssid = drv.ssid /\ drv'.pass = drv.pass
        /\ drv'.link = IF HasSta(orig) THEN drv.link ELSE "down"
    BY <1>9, RestoresModeIs DEF CleansUp
  <2>3. Waiting("got_ip")' => Waiting("got_ip")
    BY <1>9, ModeEventsAre, Posts DEF CleansUp, RestoresMode
  <2>. QED  BY <2>1, <2>2, <2>3, LinkMoves
<1>10. CASE Boots
  <2>1. UNCHANGED <<drv, events>> /\ pc.main = "off" /\ pc'.main = "loaded"
    BY <1>10, GoesIs DEF Boots, At
  <2>2. pc'.httpd = pc.httpd
    BY <1>10, GoesIs DEF Boots
  <2>. QED  BY <2>1, <2>2 DEF LinkWorks, Genuine, Waiting
<1>11. CASE Starts
  <2>1. pc'.main = "up" /\ drv.link = "down" /\ events = <<>>
    BY <1>11, GoesIs DEF Starts, At, LinkWorks
  <2>2. drv'.link # "up" /\ (~HasSta(drv'.mode) => drv'.link = "down") /\ ~Waiting("got_ip")'
    <3>1. CASE Joins(ram)
      <4>1. drv' = Dialing(Configured(drv)) /\ events' = <<>>
        BY <1>11, <2>1, <3>1 DEF Starts
      <4>2. drv'.mode = "sta" /\ drv'.link = "trying"
        BY <4>1, ConfiguredIs, DialingIs DEF HasSta
      <4>. QED  BY <4>1, <4>2, InShort DEF Waiting, HasSta
    <3>2. CASE ~Joins(ram)
      BY <1>11, <2>1, <3>2, StartsApIs, NoneWaits DEF Starts
    <3>. QED  BY <3>1, <3>2
  <2>. QED  BY <2>1, <2>2 DEF LinkWorks
<1>12. ASSUME NEW n \in Networks, NEW p \in Networks \cup {Empty}, AsksConnect(n, p)
       PROVE  LinkWorks'
  <2>1. UNCHANGED <<drv, events>> /\ pc.httpd = "idle" /\ pc'.main = pc.main
    BY <1>12, GoesIs DEF AsksConnect, Request, At
  <2>. QED  BY <2>1, LinkStill
<1>13. CASE AsksTooLong \/ AsksName
  <2>1. UNCHANGED <<drv, events>> /\ pc.httpd = "idle" /\ pc'.main = pc.main
    BY <1>13, GoesIs DEF AsksTooLong, AsksName, Request, At
  <2>. QED  BY <2>1, LinkStill
<1>14. CASE AsksScan
  <2>1. pc.httpd = "idle" /\ pc'.main = "up"
    BY <1>14, GoesIs DEF AsksScan, Request, Up, At
  <2>2. PICK m \in Modes : drv' = InMode(drv, m) /\ Post(ModeEvents(drv, m)) /\ HasSta(m)
    BY <1>14, ScanModeIs
  <2>3. /\ drv'.mode = m /\ drv'.ssid = drv.ssid /\ drv'.pass = drv.pass /\ drv'.link = drv.link
    BY <2>2, InModeIs
  <2>4. Waiting("got_ip")' => Waiting("got_ip")
    BY <2>2, ModeEventsAre, Posts
  <2>. QED  BY <2>1, <2>2, <2>3, <2>4, LinkMoves
<1>15. CASE ResetBegins
  <2>1. drv'.ssid = drv.ssid /\ drv'.pass = drv.pass /\ drv'.link = "down"
    BY <1>15 DEF ResetBegins, DrvSet
  <2>2. pc'.httpd = pc.httpd /\ pc'.main = "up"
    BY <1>15, GoesIs DEF ResetBegins, Up
  <2>3. <<>> \in Seq(EventNames) /\ <<"sta_disconnected">> \in Seq(EventNames)
    BY DEF EventNames
  <2>5. ~InSeq("got_ip", <<>>) /\ ~InSeq("got_ip", <<"sta_disconnected">>)
    BY InShort
  <2>4. Waiting("got_ip")' => Waiting("got_ip")
    <3>1. \E es \in {<<>>, <<"sta_disconnected">>} : Post(es)
      BY <1>15 DEF ResetBegins
    <3>. QED  BY <2>3, <2>5, <3>1, Posts
  <2>. QED  BY <2>1, <2>2, <2>4, LinkMoves
<1>16. CASE Forgets \/ ErasesKey \/ EraseFails
  <2>1. UNCHANGED <<drv, events>>
    BY <1>16 DEF Forgets, ErasesKey, EraseFails
  <2>2. pc'.httpd = pc.httpd /\ pc'.main = pc.main
    BY <1>16, GoesIs, ErasesKeyIs, EraseFailsIs, KeysAre DEF Forgets
  <2>. QED  BY <2>1, <2>2, LinkStill
<1>17. CASE OpensAp
  <2>1. /\ drv'.link = "down" /\ drv'.ssid = drv.ssid /\ drv'.pass = drv.pass
        /\ (Waiting("got_ip")' => Waiting("got_ip"))
    BY <1>17, StartsApIs DEF OpensAp
  <2>2. pc'.httpd = pc.httpd /\ pc'.main = "up"
    BY <1>17, GoesIs DEF OpensAp, Up
  <2>. QED  BY <2>1, <2>2, LinkMoves
<1>18. CASE PowerCut
  <2>1. drv' = Radio /\ events' = <<>>
    BY <1>18 DEF PowerCut
  <2>. QED  BY <2>1, InShort DEF LinkWorks, Waiting, Radio
<1>. QED  BY <1>1, <1>2, <1>3, <1>4, <1>5, <1>6, <1>7, <1>8, <1>9, <1>10, <1>11, <1>12, <1>13,
             <1>14, <1>15, <1>16, <1>17, <1>18
          DEF Next, Driver, Httpd, Main, Button, User

-----------------------------------------------------------------------------
(* The driver has the names that are in RAM. *)

LEMMA NotYetUpStep ==
  ASSUME Types, NotYetUp, [Next]_vars
  PROVE  NotYetUp'
<1>. pc \in PcSet
  BY TypesAre DEF Types
<1>1. CASE EventTask \/ Driver \/ AsksTooLong \/ WritesKey \/ WriteFails \/ UNCHANGED vars
  <2>1. pc' = pc
    BY <1>1 DEF EventTask, StaConnected, StaDisconnected, ApStart, ApStop, GotIp, Receives,
                Driver, Associates, Drops, GetsAddress, AsksTooLong, WritesKey, WriteFails, vars
  <2>. QED  BY <2>1 DEF NotYetUp
<1>2. CASE Httpd
  <2>1. pc'.main = "up"
    BY <1>2, GoesIs DEF Httpd, CopiesPassword, SetsDriver, Dials, SavesName, CleansUp, LosesClient, Up
  <2>. QED  BY <2>1 DEF NotYetUp
<1>3. ASSUME NEW n \in Networks, NEW p \in Networks \cup {Empty}, AsksConnect(n, p)
      PROVE  NotYetUp'
  <2>1. pc'.main = "up"
    BY <1>3, GoesIs DEF AsksConnect, Request, Up
  <2>. QED  BY <2>1 DEF NotYetUp
<1>4. CASE AsksName \/ AsksScan \/ ResetBegins
  <2>1. pc'.main = "up"
    BY <1>4, GoesIs DEF AsksName, AsksScan, ResetBegins, Request, Up
  <2>. QED  BY <2>1 DEF NotYetUp
<1>5. CASE Button
  <2>1. CASE ErasesKey \/ EraseFails
    BY <2>1, ErasesKeyIs, EraseFailsIs DEF NotYetUp
  <2>2. CASE Forgets \/ OpensAp
    <3>1. pc'.main = pc.main /\ pc'.httpd = pc.httpd
      BY <2>2, GoesIs, KeysAre DEF Forgets, OpensAp
    <3>. QED  BY <3>1 DEF NotYetUp
  <2>. QED  BY <1>5, <2>1, <2>2 DEF Button
<1>6. CASE Main
  <2>1. pc.main # "up" /\ pc'.httpd = pc.httpd
    BY <1>6, GoesIs DEF Main, Boots, Starts, At
  <2>. QED  BY <2>1 DEF NotYetUp
<1>7. CASE PowerCut
  BY <1>7 DEF PowerCut, NotYetUp, Resting
<1>. QED  BY <1>1, <1>2, <1>3, <1>4, <1>5, <1>6, <1>7 DEF Next, User

LEMMA NamesMove ==
  ASSUME NamesWork, ram'.ssid = ram.ssid, ram'.pass = ram.pass,
         drv'.ssid = drv.ssid, drv'.pass = drv.pass,
         pc'.button = pc.button,
         pc.httpd \in {"pass", "driver"} => pc'.httpd \in {"pass", "driver"},
         NoLink => NoLink'
  PROVE  NamesWork'
  BY DEF NamesWork, SameNames

(* Without a link there is none after a step that only looks at the queue, *)
(* or is part of a request other than to connect.                          *)
LEMMA NoLinkStill ==
  ASSUME NoLink, UNCHANGED <<drv, events>>,
         pc'.httpd = "dial" => pc.httpd = "dial"
  PROVE  NoLink'
  BY DEF NoLink, Waiting

LEMMA NoLinkMode ==
  ASSUME drv \in DrvSet, events = <<>>, NoLink, NEW m \in Modes,
         drv' = InMode(drv, m), Post(ModeEvents(drv, m)), pc'.httpd # "dial"
  PROVE  NoLink'
<1>1. events \in Seq(EventNames)
  OBVIOUS
<1>2. drv.link = "down" /\ drv'.link = "down"
  BY InModeIs DEF NoLink
<1>3. ~InSeq("got_ip", ModeEvents(drv, m)) /\ ~InSeq("sta_disconnected", ModeEvents(drv, m))
  BY <1>2, ModeEventsAre
<1>4. ~Waiting("got_ip")' /\ ~Waiting("sta_disconnected")'
  BY <1>1, <1>3, ModeEventsAre, Posts, NoneWaits
<1>. QED  BY <1>2, <1>4 DEF NoLink

LEMMA NoLinkEvents ==
  ASSUME drv \in DrvSet, events \in Seq(EventNames), NoLink, EventTask
  PROVE  NoLink'
<1>0. ASSUME NEW e, Receives(e)
      PROVE  Waiting(e) /\ pc' = pc /\ Tail(events) \in Seq(EventNames)
             /\ \A x : InSeq(x, Tail(events)) => Waiting(x)
  BY <1>0, EventIs
<1>1. ~GotIp
  BY <1>0 DEF GotIp, NoLink
<1>2. CASE StaDisconnected
  <2>1. ~HasSta(drv.mode)
    BY <1>0, <1>2 DEF StaDisconnected, NoLink
  <2>2. drv' \in {drv, Dialing(drv)}
    BY <1>2 DEF StaDisconnected
  <2>3. drv'.mode = drv.mode /\ drv'.link = "down"
    BY <2>1, <2>2, DialingIs DEF NoLink
  <2>4. events' \in {Tail(events), Tail(events) \o LeftEvents(drv)}
    BY <1>2 DEF StaDisconnected
  <2>5. Tail(events) \in Seq(EventNames) /\ ~InSeq("got_ip", Tail(events))
    BY <1>0, <1>2 DEF StaDisconnected, NoLink
  <2>6. ~InSeq("got_ip", Tail(events) \o LeftEvents(drv))
    BY <2>5, LeftEventsAre, InConcat
  <2>7. ~Waiting("got_ip")'
    BY <2>4, <2>5, <2>6 DEF Waiting
  <2>. QED  BY <2>1, <2>3, <2>7 DEF NoLink
<1>3. CASE StaConnected \/ ApStart \/ ApStop
  <2>1. drv' = drv /\ events' = Tail(events) /\ pc' = pc
    BY <1>0, <1>3 DEF StaConnected, ApStart, ApStop
  <2>2. \A x : InSeq(x, Tail(events)) => Waiting(x)
    BY <1>0, <1>3 DEF StaConnected, ApStart, ApStop
  <2>3. /\ Waiting("got_ip")' => Waiting("got_ip")
        /\ Waiting("sta_disconnected")' => Waiting("sta_disconnected")
    BY <2>1, <2>2 DEF Waiting
  <2>. QED  BY <2>1, <2>3 DEF NoLink
<1>. QED  BY <1>1, <1>2, <1>3 DEF EventTask

LEMMA NamesStep ==
  ASSUME Types, LinkWorks, NotYetUp, NamesWork, [Next]_vars
  PROVE  NamesWork'
<1>. drv \in DrvSet /\ pc \in PcSet /\ orig \in Modes /\ events \in Seq(EventNames) /\ ram \in RamSet
  BY TypesAre DEF Types, Rest
<1>1. CASE EventTask
  <2>1. pc' = pc
    BY <1>1 DEF EventTask, StaConnected, StaDisconnected, ApStart, ApStop, GotIp, Receives
  <2>2. ram'.ssid = ram.ssid /\ ram'.pass = ram.pass
    BY <1>1 DEF EventTask, StaConnected, StaDisconnected, ApStart, ApStop, GotIp, RamSet
  <2>3. drv' \in {drv, Dialing(drv)}
    BY <1>1 DEF EventTask, StaConnected, StaDisconnected, ApStart, ApStop, GotIp
  <2>4. drv'.ssid = drv.ssid /\ drv'.pass = drv.pass
    BY <2>3, DialingIs
  <2>5. NoLink => NoLink'
    BY <1>1, NoLinkEvents
  <2>. QED  BY <2>1, <2>2, <2>4, <2>5, NamesMove
<1>2. CASE Driver
  <2>1. ~NoLink
    BY <1>2 DEF Driver, Associates, Drops, GetsAddress, NoLink
  <2>2. UNCHANGED <<ram, pc>> /\ drv'.ssid = drv.ssid /\ drv'.pass = drv.pass
    BY <1>2 DEF Driver, Associates, Drops, GetsAddress, settings, DrvSet
  <2>. QED  BY <2>1, <2>2, NamesMove
<1>3. CASE WritesKey \/ WriteFails \/ UNCHANGED vars
  <2>1. UNCHANGED <<ram, drv, events, pc>>
    BY <1>3 DEF WritesKey, WriteFails, vars, settings
  <2>. QED  BY <2>1, NoLinkStill, NamesMove
<1>4. CASE CopiesPassword
  <2>1. pc'.httpd = "driver"
    BY <1>4, GoesIs DEF CopiesPassword
  <2>. QED  BY <2>1 DEF NamesWork
<1>5. CASE SetsDriver
  <2>1. ram' = ram /\ drv'.ssid = ram.ssid /\ drv'.pass = ram.pass
    BY <1>5, ConfiguredIs DEF SetsDriver, settings
  <2>. QED  BY <2>1 DEF NamesWork, SameNames
<1>6. CASE Dials
  <2>1. /\ pc.httpd = "dial" /\ pc'.httpd = "idle" /\ pc'.button = pc.button
        /\ ram' = ram /\ events = <<>>
    BY <1>6, GoesIs DEF Dials, At, Up, Quiet, settings
  <2>2. /\ drv'.ssid = drv.ssid /\ drv'.pass = drv.pass /\ drv'.mode = drv.mode
        /\ drv'.link = IF HasSta(drv.mode) THEN "trying" ELSE drv.link
    BY <1>6, DialingIs DEF Dials
  <2>3. ~Waiting("got_ip")'
    BY <1>6, <2>1, LeftEventsAre, Posts, NoneWaits DEF Dials
  <2>4. NoLink => NoLink'
    BY <2>1, <2>2, <2>3 DEF NoLink
  <2>. QED  BY <2>1, <2>2, <2>4, NamesMove
<1>7. CASE SavesName \/ LosesClient
  <2>1. UNCHANGED <<ram, drv, events>>
    BY <1>7 DEF SavesName, LosesClient, settings
  <2>2. pc.httpd \in {"name", "scan"} /\ pc'.httpd = "idle" /\ pc'.button = pc.button
    BY <1>7, GoesIs DEF SavesName, LosesClient, At
  <2>. QED  BY <2>1, <2>2, NoLinkStill, NamesMove
<1>8. CASE CleansUp
  <2>1. /\ pc.httpd = "scan" /\ pc'.httpd = "idle" /\ pc'.button = pc.button
        /\ ram' = ram /\ events = <<>>
    BY <1>8, GoesIs DEF CleansUp, At, Up, Quiet, settings
  <2>2. drv' = InMode(drv, orig) /\ Post(ModeEvents(drv, orig))
    BY <1>8 DEF CleansUp, RestoresMode
  <2>3. drv'.ssid = drv.ssid /\ drv'.pass = drv.pass
    BY <2>2, InModeIs
  <2>4. NoLink => NoLink'
    BY <2>1, <2>2, NoLinkMode
  <2>. QED  BY <2>1, <2>3, <2>4, NamesMove
<1>9. CASE Boots
  <2>1. UNCHANGED <<drv, events>> /\ pc.main = "off" /\ pc'.httpd = pc.httpd
    BY <1>9, GoesIs DEF Boots, At
  <2>2. drv'.link = "down" /\ events' = <<>> /\ pc'.httpd = "idle"
    BY <2>1 DEF LinkWorks, NotYetUp
  <2>. QED  BY <2>2, InShort DEF NamesWork, NoLink, Waiting
<1>10. CASE Starts
  <2>1. CASE Joins(ram)
    <3>1. drv' = Dialing(Configured(drv)) /\ ram' = ram
      BY <1>10, <2>1 DEF Starts, settings
    <3>2. drv'.ssid = ram.ssid /\ drv'.pass = ram.pass
      BY <3>1, ConfiguredIs, DialingIs
    <3>. QED  BY <3>1, <3>2 DEF NamesWork, SameNames
  <2>2. CASE ~Joins(ram)
    <3>1. events = <<>> /\ StartsAp
      BY <1>10, <2>2 DEF Starts, Quiet
    <3>2. drv'.mode = "ap" /\ drv'.link = "down" /\ ~Waiting("got_ip")'
      BY <3>1, StartsApIs, NoneWaits
    <3>. QED  BY <3>2 DEF NamesWork, NoLink, HasSta
  <2>. QED  BY <2>1, <2>2
<1>11. ASSUME NEW n \in Networks, NEW p \in Networks \cup {Empty}, AsksConnect(n, p)
       PROVE  NamesWork'
  <2>1. pc'.httpd = "pass"
    BY <1>11, GoesIs DEF AsksConnect
  <2>. QED  BY <2>1 DEF NamesWork
<1>12. CASE AsksTooLong \/ AsksName
  <2>1. UNCHANGED <<drv, events>> /\ ram'.ssid = ram.ssid /\ ram'.pass = ram.pass
    BY <1>12 DEF AsksTooLong, AsksName, Renames, settings, RamSet
  <2>2. pc.httpd = "idle" /\ pc'.httpd \in {"idle", "name"} /\ pc'.button = pc.button
    BY <1>12, GoesIs DEF AsksTooLong, AsksName, Request, At
  <2>. QED  BY <2>1, <2>2, NoLinkStill, NamesMove
<1>13. CASE AsksScan
  <2>1. /\ pc.httpd = "idle" /\ pc'.httpd = "scan" /\ pc'.button = pc.button
        /\ ram' = ram /\ events = <<>>
    BY <1>13, GoesIs DEF AsksScan, Request, At, Up, Quiet, settings
  <2>2. PICK m \in Modes : drv' = InMode(drv, m) /\ Post(ModeEvents(drv, m))
    BY <1>13, ScanModeIs
  <2>3. drv'.ssid = drv.ssid /\ drv'.pass = drv.pass
    BY <2>2, InModeIs
  <2>4. NoLink => NoLink'
    BY <2>1, <2>2, NoLinkMode
  <2>. QED  BY <2>1, <2>3, <2>4, NamesMove
<1>14. CASE ResetBegins
  <2>1. pc'.button = "forget"
    BY <1>14, GoesIs DEF ResetBegins
  <2>. QED  BY <2>1 DEF NamesWork
<1>15. CASE Forgets
  <2>1. pc'.button = "ssid"
    BY <1>15, GoesIs, KeysAre DEF Forgets
  <2>. QED  BY <2>1 DEF NamesWork
<1>16. CASE ErasesKey \/ EraseFails
  <2>1. pc'.button # "idle"
    BY <1>16, ErasesKeyIs, EraseFailsIs, KeysAre
  <2>. QED  BY <2>1 DEF NamesWork
<1>17. CASE OpensAp
  <2>1. events = <<>> /\ StartsAp
    BY <1>17 DEF OpensAp, Up, Quiet
  <2>2. drv'.mode = "ap" /\ drv'.link = "down" /\ ~Waiting("got_ip")'
    BY <2>1, StartsApIs, NoneWaits
  <2>. QED  BY <2>2 DEF NamesWork, NoLink, HasSta
<1>18. CASE PowerCut
  <2>1. drv' = Radio /\ events' = <<>> /\ pc' = Resting
    BY <1>18 DEF PowerCut
  <2>. QED  BY <2>1, InShort DEF NamesWork, NoLink, Waiting, Radio, Resting
<1>. QED  BY <1>1, <1>2, <1>3, <1>4, <1>5, <1>6, <1>7, <1>8, <1>9, <1>10, <1>11, <1>12, <1>13,
             <1>14, <1>15, <1>16, <1>17, <1>18 DEF Next, Httpd, Main, Button, User

-----------------------------------------------------------------------------
(* The theorems. *)

LEMMA InitHolds ==
  ASSUME Init
  PROVE  Inv
<1>1. Types
  BY InitTypes
<1>2. ResetWorks
  BY DEF Init, ResetWorks, Cleared
<1>3. ScanWorks /\ NotYetUp
  BY DEF Init, ScanWorks, NotYetUp, Resting, Radio
<1>4. LinkWorks /\ NamesWork
  <2>1. drv = Radio /\ events = <<>> /\ pc = Resting /\ ram = Defaults
    BY DEF Init
  <2>. QED  BY <2>1, InShort DEF LinkWorks, NamesWork, NoLink, Waiting, Radio, Resting
<1>. QED  BY <1>1, <1>2, <1>3, <1>4 DEF Inv, Types

LEMMA StepHolds ==
  ASSUME Inv, [Next]_vars
  PROVE  Inv'
  BY StepTypes, ResetStep, ScanStep, LinkStep, NotYetUpStep, NamesStep DEF Inv, Types

LEMMA InvHolds == Spec => []Inv
  BY InitHolds, StepHolds, PTL DEF Spec

(* The settings, the driver, the queue of events and every task are in the *)
(* states wifi_manager_t and the tasks of wifi_manager.c can be in, and no *)
(* more attempts are counted than max_retry_attempts, for any networks and *)
(* any bounds.                                                             *)
THEOREM WellTyped == Spec => []TypeOK
<1>1. Inv => TypeOK
  BY DEF Inv
<1>. QED  BY <1>1, InvHolds, PTL

(* What wifi_manager_clear_config erases stays erased: no save of a        *)
(* connection attempt under way, no scan and no power failure brings back  *)
(* a network to join or a name, however many of them there are.            *)
THEOREM ResetStays == Spec => []ResetIsFinal
<1>1. Inv => ResetIsFinal
  <2>. SUFFICES ASSUME Inv, reset = "done"
                PROVE  ~Joins(Loaded) /\ Loaded.ident = Empty
    BY DEF ResetIsFinal
  <2>1. NvsTyped
    BY TypesAre DEF Inv
  <2>2. nvs["legacy"] = Absent /\ nvs["ssid"] \in {Absent, Empty} /\ nvs["ident"] = Absent
    BY DEF Inv, ResetWorks, Cleared
  <2>. QED  BY <2>1, <2>2, LoadedIs DEF Joins
<1>. QED  BY <1>1, InvHolds, PTL

(* wifi_manager_scan_cleanup puts the panel back into the mode scan_start  *)
(* found, whatever resets and failures fall into the scan: only a client   *)
(* that goes away before its list begins leaves it station and access      *)
(* point at once.                                                          *)
THEOREM ScansRestore == Spec => []ScanRestoresMode
<1>1. Inv => ScanRestoresMode
  BY DEF Inv, ScanWorks, ScanRestoresMode
<1>. QED  BY <1>1, InvHolds, PTL

(* The names an address makes wifi_event_handler save are those of the     *)
(* network that gave it, unless it arrives in the middle of a request to   *)
(* connect or of a reset.                                                  *)
THEOREM SavedNamesWork == Spec => SavesWhatWorked
<1>. DEFINE Saves == GotIp /\ mgr.pending /\ pc.httpd \notin {"pass", "driver", "dial"}
                           /\ pc.button = "idle"
                       => ram.ssid = drv.ssid /\ ram.pass = drv.ssid /\ drv.ssid \in Networks
<1>1. Inv /\ [Next]_vars => [Saves]_vars
  <2>. SUFFICES ASSUME Inv, GotIp, pc.httpd \notin {"pass", "driver", "dial"}, pc.button = "idle"
                PROVE  ram.ssid = drv.ssid /\ ram.pass = drv.ssid /\ drv.ssid \in Networks
    OBVIOUS
  <2>1. Waiting("got_ip")
    BY EventIs DEF GotIp, Inv, TypeOK
  <2>2. Genuine
    BY <2>1 DEF Inv, LinkWorks
  <2>3. SameNames
    BY <2>1 DEF Inv, NamesWork, NoLink
  <2>. QED  BY <2>2, <2>3 DEF Genuine, SameNames
<1>2. Spec => [][Saves]_vars
  BY <1>1, InvHolds, PTL DEF Spec
<1>. QED  BY <1>2 DEF SavesWhatWorked
=============================================================================
