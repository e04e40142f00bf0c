-------------------------- MODULE DirBrowser_proofs --------------------------
(***************************************************************************)
(* Proofs about DirBrowser, for any listings of the board, either build    *)
(* and any number of calls that fail.                                      *)
(***************************************************************************)
EXTENDS DirBrowser, SequenceTheorems, TLAPS

(* Where a task is between menu_clear_items and its return to the caller.  *)
Refreshing == Rebuilds \cup {"end"}

Job ==
  [pc : Refreshing \cup {"idle", "select", "reset"}, i : Nat, n : Nat, todo : Nat \cup {None},
   then : {"entry", "mark", "end"}, ret : {"open", "browse", "load", "recover", "imaging"},
   ok : BOOLEAN]

Types ==
  /\ now \in Stamps /\ mounted \in (Stamps \X Nat) \cup {<<None, None>>}
  /\ rows \in Seq(RowType) /\ loaded \in BOOLEAN /\ linkUp \in BOOLEAN /\ sel \in RowType
  /\ screen \in {"menu", "list", "info", "other"} /\ task \in [Tasks -> Job]
  /\ web \in {"idle", "changed"} /\ draw \in {"none", "live", "freed"}
  /\ recovers \in Builds /\ faults \in 0 .. MaxFaults
  /\ owed \in Stamps /\ due \in Stamps

(* A task that asks for an entry has one to ask for.                       *)
Counted(t) ==
  /\ task[t].i <= task[t].n /\ (task[t].pc = "count" => task[t].i = 0)
  /\ task[t].pc = "entry" \/ (task[t].pc = "stamp" /\ task[t].then = "entry") =>
       task[t].i < task[t].n
Counts == \A t \in Tasks : Counted(t)

(* The status task only ever re-enumerates to recover.                     *)
OnlyRecovers ==
  /\ task["button"].pc = "reset" => task["button"].ret = "recover"
  /\ task["status"].pc # "select"
  /\ task["status"].pc # "idle" => recovers /\ task["status"].ret = "imaging"

(* The entry a row stands for.  Where one task rebuilds the rows, each row *)
(* has its index but the last one while that task is about to set it.      *)
Meant(row) == IF row.kind \in {"none", "up"} THEN None ELSE row.at
Stamped ==
  ~recovers =>
    /\ \A k \in DOMAIN rows :
         IF task["button"].pc = "stamp" /\ k = Len(rows)
         THEN task["button"].todo = Meant(rows[k]) ELSE rows[k].index = Meant(rows[k])
    /\ task["button"].pc = "select" => sel.index = Meant(sel)

(* No row is older than s.                                                 *)
Recent(s) == \A k \in DOMAIN rows : rows[k].of # None => rows[k].of >= s
Ordered   == due <= owed /\ owed <= now
LoadedIsRecent == loaded \/ Rebuilding => Recent(owed)
OpenedIsRecent ==
  task["button"].pc \in Refreshing /\ task["button"].ret = "open" => Recent(due)

Inv == /\ Types /\ Counts /\ OnlyRecovers /\ Stamped
       /\ Ordered /\ LoadedIsRecent /\ OpenedIsRecent

-----------------------------------------------------------------------------
LEMMA StampsAre ==
  /\ Len(Listings) \in Nat /\ Len(Listings) >= 1 /\ Stamps = 0 .. Len(Listings) - 1
  /\ 0 \in Stamps /\ MaxStamp \in Nat
  /\ \A s \in Stamps : s \in Nat /\ s # None /\ Listing(s) \in Seq({"up", "dir", "file"})
<1>1. Len(Listings) \in Nat /\ Len(Listings) >= 1
  BY ListingsAssumption
<1>2. Stamps = 0 .. Len(Listings) - 1 /\ MaxStamp \in Nat
  BY <1>1 DEF Stamps, MaxStamp
<1>3. ASSUME NEW s \in Stamps PROVE s \in Nat /\ s # None /\ s + 1 \in 1 .. Len(Listings)
  BY <1>1, <1>2 DEF None
<1>4. \A s \in Stamps : Listing(s) \in Seq({"up", "dir", "file"})
  BY <1>3, ListingsAssumption DEF Listing
<1>. QED  BY <1>1, <1>2, <1>3, <1>4

LEMMA RowTypes ==
  ASSUME NEW kind \in {"up", "dir", "file", "error"}, NEW of \in Stamps, NEW at \in Nat \cup {None}
  PROVE  Row(kind, of, at) \in RowType /\ Placeholder \in RowType
  BY DEF Row, Placeholder, RowType

(* refresh_directory_list begins: the rows go, or the link is down.        *)
LEMMA RefreshBegins ==
  ASSUME Types, NEW t \in Tasks, NEW ret \in {"open", "browse", "load", "recover", "imaging"},
         Refresh(t, ret)
  PROVE  /\ task' = [task EXCEPT ![t] = task'[t]] /\ task'[t] \in Job
         /\ task'[t].ret = ret /\ task'[t].i = 0 /\ task'[t].n = 0
         /\ \/ linkUp /\ rows' = <<>> /\ task'[t].pc = "count"
            \/ ~linkUp /\ rows' = rows /\ task'[t].pc = "end"
         /\ draw' \in {"none", "live", "freed"}
<1>. DEFINE j == [Idle EXCEPT !.pc = IF linkUp THEN "count" ELSE "end", !.ret = ret]
<1>1. task' = [task EXCEPT ![t] = j]
  BY DEF Refresh
<1>2. j \in Job
  BY DEF Idle, Job, Refreshing, Rebuilds
<1>3. j.ret = ret /\ j.i = 0 /\ j.n = 0 /\ j.pc = IF linkUp THEN "count" ELSE "end"
  BY DEF Idle
<1>4. task'[t] = j
  BY <1>1 DEF Types
<1>5. draw' \in {"none", "live", "freed"}
  BY DEF Refresh, Types
<1>6. rows' = IF linkUp THEN <<>> ELSE rows
  BY DEF Refresh
<1>. HIDE DEF j
<1>. QED  BY <1>1, <1>2, <1>3, <1>4, <1>5, <1>6

(* What one of its steps does to the rows: they grow by a row of the       *)
(* listing the board shows now, or the last one gets its index.            *)
Grows(t) ==
  \/ rows' = rows /\ task'[t].pc # "stamp" /\ (task[t].pc = "stamp" => rows = <<>>)
  \/ /\ task[t].pc \in {"count", "entry"} /\ task'[t].pc = "stamp"
     /\ \E row \in RowType : /\ rows' = Append(rows, row) /\ row.of \in {None, now}
                             /\ task'[t].todo = Meant(row)
  \/ /\ task[t].pc = "stamp" /\ task'[t].pc \in {"entry", "mark", "end"}
     /\ rows # <<>> /\ rows' = [rows EXCEPT ![Len(rows)].index = task[t].todo]

LEMMA CountGrows ==
  ASSUME Types, Counts, NEW t \in Tasks, CountReplies(t)
  PROVE  /\ Grows(t) /\ task' = [task EXCEPT ![t] = task'[t]] /\ task'[t] \in Job
         /\ task'[t].ret = task[t].ret /\ task'[t].pc \in Refreshing
         /\ Counted(t)'
         /\ faults' \in 0 .. MaxFaults
<1>0. task[t] \in Job /\ now \in Stamps /\ task[t].pc = "count" /\ task[t].i = 0
  BY DEF Types, CountReplies, At, Counts, Counted
<1>1. Len(Entries) \in Nat /\ (Entries # <<>> => Len(Entries) > 0) /\ task[t].n \in Nat
  BY <1>0, StampsAre DEF Entries, Job
<1>2. faults' \in 0 .. MaxFaults
  BY BoundAssumption DEF Types, CountReplies, Faulty, NoFault
<1>3. PICK row \in {Row("up", now, None), Placeholder}, n \in {task[t].n, Len(Entries)},
           then \in {"entry", "end"}, ok \in BOOLEAN :
        /\ AddRow(t, row, [Stamping(t, None, then) EXCEPT !.n = n, !.ok = ok])
        /\ then = "entry" => n > 0
  <2>1. CASE /\ Entries # <<>>
             /\ AddRow(t, Row("up", now, None),
                       [Stamping(t, None, "entry") EXCEPT !.n = Len(Entries)])
    <3>1. [Stamping(t, None, "entry") EXCEPT !.n = Len(Entries)]
           = [Stamping(t, None, "entry") EXCEPT !.n = Len(Entries), !.ok = task[t].ok]
      BY <1>0 DEF Stamping, Job
    <3>2. task[t].ok \in BOOLEAN
      BY <1>0 DEF Job
    <3>. QED  BY <1>1, <2>1, <3>1, <3>2
  <2>2. CASE AddRow(t, Placeholder, [Stamping(t, None, "end") EXCEPT !.ok = TRUE])
    <3>1. [Stamping(t, None, "end") EXCEPT !.ok = TRUE]
           = [Stamping(t, None, "end") EXCEPT !.n = task[t].n, !.ok = TRUE]
      BY <1>0 DEF Stamping, Job
    <3>. QED  BY <2>2, <3>1
  <2>3. CASE AddRow(t, Placeholder, Stamping(t, None, "end"))
    <3>1. Stamping(t, None, "end")
           = [Stamping(t, None, "end") EXCEPT !.n = task[t].n, !.ok = task[t].ok]
      BY <1>0 DEF Stamping, Job
    <3>2. task[t].ok \in BOOLEAN
      BY <1>0 DEF Job
    <3>. QED  BY <2>3, <3>1, <3>2
  <2>. QED  BY <2>1, <2>2, <2>3 DEF CountReplies
<1>. DEFINE j == [Stamping(t, None, then) EXCEPT !.n = n, !.ok = ok]
<1>4. j \in Job /\ j.ret = task[t].ret /\ j.pc = "stamp" /\ j.todo = None
      /\ j.i = 0 /\ j.n = n /\ j.then = then
  BY <1>0, <1>1 DEF Stamping, Job, Refreshing, Rebuilds
<1>5. rows' = Append(rows, row) /\ task' = [task EXCEPT ![t] = j]
  BY <1>3 DEF AddRow
<1>6. task'[t] = j
  BY <1>5 DEF Types
<1>7. row \in RowType /\ row.of \in {None, now} /\ Meant(row) = None
  <2>1. Row("up", now, None) \in RowType /\ Placeholder \in RowType
    BY <1>0, RowTypes
  <2>2. /\ Row("up", now, None).of = now /\ Row("up", now, None).kind = "up"
        /\ Placeholder.of = None /\ Placeholder.kind = "none"
    BY DEF Row, Placeholder
  <2>. QED  BY <2>1, <2>2 DEF Meant
<1>. HIDE DEF j
<1>9. Counted(t)'
  BY <1>1, <1>3, <1>4, <1>6 DEF Counted
<1>8. Grows(t)
  BY <1>0, <1>4, <1>5, <1>6, <1>7 DEF Grows
<1>. QED  BY <1>2, <1>4, <1>5, <1>6, <1>8, <1>9 DEF Refreshing, Rebuilds

LEMMA EntryGrows ==
  ASSUME Types, Counts, NEW t \in Tasks, EntryReplies(t)
  PROVE  /\ Grows(t) /\ task' = [task EXCEPT ![t] = task'[t]] /\ task'[t] \in Job
         /\ task'[t].ret = task[t].ret /\ task'[t].pc \in Refreshing
         /\ Counted(t)'
         /\ faults' \in 0 .. MaxFaults
<1>0. task[t] \in Job /\ now \in Stamps /\ task[t].pc = "entry" /\ task[t].i < task[t].n
  BY DEF Types, EntryReplies, At, Counts, Counted
<1>. DEFINE i == task[t].i
            kind == IF i < Len(Entries) THEN Entries[i + 1] ELSE "error"
<1>1. i \in Nat /\ task[t].n \in Nat /\ i + 1 <= task[t].n /\ i + 1 \in Nat
  BY <1>0 DEF Job
<1>2. kind \in {"up", "dir", "file", "error"}
  <2>1. Entries \in Seq({"up", "dir", "file"})
    BY <1>0, StampsAre DEF Entries
  <2>. QED  BY <1>1, <2>1
<1>3. faults' \in 0 .. MaxFaults
  BY BoundAssumption DEF Types, EntryReplies, Faulty, NoFault
<1>4. /\ AfterEntry(t) \in {"entry", "mark"}
      /\ AfterEntry(t) = "entry" => i + 1 < task[t].n
  BY DEF AfterEntry
<1>5. \/ rows' = rows /\ task' = [task EXCEPT ![t].i = i + 1, ![t].pc = AfterEntry(t)]
      \/ \E k \in {kind, "error"} \ {"up"} :
           AddRow(t, Row(k, now, i), [Stamping(t, i, AfterEntry(t)) EXCEPT !.i = i + 1])
  BY DEF EntryReplies
<1>. HIDE DEF kind
<1>6. CASE rows' = rows /\ task' = [task EXCEPT ![t].i = i + 1, ![t].pc = AfterEntry(t)]
  <2>. DEFINE j == [task[t] EXCEPT !.i = i + 1, !.pc = AfterEntry(t)]
  <2>1. j \in Job /\ j.ret = task[t].ret /\ j.pc = AfterEntry(t) /\ j.i = i + 1 /\ j.n = task[t].n
    BY <1>0, <1>1, <1>4 DEF Job, Refreshing, Rebuilds
  <2>2. task' = [task EXCEPT ![t] = j] /\ task'[t] = j
    BY <1>6 DEF Types
  <2>. HIDE DEF j
  <2>3. Counted(t)'
    BY <1>1, <1>4, <2>1, <2>2 DEF Counted
  <2>4. Grows(t)
    BY <1>0, <1>4, <1>6, <2>1, <2>2 DEF Grows
  <2>. QED  BY <1>3, <1>4, <2>1, <2>2, <2>3, <2>4 DEF Refreshing, Rebuilds
<1>7. CASE \E k \in {kind, "error"} \ {"up"} :
             AddRow(t, Row(k, now, i), [Stamping(t, i, AfterEntry(t)) EXCEPT !.i = i + 1])
  <2>. DEFINE j == [Stamping(t, i, AfterEntry(t)) EXCEPT !.i = i + 1]
  <2>0. PICK k \in {"dir", "file", "error"} : AddRow(t, Row(k, now, i), j)
    BY <1>2, <1>7
  <2>1. /\ j \in Job /\ j.ret = task[t].ret /\ j.pc = "stamp" /\ j.todo = i
        /\ j.then = AfterEntry(t) /\ j.i = i + 1 /\ j.n = task[t].n
    BY <1>0, <1>1, <1>4 DEF Stamping, Job, Refreshing, Rebuilds
  <2>2. rows' = Append(rows, Row(k, now, i)) /\ task' = [task EXCEPT ![t] = j]
    BY <2>0 DEF AddRow
  <2>3. task'[t] = j
    BY <2>2 DEF Types
  <2>4. /\ Row(k, now, i) \in RowType /\ Row(k, now, i).of \in {None, now}
        /\ Meant(Row(k, now, i)) = i
    BY <1>0, <1>1, RowTypes DEF Meant, Row
  <2>. HIDE DEF j, i
  <2>5. Grows(t)
    BY <1>0, <2>1, <2>2, <2>3, <2>4 DEF Grows
  <2>6. Counted(t)'
    BY <1>1, <1>4, <2>1, <2>3 DEF Counted
  <2>. QED  BY <1>3, <2>1, <2>2, <2>3, <2>5, <2>6 DEF Refreshing, Rebuilds
<1>. QED  BY <1>5, <1>6, <1>7

LEMMA StepDoes ==
  ASSUME Types, Counts, NEW t \in Tasks, RefreshStep(t)
  PROVE  /\ Grows(t) /\ task' = [task EXCEPT ![t] = task'[t]] /\ task'[t] \in Job
         /\ Counted(t)' /\ faults' \in 0 .. MaxFaults /\ task[t].pc \in Refreshing
         /\ UNCHANGED <<now, mounted, sel, web, draw, owed, due, recovers>>
         /\ \/ /\ task'[t].ret = task[t].ret /\ task'[t].pc \in Refreshing
               /\ UNCHANGED <<screen, linkUp>> /\ task[t].pc \in Rebuilds
               /\ loaded' = loaded \/ loaded' = TRUE
            \/ Returns(t) /\ task'[t] = Idle
<1>0. task[t] \in Job
  BY DEF Types
<1>1. CASE CountReplies(t)
  <2>1. /\ task[t].pc = "count"
        /\ UNCHANGED <<now, mounted, sel, web, draw, owed, due, recovers, screen, linkUp, loaded>>
    BY <1>1 DEF CountReplies, At, RefreshOnly, boardVars, histVars
  <2>. QED  BY <1>1, <2>1, CountGrows DEF Refreshing, Rebuilds
<1>2. CASE EntryReplies(t)
  <2>1. /\ task[t].pc = "entry"
        /\ UNCHANGED <<now, mounted, sel, web, draw, owed, due, recovers, screen, linkUp, loaded>>
    BY <1>2 DEF EntryReplies, At, RefreshOnly, boardVars, histVars
  <2>. QED  BY <1>2, <2>1, EntryGrows DEF Refreshing, Rebuilds
<1>3. CASE SetsIndex(t)
  <2>1. /\ task[t].pc = "stamp"
        /\ UNCHANGED <<now, mounted, sel, web, draw, owed, due, recovers, screen, linkUp, loaded>>
        /\ UNCHANGED faults
    BY <1>3 DEF SetsIndex, At, RefreshOnly, boardVars, histVars, NoFault
  <2>. DEFINE j == [task[t] EXCEPT !.pc = task[t].then]
  <2>2. task' = [task EXCEPT ![t] = j] /\ task'[t] = j
    BY <1>3 DEF SetsIndex, Types
  <2>3. task[t].then \in {"entry", "mark", "end"}
    BY <1>0 DEF Job
  <2>4. j \in Job /\ j.pc = task[t].then /\ j.ret = task[t].ret /\ j.i = task[t].i /\ j.n = task[t].n
    BY <1>0, <2>3 DEF Job, Refreshing, Rebuilds
  <2>. HIDE DEF j
  <2>5. Counted(t)'
    BY <2>1, <2>2, <2>3, <2>4 DEF Counts, Counted
  <2>6. Grows(t)
    BY <1>3, <2>1, <2>2, <2>3, <2>4 DEF SetsIndex, Grows
  <2>. QED  BY <2>1, <2>2, <2>3, <2>4, <2>5, <2>6 DEF Refreshing, Rebuilds, Types
<1>4. CASE MarksLoaded(t)
  <2>1. /\ task[t].pc = "mark" /\ loaded' = TRUE
        /\ UNCHANGED <<now, mounted, sel, web, draw, owed, due, recovers, screen, linkUp, rows>>
        /\ UNCHANGED faults
    BY <1>4 DEF MarksLoaded, At, RefreshOnly, boardVars, histVars, NoFault
  <2>. DEFINE j == [task[t] EXCEPT !.pc = "end", !.ok = TRUE]
  <2>2. task' = [task EXCEPT ![t] = j] /\ task'[t] = j
    BY <1>4 DEF MarksLoaded, Types
  <2>3. j \in Job /\ j.pc = "end" /\ j.ret = task[t].ret /\ j.i = task[t].i /\ j.n = task[t].n
    BY <1>0 DEF Job, Refreshing, Rebuilds
  <2>. HIDE DEF j
  <2>4. Counted(t)'
    BY <2>2, <2>3 DEF Counts, Counted
  <2>5. Grows(t)
    BY <2>1, <2>2, <2>3 DEF Grows
  <2>. QED  BY <2>1, <2>2, <2>3, <2>4, <2>5 DEF Refreshing, Rebuilds, Types
<1>5. CASE Returns(t)
  <2>1. /\ task[t].pc = "end" /\ task' = [task EXCEPT ![t] = Idle] /\ task'[t] = Idle
        /\ UNCHANGED <<now, mounted, sel, web, draw, owed, due, recovers, rows, faults>>
    BY <1>5 DEF Returns, At, boardVars, histVars, Types
  <2>2. Idle \in Job /\ Idle.i = 0 /\ Idle.n = 0 /\ Idle.pc = "idle"
    BY DEF Idle, Job
  <2>3. Counted(t)'
    BY <2>1, <2>2 DEF Counted
  <2>4. Grows(t)
    BY <2>1, <2>2 DEF Grows
  <2>. QED  BY <1>5, <2>1, <2>2, <2>3, <2>4 DEF Refreshing, Types
<1>. QED  BY <1>1, <1>2, <1>3, <1>4, <1>5 DEF RefreshStep

LEMMA GrowsTypes ==
  ASSUME Types, NEW t \in Tasks, Grows(t)
  PROVE  rows' \in Seq(RowType)
<1>1. task[t].todo \in Nat \cup {None} /\ rows \in Seq(RowType)
  BY DEF Types, Job
<1>2. ASSUME rows # <<>>, rows' = [rows EXCEPT ![Len(rows)].index = task[t].todo]
      PROVE  rows' \in Seq(RowType)
  <2>1. Len(rows) \in 1 .. Len(rows)
    BY <1>1, <1>2
  <2>2. [rows[Len(rows)] EXCEPT !.index = task[t].todo] \in RowType
    <3>1. rows[Len(rows)] \in RowType
      BY <1>1, <2>1
    <3>. QED  BY <1>1, <3>1 DEF RowType
  <2>3. rows' = [rows EXCEPT ![Len(rows)] = [rows[Len(rows)] EXCEPT !.index = task[t].todo]]
    BY <1>2
  <2>. QED  BY <1>1, <2>1, <2>2, <2>3, ExceptSeq
<1>. QED  BY <1>1, <1>2 DEF Grows

LEMMA GrowsRecent ==
  ASSUME Types, NEW t \in Tasks, Grows(t), NEW s \in Nat, s <= now, Recent(s)
  PROVE  \A k \in DOMAIN rows' : rows'[k].of # None => rows'[k].of >= s
<1>0. now \in Nat /\ rows \in Seq(RowType)
  BY StampsAre DEF Types
<1>1. CASE rows' = rows
  BY <1>1 DEF Recent
<1>2. CASE \E row \in RowType : rows' = Append(rows, row) /\ row.of \in {None, now}
  <2>1. PICK row \in RowType : rows' = Append(rows, row) /\ row.of \in {None, now}
    BY <1>2
  <2>2. ASSUME NEW k \in DOMAIN rows' PROVE rows'[k] = row \/ (k \in DOMAIN rows /\ rows'[k] = rows[k])
    BY <1>0, <2>1, AppendProperties
  <2>. QED  BY <1>0, <2>1, <2>2 DEF Recent
<1>3. CASE rows' = [rows EXCEPT ![Len(rows)].index = task[t].todo]
  <2>1. DOMAIN rows' = DOMAIN rows
    BY <1>3
  <2>2. ASSUME NEW k \in DOMAIN rows PROVE rows'[k].of = rows[k].of
    <3>1. rows[k] \in RowType
      BY <1>0
    <3>. QED  BY <1>3, <3>1 DEF RowType
  <2>. QED  BY <2>1, <2>2 DEF Recent
<1>. QED  BY <1>1, <1>2, <1>3 DEF Grows

LEMMA TasksKeep ==
  ASSUME Types, Counts, NEW t \in Tasks, task' = [task EXCEPT ![t] = task'[t]],
         task'[t] \in Job, Counted(t)'
  PROVE  task' \in [Tasks -> Job] /\ Counts' /\ \A u \in Tasks \ {t} : task'[u] = task[u]
<1>1. task' \in [Tasks -> Job] /\ \A u \in Tasks \ {t} : task'[u] = task[u]
  BY DEF Types
<1>2. \A u \in Tasks \ {t} : Counted(u)'
  BY <1>1 DEF Counts, Counted
<1>. QED  BY <1>1, <1>2 DEF Counts

(* A task that waits for the board, or for nothing.                        *)
LEMMA TaskRests ==
  ASSUME Types, Counts, NEW t \in Tasks, NEW j \in Job, j.i = 0, j.n = 0,
         j.pc \in {"idle", "select", "reset"}, task' = [task EXCEPT ![t] = j]
  PROVE  /\ task' \in [Tasks -> Job] /\ Counts' /\ \A u \in Tasks \ {t} : task'[u] = task[u]
         /\ task'[t] = j
<1>1. task'[t] = j /\ task' = [task EXCEPT ![t] = task'[t]]
  BY DEF Types
<1>2. task'[t].i = 0 /\ task'[t].n = 0 /\ task'[t].pc \in {"idle", "select", "reset"}
  BY <1>1
<1>3. Counted(t)'
  BY <1>2 DEF Counted
<1>. QED  BY <1>1, <1>3, TasksKeep

LEMMA RestingJobs ==
  Idle \in Job /\ Idle.i = 0 /\ Idle.n = 0 /\ Idle.pc = "idle" /\ Idle.ret = "open"
  BY DEF Idle, Job

LEMMA TaskRefreshes ==
  ASSUME Types, Counts, NEW t \in Tasks,
         NEW ret \in {"open", "browse", "load", "recover", "imaging"},
         Refresh(t, ret)
  PROVE  /\ task' \in [Tasks -> Job] /\ Counts' /\ \A u \in Tasks \ {t} : task'[u] = task[u]
         /\ task'[t].ret = ret /\ task'[t].pc \in {"count", "end"}
         /\ \/ linkUp /\ rows' = <<>>
            \/ ~linkUp /\ rows' = rows /\ task'[t].pc = "end"
         /\ rows' \in Seq(RowType) /\ draw' \in {"none", "live", "freed"}
<1>1. Counted(t)'
  BY RefreshBegins DEF Counted
<1>2. <<>> \in Seq(RowType)
  BY EmptySeq
<1>. QED  BY <1>1, <1>2, RefreshBegins, TasksKeep DEF Types

LEMMA SelectsTypes ==
  ASSUME Types, NEW index \in Nat \cup {None}, Selects(index) \/ UNCHANGED boardVars
  PROVE  /\ now' \in Stamps /\ now <= now'
         /\ mounted' \in (Stamps \X Nat) \cup {<<None, None>>}
         /\ mounted' # mounted => index \in Nat /\ mounted' = <<now, index>>
<1>1. now \in Stamps /\ now \in Nat /\ Entries \in Seq({"up", "dir", "file"})
  BY StampsAre DEF Types, Entries
<1>2. CASE index + 1 \in DOMAIN Entries /\ mounted' = <<now, index>> /\ UNCHANGED now
  <2>1. index + 1 \in 1 .. Len(Entries)
    BY <1>1, <1>2
  <2>2. index \in Nat
    BY <1>1, <2>1 DEF None
  <2>. QED  BY <1>1, <1>2, <2>2
<1>3. CASE Moves /\ UNCHANGED mounted
  <2>1. now' \in 0 .. MaxStamp /\ now <= now'
    BY <1>1, <1>3, StampsAre DEF Moves
  <2>. QED  BY <1>3, <2>1 DEF Types, Stamps
<1>4. CASE UNCHANGED boardVars
  BY <1>1, <1>4 DEF boardVars, Types
<1>. QED  BY <1>2, <1>3, <1>4 DEF Selects

LEMMA MovesTypes ==
  ASSUME Types, Moves
  PROVE  now' \in Stamps /\ now <= now'
<1>1. now' \in 0 .. MaxStamp /\ now <= now'
  BY StampsAre DEF Moves, Types
<1>. QED  BY <1>1 DEF Stamps

LEMMA TypesInit == Init => Types /\ Counts /\ OnlyRecovers
<1>. SUFFICES ASSUME Init PROVE Types /\ Counts /\ OnlyRecovers
  OBVIOUS
<1>1. Idle \in Job /\ Idle.i = 0 /\ Idle.n = 0 /\ Idle.pc = "idle"
  BY DEF Idle, Job
<1>2. task \in [Tasks -> Job] /\ \A t \in Tasks : task[t] = Idle
  BY <1>1 DEF Init
<1>3. [Placeholder EXCEPT !.index = None] \in RowType /\ Placeholder \in RowType
  BY DEF Placeholder, Row, RowType
<1>4. rows \in Seq(RowType) /\ sel \in RowType
  BY <1>3 DEF Init
<1>5. 0 \in 0 .. MaxFaults
  BY BoundAssumption
<1>6. Types
  BY <1>2, <1>4, <1>5, StampsAre DEF Init, Types
<1>7. Counts /\ OnlyRecovers
  BY <1>1, <1>2 DEF Counts, Counted, OnlyRecovers, Tasks
<1>. QED  BY <1>6, <1>7

LEMMA TypesStep ==
  ASSUME Types, Counts, OnlyRecovers, [Next]_vars
  PROVE  Types' /\ Counts' /\ OnlyRecovers'
<1>0. /\ Tasks = {"button", "status"} /\ \A t \in Tasks : task[t] \in Job
      /\ \A k \in DOMAIN rows : rows[k] \in RowType
  BY DEF Tasks, Types
<1>1. ASSUME NEW t \in Tasks, RefreshStep(t)
      PROVE  Types' /\ Counts' /\ OnlyRecovers'
  <2>1. rows' \in Seq(RowType)
    BY <1>1, StepDoes, GrowsTypes
  <2>2. task' \in [Tasks -> Job] /\ Counts' /\ \A u \in Tasks \ {t} : task'[u] = task[u]
    BY <1>1, StepDoes, TasksKeep
  <2>3. screen' \in {"menu", "list", "info", "other"} /\ linkUp' \in BOOLEAN /\ loaded' \in BOOLEAN
    BY <1>1, StepDoes DEF Returns, Types
  <2>4. Types'
    BY <1>1, <2>1, <2>2, <2>3, StepDoes DEF Types
  <2>5. task[t].pc \notin {"idle", "select"} /\ (task'[t].ret = task[t].ret \/ task'[t].pc = "idle")
        /\ task'[t].pc \notin {"select", "reset"} /\ recovers' = recovers
    <3>1. task[t].pc \in Refreshing
      BY <1>1, StepDoes
    <3>2. \/ task'[t].ret = task[t].ret /\ task'[t].pc \in Refreshing
          \/ task'[t] = Idle
      BY <1>1, StepDoes
    <3>3. recovers' = recovers
      BY <1>1, StepDoes
    <3>. QED  BY <3>1, <3>2, <3>3, RestingJobs DEF Refreshing, Rebuilds
  <2>6. OnlyRecovers'
    BY <1>0, <2>2, <2>5 DEF OnlyRecovers
  <2>. QED  BY <2>2, <2>4, <2>6
<1>2. CASE Open
  <2>0. task["button"].pc = "idle"
    BY <1>2 DEF Open, Pressed, At
  <2>1. CASE Refresh("button", "open") /\ UNCHANGED screen
    BY <1>0, <1>2, <2>1, TaskRefreshes DEF Open, boardVars, Types, OnlyRecovers
  <2>2. CASE screen' = "list" /\ UNCHANGED <<rows, task, draw>>
    BY <1>0, <1>2, <2>2 DEF Open, boardVars, Types, Counts, Counted, OnlyRecovers
  <2>. QED  BY <1>2, <2>1, <2>2 DEF Open
<1>3. CASE Leave
  BY <1>3 DEF Leave, ScreenOnly, boardVars, Types, Counts, Counted, OnlyRecovers
<1>4. ASSUME NEW k \in DOMAIN rows, Pick(k)
      PROVE  Types' /\ Counts' /\ OnlyRecovers'
  <2>1. PICK ret \in {"browse", "load"} :
          task' = [task EXCEPT !["button"] = [Idle EXCEPT !.pc = "select", !.ret = ret]]
    BY <1>4 DEF Pick
  <2>2. /\ task' \in [Tasks -> Job] /\ Counts' /\ task'["status"] = task["status"]
        /\ task'["button"].pc = "select"
    <3>. DEFINE j == [Idle EXCEPT !.pc = "select", !.ret = ret]
    <3>1. j \in Job /\ j.i = 0 /\ j.n = 0 /\ j.pc = "select"
      BY DEF Idle, Job
    <3>2. task' = [task EXCEPT !["button"] = j]
      BY <2>1
    <3>. HIDE DEF j
    <3>. QED  BY <1>0, <3>1, <3>2, TaskRests
  <2>. QED  BY <1>0, <1>4, <2>2 DEF Pick, boardVars, histVars, Types, OnlyRecovers
<1>5. CASE SelectReplies
  <2>1. /\ now' \in Stamps /\ mounted' \in (Stamps \X Nat) \cup {<<None, None>>}
    <3>1. sel.index \in Nat \cup {None} /\ Selects(sel.index)
      BY <1>5 DEF SelectReplies, Types, RowType
    <3>. QED  BY <3>1, SelectsTypes
  <2>2. sel' \in RowType
    BY <1>5 DEF SelectReplies, Placeholder, Row, RowType
  <2>3. /\ task' \in [Tasks -> Job] /\ Counts' /\ task'["status"] = task["status"]
        /\ task'["button"].pc # "reset"
        /\ rows' \in Seq(RowType) /\ draw' \in {"none", "live", "freed"}
        /\ screen' \in {"menu", "list", "info", "other"}
    <3>1. CASE Refresh("button", "browse") /\ UNCHANGED screen
      BY <1>0, <3>1, TaskRefreshes DEF Types
    <3>2. CASE /\ screen' \in {"info", "other"} /\ task' = [task EXCEPT !["button"] = Idle]
               /\ UNCHANGED <<rows, draw>>
      BY <1>0, <3>2, RestingJobs, TaskRests DEF Types
    <3>. QED  BY <1>5, <3>1, <3>2 DEF SelectReplies
  <2>. QED  BY <1>5, <2>1, <2>2, <2>3 DEF SelectReplies, histVars, Types, OnlyRecovers
<1>6. CASE SelectFails
  <2>1. /\ now' \in Stamps /\ mounted' \in (Stamps \X Nat) \cup {<<None, None>>}
    <3>1. sel.index \in Nat \cup {None} /\ (Selects(sel.index) \/ UNCHANGED boardVars)
      BY <1>6 DEF SelectFails, Types, RowType
    <3>. QED  BY <3>1, SelectsTypes
  <2>2. sel' \in RowType
    BY <1>6 DEF SelectFails, Placeholder, Row, RowType
  <2>3. faults' \in 0 .. MaxFaults
    BY <1>6, BoundAssumption DEF SelectFails, Faulty, NoFault, Types
  <2>4. /\ task' \in [Tasks -> Job] /\ Counts' /\ task'["status"] = task["status"]
        /\ task'["button"].pc = "reset" => task'["button"].ret = "recover"
    <3>. DEFINE j == [Idle EXCEPT !.pc = "reset", !.ret = "recover"]
    <3>1. j \in Job /\ j.i = 0 /\ j.n = 0 /\ j.pc = "reset" /\ j.ret = "recover"
      BY DEF Idle, Job
    <3>2. task' = [task EXCEPT !["button"] = j] \/ task' = [task EXCEPT !["button"] = Idle]
      BY <1>6 DEF SelectFails, Reconnects
    <3>. HIDE DEF j
    <3>3. CASE task' = [task EXCEPT !["button"] = j]
      BY <1>0, <3>1, <3>3, TaskRests
    <3>4. CASE task' = [task EXCEPT !["button"] = Idle]
      BY <1>0, <3>4, RestingJobs, TaskRests
    <3>. QED  BY <3>2, <3>3, <3>4
  <2>5. loaded' \in BOOLEAN
    BY <1>6 DEF SelectFails, Reconnects, Types
  <2>6. UNCHANGED <<rows, linkUp, screen, web, draw, owed, due, recovers>>
    BY <1>6 DEF SelectFails, histVars
  <2>7. Types'
    BY <2>1, <2>2, <2>3, <2>4, <2>5, <2>6 DEF Types
  <2>. QED  BY <2>4, <2>6, <2>7 DEF OnlyRecovers
<1>7. ASSUME NEW t \in Tasks, WasReset(t)
      PROVE  Types' /\ Counts' /\ OnlyRecovers'
  <2>1. task[t].pc = "reset" /\ Refresh(t, task[t].ret)
    BY <1>7 DEF WasReset, At
  <2>2. task[t].ret \in {"open", "browse", "load", "recover", "imaging"}
    BY <1>0 DEF Job
  <2>3. /\ task' \in [Tasks -> Job] /\ Counts' /\ \A u \in Tasks \ {t} : task'[u] = task[u]
        /\ task'[t].ret = task[t].ret /\ task'[t].pc \in {"count", "end"}
        /\ rows' \in Seq(RowType) /\ draw' \in {"none", "live", "freed"}
    BY <2>1, <2>2, TaskRefreshes
  <2>. QED  BY <1>0, <1>7, <2>1, <2>3 DEF WasReset, boardVars, histVars, Types, OnlyRecovers
<1>8. CASE StatusFails
  <2>1. task' = [task EXCEPT !["status"] = [Idle EXCEPT !.pc = "reset", !.ret = "imaging"]]
    BY <1>8 DEF StatusFails, Reconnects
  <2>2. /\ task' \in [Tasks -> Job] /\ Counts'
        /\ task'["status"].pc = "reset" /\ task'["status"].ret = "imaging"
        /\ task'["button"] = task["button"]
    <3>. DEFINE j == [Idle EXCEPT !.pc = "reset", !.ret = "imaging"]
    <3>1. j \in Job /\ j.i = 0 /\ j.n = 0 /\ j.pc = "reset" /\ j.ret = "imaging"
      BY DEF Idle, Job
    <3>2. task' = [task EXCEPT !["status"] = j]
      BY <2>1
    <3>. HIDE DEF j
    <3>. QED  BY <1>0, <3>1, <3>2, TaskRests
  <2>3. faults' \in 0 .. MaxFaults
    BY <1>8, BoundAssumption DEF StatusFails, Faulty, Types
  <2>. QED  BY <1>8, <2>2, <2>3 DEF StatusFails, Reconnects, boardVars, histVars, Types, OnlyRecovers
<1>9. CASE Relinked \/ DrawBegins \/ DrawEnds
  BY <1>9 DEF Relinked, DrawBegins, DrawEnds, boardVars, histVars, Types, Counts, Counted,
              OnlyRecovers
<1>10. CASE WebChanges
  BY <1>10, MovesTypes DEF WebChanges, histVars, Types, Counts, Counted, OnlyRecovers
<1>11. CASE WebInvalidates
  BY <1>11 DEF WebInvalidates, Promises, boardVars, Types, Counts, Counted, OnlyRecovers
<1>12. CASE UNCHANGED vars
  BY <1>12 DEF vars, Types, Counts, Counted, OnlyRecovers
<1>. QED  BY <1>0, <1>1, <1>2, <1>3, <1>4, <1>5, <1>6, <1>7, <1>8, <1>9, <1>10, <1>11, <1>12
          DEF Next, ButtonStep, StatusStep

LEMMA BuildStays == [Next]_vars => recovers' = recovers
<1>1. ASSUME NEW t \in Tasks, RefreshStep(t) PROVE recovers' = recovers
  BY <1>1 DEF RefreshStep, CountReplies, EntryReplies, SetsIndex, MarksLoaded, Returns, RefreshOnly
<1>. QED  BY <1>1 DEF Next, ButtonStep, StatusStep, Open, Leave, ScreenOnly, Pick, SelectReplies,
     SelectFails, WasReset, StatusFails, Relinked, WebChanges, WebInvalidates, DrawBegins,
     DrawEnds, vars, Tasks

(* Each row gets its own index, and the row that was picked keeps it.      *)
LEMMA StampedStep ==
  ASSUME Types, Counts, OnlyRecovers, Stamped, [Next]_vars
  PROVE  Stamped'
<1>. DEFINE Goal == /\ \A k \in DOMAIN rows' :
                         IF task'["button"].pc = "stamp" /\ k = Len(rows')
                         THEN task'["button"].todo = Meant(rows'[k])
                         ELSE rows'[k].index = Meant(rows'[k])
                    /\ task'["button"].pc = "select" => sel'.index = Meant(sel')
<1>. SUFFICES ASSUME ~recovers PROVE Goal
  BY BuildStays DEF Stamped
<1>. HIDE DEF Goal
<1>0. /\ "button" \in Tasks /\ "status" \in Tasks /\ Tasks = {"button", "status"}
      /\ task["status"].pc = "idle" /\ rows \in Seq(RowType)
      /\ \A k \in DOMAIN rows :
           IF task["button"].pc = "stamp" /\ k = Len(rows)
           THEN task["button"].todo = Meant(rows[k]) ELSE rows[k].index = Meant(rows[k])
      /\ task["button"].pc = "select" => sel.index = Meant(sel)
  BY DEF Tasks, OnlyRecovers, Stamped, Types
<1>1. CASE RefreshStep("button")
  <2>1. Grows("button") /\ sel' = sel /\ task["button"].pc \in Refreshing
        /\ task'["button"].pc \in Refreshing \cup {"idle"}
    BY <1>0, <1>1, StepDoes, RestingJobs
  <2>2. task'["button"].pc # "select"
    BY <2>1 DEF Refreshing, Rebuilds
  <2>3. CASE /\ rows' = rows /\ task'["button"].pc # "stamp"
             /\ task["button"].pc = "stamp" => rows = <<>>
    <3>1. ASSUME NEW k \in DOMAIN rows PROVE rows[k].index = Meant(rows[k])
      <4>1. task["button"].pc # "stamp"
        BY <1>0, <2>3, <3>1
      <4>. QED  BY <1>0, <3>1, <4>1
    <3>. QED  BY <2>2, <2>3, <3>1 DEF Goal
  <2>4. CASE /\ task["button"].pc \in {"count", "entry"} /\ task'["button"].pc = "stamp"
             /\ \E row \in RowType : rows' = Append(rows, row) /\ task'["button"].todo = Meant(row)
    <3>1. PICK row \in RowType : rows' = Append(rows, row) /\ task'["button"].todo = Meant(row)
      BY <2>4
    <3>2. ASSUME NEW k \in DOMAIN rows'
          PROVE  \/ k = Len(rows') /\ rows'[k] = row
                 \/ k # Len(rows') /\ k \in DOMAIN rows /\ rows'[k] = rows[k]
      BY <1>0, <3>1, AppendProperties
    <3>3. ASSUME NEW k \in DOMAIN rows PROVE rows[k].index = Meant(rows[k])
      BY <1>0, <2>4, <3>3
    <3>. QED  BY <2>2, <2>4, <3>1, <3>2, <3>3 DEF Goal
  <2>5. CASE /\ task["button"].pc = "stamp" /\ rows # <<>>
             /\ rows' = [rows EXCEPT ![Len(rows)].index = task["button"].todo]
             /\ task'["button"].pc # "stamp"
    <3>1. DOMAIN rows' = DOMAIN rows
      BY <2>5
    <3>2. ASSUME NEW k \in DOMAIN rows, k # Len(rows) PROVE rows'[k].index = Meant(rows'[k])
      <4>1. rows'[k] = rows[k]
        BY <2>5, <3>2
      <4>. QED  BY <1>0, <3>2, <4>1
    <3>3. ASSUME NEW k \in DOMAIN rows, k = Len(rows) PROVE rows'[k].index = Meant(rows'[k])
      <4>1. rows'[k] = [rows[k] EXCEPT !.index = task["button"].todo] /\ rows[k] \in RowType
        BY <1>0, <2>5, <3>3
      <4>2. Meant(rows'[k]) = Meant(rows[k]) /\ rows'[k].index = task["button"].todo
        BY <4>1 DEF Meant, RowType
      <4>3. task["button"].todo = Meant(rows[k])
        BY <1>0, <2>5, <3>3
      <4>. QED  BY <4>2, <4>3
    <3>. QED  BY <2>2, <2>5, <3>1, <3>2, <3>3 DEF Goal
  <2>. QED  BY <2>1, <2>3, <2>4, <2>5 DEF Grows
<1>2. ASSUME NEW ret \in {"open", "browse", "load", "recover", "imaging"}, Refresh("button", ret),
             task["button"].pc # "stamp"
      PROVE  Goal
  <2>1. /\ rows' \in {<<>>, rows} /\ task'["button"].pc \notin {"select", "stamp"}
    BY <1>0, <1>2, TaskRefreshes
  <2>. QED  BY <1>0, <1>2, <2>1 DEF Goal
<1>3. ASSUME rows' = rows, task["button"].pc # "stamp", task'["button"].pc # "stamp",
             task'["button"].pc = "select" => sel'.index = Meant(sel')
      PROVE  Goal
  BY <1>0, <1>3 DEF Goal
<1>4. CASE Open
  <2>1. task["button"].pc = "idle"
    BY <1>4 DEF Open, Pressed, At
  <2>2. Refresh("button", "open") \/ UNCHANGED <<rows, task>>
    BY <1>4 DEF Open
  <2>. QED  BY <1>2, <1>3, <2>1, <2>2
<1>5. CASE Leave
  BY <1>0, <1>5 DEF Leave, ScreenOnly, Goal
<1>6. ASSUME NEW k \in DOMAIN rows, Pick(k) PROVE Goal
  <2>1. task["button"].pc = "idle" /\ rows' = rows /\ sel' = rows[k]
    BY <1>6 DEF Pick, Pressed, At
  <2>2. sel'.index = Meant(sel')
    BY <1>0, <2>1
  <2>3. task'["button"].pc = "select"
    <3>1. \E ret : task' = [task EXCEPT !["button"] = [Idle EXCEPT !.pc = "select", !.ret = ret]]
      BY <1>6 DEF Pick
    <3>2. \A ret : [Idle EXCEPT !.pc = "select", !.ret = ret].pc = "select"
      BY DEF Idle
    <3>. QED  BY <1>0, <3>1, <3>2 DEF Types
  <2>. QED  BY <1>3, <2>1, <2>2, <2>3
<1>7. CASE SelectReplies
  <2>1. task["button"].pc = "select"
    BY <1>7 DEF SelectReplies, At
  <2>2. \/ Refresh("button", "browse")
        \/ rows' = rows /\ task' = [task EXCEPT !["button"] = Idle]
    BY <1>7 DEF SelectReplies
  <2>3. CASE rows' = rows /\ task' = [task EXCEPT !["button"] = Idle]
    <3>1. task'["button"].pc = "idle"
      BY <1>0, <2>3, RestingJobs DEF Types
    <3>. QED  BY <1>3, <2>1, <2>3, <3>1
  <2>. QED  BY <1>2, <2>1, <2>2, <2>3
<1>8. CASE SelectFails
  <2>1. task["button"].pc = "select" /\ rows' = rows
    BY <1>8 DEF SelectFails, At
  <2>2. task'["button"].pc \notin {"select", "stamp"}
    <3>1. \/ task' = [task EXCEPT !["button"] = [Idle EXCEPT !.pc = "reset", !.ret = "recover"]]
          \/ task' = [task EXCEPT !["button"] = Idle]
      BY <1>8 DEF SelectFails, Reconnects
    <3>2. [Idle EXCEPT !.pc = "reset", !.ret = "recover"].pc = "reset" /\ Idle.pc = "idle"
      BY DEF Idle
    <3>. QED  BY <1>0, <3>1, <3>2 DEF Types
  <2>. QED  BY <1>3, <2>1, <2>2
<1>9. CASE WasReset("button")
  <2>1. task["button"].pc = "reset" /\ Refresh("button", task["button"].ret)
        /\ task["button"].ret = "recover"
    BY <1>9 DEF WasReset, At, OnlyRecovers
  <2>. QED  BY <1>2, <2>1
<1>10. CASE WasReset("status") \/ RefreshStep("status") \/ StatusFails
  <2>1. ~StatusFails /\ ~WasReset("status")
    BY <1>0 DEF StatusFails, WasReset, At
  <2>2. ~RefreshStep("status")
    BY <1>0, StepDoes DEF Refreshing, Rebuilds
  <2>. QED  BY <1>10, <2>1, <2>2
<1>11. CASE Relinked \/ WebChanges \/ WebInvalidates \/ DrawBegins \/ DrawEnds \/ UNCHANGED vars
  <2>1. UNCHANGED <<rows, task, sel>>
    BY <1>11 DEF Relinked, WebChanges, WebInvalidates, DrawBegins, DrawEnds, vars
  <2>. QED  BY <1>0, <2>1 DEF Goal
<1>. QED  BY <1>1, <1>4, <1>5, <1>6, <1>7, <1>8, <1>9, <1>10, <1>11
          DEF Next, ButtonStep, StatusStep

(* How old the rows can be.                                                *)
Ages == Ordered /\ LoadedIsRecent /\ OpenedIsRecent

LEMMA AgesAre ==
  ASSUME Types
  PROVE  now \in Nat /\ owed \in Nat /\ due \in Nat /\ Tasks = {"button", "status"}
  BY StampsAre DEF Types, Tasks

LEMMA AgesStay ==
  ASSUME Types, Ages, now' \in Nat, now <= now', UNCHANGED <<rows, owed, due>>, loaded' => loaded,
         \A t \in Tasks : task'[t] = task[t] \/ task'[t].pc \notin Refreshing
  PROVE  Ages'
<1>1. Ordered'
  BY AgesAre DEF Ages, Ordered
<1>2. \A t \in Tasks : task'[t].pc \in Refreshing => task[t] = task'[t]
  OBVIOUS
<1>3. (\E t \in Tasks : task'[t].pc \in Rebuilds) => \E t \in Tasks : task[t].pc \in Rebuilds
  BY <1>2 DEF Refreshing
<1>4. LoadedIsRecent'
  BY <1>3 DEF Ages, LoadedIsRecent, Rebuilding, Recent
<1>5. OpenedIsRecent'
  BY <1>2, AgesAre DEF Ages, OpenedIsRecent, Recent
<1>. QED  BY <1>1, <1>4, <1>5 DEF Ages

LEMMA AgesRefresh ==
  ASSUME Types, Counts, Ages, NEW t \in Tasks,
         NEW ret \in {"open", "browse", "load", "recover", "imaging"}, Refresh(t, ret),
         now' \in Nat, now <= now', owed' = owed, loaded' = loaded,
         t = "button" /\ ret = "open" => linkUp,
         due' = due \/ (due' = owed /\ linkUp)
  PROVE  Ages'
<1>1. Ordered'
  BY AgesAre DEF Ages, Ordered
<1>2. /\ \A u \in Tasks \ {t} : task'[u] = task[u]
      /\ task'[t].ret = ret
      /\ \/ linkUp /\ rows' = <<>>
         \/ ~linkUp /\ rows' = rows /\ task'[t].pc = "end"
  BY TaskRefreshes
<1>3. CASE linkUp /\ rows' = <<>>
  BY <1>1, <1>3 DEF Ages, LoadedIsRecent, OpenedIsRecent, Recent
<1>4. CASE ~linkUp /\ rows' = rows /\ task'[t].pc = "end"
  <2>1. due' = due
    BY <1>4
  <2>2. (\E u \in Tasks : task'[u].pc \in Rebuilds) => \E u \in Tasks : task[u].pc \in Rebuilds
    BY <1>2, <1>4 DEF Rebuilds
  <2>3. LoadedIsRecent'
    BY <1>4, <2>2 DEF Ages, LoadedIsRecent, Rebuilding, Recent
  <2>4. task'["button"].ret = "open" => task'["button"] = task["button"]
    BY <1>2, <1>4, AgesAre
  <2>5. OpenedIsRecent'
    BY <1>4, <2>1, <2>4 DEF Ages, OpenedIsRecent, Recent
  <2>. QED  BY <1>1, <2>3, <2>5 DEF Ages
<1>. QED  BY <1>2, <1>3, <1>4

LEMMA AgesGrow ==
  ASSUME Types, Counts, OnlyRecovers, Ages, NEW t \in Tasks, RefreshStep(t)
  PROVE  Ages'
<1>0. /\ now \in Nat /\ owed \in Nat /\ due \in Nat /\ owed <= now /\ due <= now
      /\ UNCHANGED <<now, owed, due>> /\ Grows(t)
  <2>1. now \in Nat /\ owed \in Nat /\ due \in Nat
    BY AgesAre
  <2>2. owed <= now /\ due <= now
    BY <2>1 DEF Ages, Ordered
  <2>3. UNCHANGED <<now, owed, due>> /\ Grows(t)
    BY StepDoes
  <2>. QED  BY <2>1, <2>2, <2>3
<1>1. Ordered'
  BY <1>0 DEF Ages, Ordered
<1>2. /\ \A u \in Tasks \ {t} : task'[u] = task[u]
  BY StepDoes, TasksKeep
<1>3. \/ /\ task'[t].ret = task[t].ret /\ task[t].pc \in Rebuilds
         /\ loaded' = loaded \/ loaded' = TRUE
      \/ loaded' = loaded /\ task'[t].pc = "idle"
  BY StepDoes, RestingJobs DEF Returns
<1>4. loaded' \/ (\E u \in Tasks : task'[u].pc \in Rebuilds)
        => loaded \/ \E u \in Tasks : task[u].pc \in Rebuilds
  BY <1>2, <1>3 DEF Rebuilds
<1>5. LoadedIsRecent'
  <2>. SUFFICES ASSUME loaded' \/ \E u \in Tasks : task'[u].pc \in Rebuilds
                PROVE  \A k \in DOMAIN rows' : rows'[k].of # None => rows'[k].of >= owed
    BY <1>0 DEF LoadedIsRecent, Rebuilding, Recent
  <2>1. Recent(owed)
    BY <1>4 DEF Ages, LoadedIsRecent, Rebuilding
  <2>. QED  BY <1>0, <2>1, GrowsRecent
<1>6. OpenedIsRecent'
  <2>. SUFFICES ASSUME task'["button"].pc \in Refreshing, task'["button"].ret = "open"
                PROVE  \A k \in DOMAIN rows' : rows'[k].of # None => rows'[k].of >= due
    BY <1>0 DEF OpenedIsRecent, Recent
  <2>1. task["button"].pc \in Refreshing /\ task["button"].ret = "open"
    BY <1>2, <1>3, AgesAre DEF Refreshing, Rebuilds
  <2>2. Recent(due)
    BY <2>1 DEF Ages, OpenedIsRecent
  <2>. QED  BY <1>0, <2>2, GrowsRecent
<1>. QED  BY <1>1, <1>5, <1>6 DEF Ages

LEMMA AgesStep ==
  ASSUME Types, Counts, OnlyRecovers, Ages, [Next]_vars
  PROVE  Ages'
<1>0. /\ "button" \in Tasks /\ "status" \in Tasks /\ Tasks = {"button", "status"}
      /\ now \in Nat /\ owed \in Nat /\ due \in Nat /\ owed <= now /\ due <= owed
      /\ \A t \in Tasks : task[t] \in Job
  BY AgesAre DEF Ages, Ordered, Types
<1>1. now' \in Nat
  BY TypesStep, StampsAre DEF Types
<1>2. CASE RefreshStep("button") \/ RefreshStep("status")
  BY <1>0, <1>2, AgesGrow
<1>3. CASE Open
  <2>1. UNCHANGED <<now, owed, loaded>> /\ due' = owed
    BY <1>3 DEF Open, boardVars
  <2>2. CASE ~loaded /\ linkUp /\ Refresh("button", "open")
    BY <1>0, <2>1, <2>2, AgesRefresh
  <2>3. CASE UNCHANGED <<rows, task>>
    <3>1. task'["button"].pc = "idle"
      BY <1>3, <2>3 DEF Open, Pressed, At
    <3>2. OpenedIsRecent'
      BY <3>1 DEF OpenedIsRecent, Refreshing, Rebuilds
    <3>3. Ordered' /\ LoadedIsRecent'
      BY <1>0, <2>1, <2>3 DEF Ages, Ordered, LoadedIsRecent, Rebuilding, Recent
    <3>. QED  BY <3>2, <3>3 DEF Ages
  <2>. QED  BY <1>3, <2>2, <2>3 DEF Open
<1>4. CASE Leave \/ Relinked \/ DrawBegins \/ DrawEnds \/ UNCHANGED vars
  <2>1. UNCHANGED <<now, rows, owed, due, task>> /\ (loaded' => loaded)
    BY <1>4 DEF Leave, ScreenOnly, Relinked, DrawBegins, DrawEnds, boardVars, histVars, vars
  <2>. QED  BY <1>0, <2>1, AgesStay
<1>5. ASSUME NEW k \in DOMAIN rows, Pick(k) PROVE Ages'
  <2>1. UNCHANGED <<now, rows, owed, due, loaded>>
    BY <1>5 DEF Pick, boardVars, histVars
  <2>2. \E ret : task' = [task EXCEPT !["button"] = [Idle EXCEPT !.pc = "select", !.ret = ret]]
    BY <1>5 DEF Pick
  <2>3. \A ret : [Idle EXCEPT !.pc = "select", !.ret = ret].pc = "select"
    BY DEF Idle
  <2>4. \A t \in Tasks : task'[t] = task[t] \/ task'[t].pc \notin Refreshing
    BY <2>2, <2>3 DEF Types, Refreshing, Rebuilds
  <2>. QED  BY <1>0, <2>1, <2>4, AgesStay
<1>6. CASE SelectReplies
  <2>1. now <= now' /\ UNCHANGED <<owed, due, loaded>>
    <3>1. sel.index \in Nat \cup {None} /\ Selects(sel.index)
      BY <1>6 DEF SelectReplies, Types, RowType
    <3>. QED  BY <1>6, <3>1, SelectsTypes DEF SelectReplies, histVars
  <2>2. CASE Refresh("button", "browse")
    BY <1>0, <1>1, <2>1, <2>2, AgesRefresh
  <2>3. CASE rows' = rows /\ task' = [task EXCEPT !["button"] = Idle]
    <3>1. \A t \in Tasks : task'[t] = task[t] \/ task'[t].pc \notin Refreshing
      BY <2>3, RestingJobs DEF Types, Refreshing, Rebuilds
    <3>. QED  BY <1>1, <2>1, <2>3, <3>1, AgesStay
  <2>. QED  BY <1>6, <2>2, <2>3 DEF SelectReplies
<1>7. CASE SelectFails
  <2>1. now <= now' /\ UNCHANGED <<rows, owed, due>> /\ (loaded' => loaded)
    <3>1. sel.index \in Nat \cup {None} /\ (Selects(sel.index) \/ UNCHANGED boardVars)
      BY <1>7 DEF SelectFails, Types, RowType
    <3>. QED  BY <1>7, <3>1, SelectsTypes DEF SelectFails, Reconnects, histVars
  <2>2. \/ task' = [task EXCEPT !["button"] = [Idle EXCEPT !.pc = "reset", !.ret = "recover"]]
        \/ task' = [task EXCEPT !["button"] = Idle]
    BY <1>7 DEF SelectFails, Reconnects
  <2>3. [Idle EXCEPT !.pc = "reset", !.ret = "recover"].pc = "reset" /\ Idle.pc = "idle"
    BY DEF Idle
  <2>4. \A t \in Tasks : task'[t] = task[t] \/ task'[t].pc \notin Refreshing
    BY <2>2, <2>3 DEF Types, Refreshing, Rebuilds
  <2>. QED  BY <1>1, <2>1, <2>4, AgesStay
<1>8. ASSUME NEW t \in Tasks, WasReset(t) PROVE Ages'
  <2>1. /\ task[t].pc = "reset" /\ Refresh(t, task[t].ret)
        /\ UNCHANGED <<now, owed, due, loaded>>
    BY <1>8 DEF WasReset, At, boardVars, histVars
  <2>2. task[t].ret \in {"open", "browse", "load", "recover", "imaging"}
    BY <1>0 DEF Job
  <2>3. t = "button" => task[t].ret = "recover"
    BY <2>1 DEF OnlyRecovers
  <2>. QED  BY <1>0, <2>1, <2>2, <2>3, AgesRefresh
<1>9. CASE StatusFails
  <2>1. UNCHANGED <<now, rows, owed, due>> /\ loaded' = FALSE
    BY <1>9 DEF StatusFails, Reconnects, boardVars, histVars
  <2>2. task' = [task EXCEPT !["status"] = [Idle EXCEPT !.pc = "reset", !.ret = "imaging"]]
    BY <1>9 DEF StatusFails, Reconnects
  <2>3. [Idle EXCEPT !.pc = "reset", !.ret = "imaging"].pc = "reset"
    BY DEF Idle
  <2>4. \A t \in Tasks : task'[t] = task[t] \/ task'[t].pc \notin Refreshing
    BY <2>2, <2>3 DEF Types, Refreshing, Rebuilds
  <2>. QED  BY <1>0, <2>1, <2>4, AgesStay
<1>10. CASE WebChanges
  <2>1. now <= now' /\ UNCHANGED <<rows, owed, due, loaded, task>>
    BY <1>10, MovesTypes DEF WebChanges, histVars
  <2>. QED  BY <1>1, <2>1, AgesStay
<1>11. CASE WebInvalidates
  <2>1. /\ loaded' = FALSE /\ UNCHANGED <<now, rows, task, due>>
        /\ owed' = IF Rebuilding THEN owed ELSE now
    BY <1>11 DEF WebInvalidates, Promises, boardVars
  <2>2. CASE Rebuilding
    BY <1>0, <2>1, <2>2, AgesStay
  <2>3. CASE ~Rebuilding
    <3>1. LoadedIsRecent'
      BY <2>1, <2>3 DEF LoadedIsRecent, Rebuilding
    <3>2. Ordered' /\ OpenedIsRecent'
      BY <1>0, <2>1, <2>3 DEF Ages, Ordered, OpenedIsRecent, Recent
    <3>. QED  BY <3>1, <3>2 DEF Ages
  <2>. QED  BY <2>2, <2>3
<1>. QED  BY <1>0, <1>2, <1>3, <1>4, <1>5, <1>6, <1>7, <1>8, <1>9, <1>10, <1>11
          DEF Next, ButtonStep, StatusStep

LEMMA InvInit == Init => Inv
<1>. SUFFICES ASSUME Init PROVE Inv
  OBVIOUS
<1>1. Types /\ Counts /\ OnlyRecovers
  BY TypesInit
<1>2. /\ DOMAIN rows = {1} /\ rows[1].of = None /\ rows[1].index = None /\ rows[1].kind = "none"
      /\ task["button"].pc = "idle"
  BY DEF Init, Placeholder, Row, Tasks, Idle
<1>3. Stamped
  BY <1>2 DEF Stamped, Meant
<1>4. Ordered /\ LoadedIsRecent /\ OpenedIsRecent
  BY <1>2 DEF Init, Ordered, LoadedIsRecent, OpenedIsRecent, Recent
<1>. QED  BY <1>1, <1>3, <1>4 DEF Inv

LEMMA InvStep == Inv /\ [Next]_vars => Inv'
<1>. SUFFICES ASSUME Inv, [Next]_vars PROVE Inv'
  OBVIOUS
<1>1. Types' /\ Counts' /\ OnlyRecovers'
  BY TypesStep DEF Inv
<1>2. Stamped'
  BY StampedStep DEF Inv
<1>3. Ages'
  BY AgesStep DEF Inv, Ages
<1>. QED  BY <1>1, <1>2, <1>3 DEF Inv, Ages

LEMMA InvAlways == Spec => []Inv
<1>. QED  BY InvInit, InvStep, PTL DEF Spec

(* Whatever the listings, and however calls fail in the middle of one: the *)
(* re-enumeration asks for no entry past the count the board gave, and     *)
(* every variable has its type.                                            *)
THEOREM BrowserTyped == Spec => []TypeOK
<1>1. Inv => TypeOK
  <2>. SUFFICES ASSUME Inv PROVE TypeOK
    OBVIOUS
  <2>1. \A k \in DOMAIN rows : rows[k] \in RowType
    BY DEF Inv, Types
  <2>2. \A t \in Tasks : task[t].pc \in Statements \cup {"idle", "count", "entry", "select", "reset"}
                         /\ task[t].i <= task[t].n
    BY DEF Inv, Types, Counts, Counted, Job, Refreshing, Rebuilds, Statements
  <2>. QED  BY <2>1, <2>2 DEF Inv, Types, TypeOK
<1>. QED  BY <1>1, InvAlways, PTL

(* main.c:620-623: the image loaded from the listing the row was read from *)
(* is the image the row shows, and a row that names no entry loads none,   *)
(* for the builds where one task rebuilds the rows.  The index a row gets  *)
(* is the one set_last_menu_entry_index gives that very row (Stamped): the *)
(* button task never picks between the two statements.                     *)
THEOREM LoadsWhatShows == Spec => LoadsWhatIsShown
<1>1. Inv /\ [Next]_vars => [~recovers /\ mounted' # mounted =>
                               /\ sel.kind \notin {"none", "up"}
                               /\ sel.of = mounted'[1] => sel.at = mounted'[2]]_vars
  <2>. SUFFICES ASSUME Inv, Next, ~recovers, mounted' # mounted
                PROVE  sel.kind \notin {"none", "up"} /\ (sel.of = mounted'[1] => sel.at = mounted'[2])
    BY DEF vars
  <2>1. SelectReplies \/ SelectFails
    <3>1. ASSUME NEW t \in Tasks, RefreshStep(t) PROVE mounted' = mounted
      BY <3>1, StepDoes DEF Inv
    <3>. QED  BY <3>1 DEF Next, ButtonStep, StatusStep, Open, Leave, ScreenOnly, Pick, WasReset,
         StatusFails, Relinked, WebChanges, WebInvalidates, DrawBegins, DrawEnds, boardVars, Tasks
  <2>2. task["button"].pc = "select" /\ (Selects(sel.index) \/ UNCHANGED boardVars)
    BY <2>1 DEF SelectReplies, SelectFails, At
  <2>3. sel.index = Meant(sel) /\ sel \in RowType
    BY <2>2 DEF Inv, Stamped, Types
  <2>4. sel.index \in Nat /\ mounted' = <<now, sel.index>>
    <3>1. sel.index \in Nat \cup {None}
      BY <2>3 DEF RowType
    <3>. QED  BY <2>2, <3>1, SelectsTypes DEF Inv
  <2>. QED  BY <2>3, <2>4 DEF Meant, None
<1>. QED  BY <1>1, InvAlways, PTL DEF Spec, LoadsWhatIsShown

(* main.c:160-162: whenever web changes end, during a re-enumeration too,  *)
(* a listing opened over a link that is up is no older than the last one   *)
(* invalidated during none; a re-enumeration that failed halfway shows     *)
(* fewer rows, never old ones.                                             *)
THEOREM OpensRecent == Spec => ReloadsOnOpen
<1>1. Inv /\ [Next]_vars => [screen = "menu" /\ screen' = "list" /\ linkUp =>
               \A k \in DOMAIN rows' : rows'[k].of # None => rows'[k].of >= due']_vars
  <2>. SUFFICES ASSUME Inv, Next, screen = "menu", screen' = "list", linkUp
                PROVE  \A k \in DOMAIN rows' : rows'[k].of # None => rows'[k].of >= due'
    BY DEF vars
  <2>1. CASE Open
    <3>1. due' = owed /\ rows' = rows /\ loaded
      BY <2>1 DEF Open
    <3>2. Recent(owed)
      BY <3>1 DEF Inv, LoadedIsRecent
    <3>. QED  BY <3>1, <3>2 DEF Recent
  <2>2. ASSUME NEW t \in Tasks, RefreshStep(t)
        PROVE  \A k \in DOMAIN rows' : rows'[k].of # None => rows'[k].of >= due'
    <3>1. Returns(t)
      BY <2>2, StepDoes DEF Inv
    <3>2. task[t].ret = "open" /\ task[t].pc = "end" /\ rows' = rows /\ due' = due
      BY <3>1 DEF Returns, At, histVars
    <3>3. t = "button"
      BY <3>2 DEF Inv, OnlyRecovers, Tasks
    <3>4. Recent(due)
      BY <3>2, <3>3 DEF Inv, OpenedIsRecent, Refreshing
    <3>. QED  BY <3>2, <3>4 DEF Recent
  <2>3. Open \/ RefreshStep("button") \/ RefreshStep("status")
    BY DEF Next, ButtonStep, StatusStep, Leave, Pressed, Pick, SelectReplies, Refresh, SelectFails,
       WasReset, StatusFails, Relinked, WebChanges, WebInvalidates, DrawBegins, DrawEnds
  <2>. QED  BY <2>1, <2>2, <2>3 DEF Tasks
<1>. QED  BY <1>1, InvAlways, PTL DEF Spec, ReloadsOnOpen
=============================================================================
