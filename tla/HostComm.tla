------------------------------- MODULE HostComm ------------------------------
(***************************************************************************)
(* host_comm.c over transport.c, transport_spi.c and transport_i2c.c: every*)
(* task of the panel talks to the one main board through one handle.  A    *)
(* call takes the handle's mutex, sends a command, polls the board's single*)
(* asynchronous operation until it is ready or the function's own timeout  *)
(* has passed, copies the answer out of the shared rx_buffer and gives the *)
(* mutex back.                                                             *)
(*                                                                         *)
(* The main board is outside this repository.  It is modelled from how the *)
(* panel uses it: one slot holding the last asynchronous operation, which  *)
(* finishes or fails in its own time and survives until a later command or *)
(* a reset takes its place.                                                *)
(***************************************************************************)
EXTENDS HostCommands

CONSTANTS
  Tasks,        \* the FreeRTOS tasks that call host_comm_*
  Used,         \* the commands they use
  MaxCalls,     \* bound: calls per task
  PollMs,       \* bound: milliseconds one modelled poll interval stands for (10 in the code)
  Supersedes,   \* TRUE: a new command takes the board's slot even while it is working
  SilentLoss,   \* TRUE: a transaction can return ESP_OK although no board heard it (SPI)
  AckLost,      \* TRUE: a send can return an error although the board heard it (I2C)
  Sizes         \* the reply sizes the board sends, relative to what the caller expects

ASSUME CallsAssumption == MaxCalls \in Nat \ {0}
ASSUME UsedAssumption  ==
  /\ Used # {} /\ \A c \in Used : c \in DOMAIN Command /\ Timeout(c) \in Nat
  /\ \A c \in Used : Kind(c) = "async" => Check(c) \in {"void", "dropped"} \cup Copying
ASSUME PollAssumption  == PollMs \in Nat \ {0}
ASSUME BoardAssumption == {Supersedes, SilentLoss, AckLost} \subseteq BOOLEAN
ASSUME SizeAssumption  == Sizes \subseteq {"empty", "short", "whole", "long"}

VARIABLES
  pc,      \* pc[t]: where task t is in its call
  cmd,     \* cmd[t]: the command of its current or last call
  issued,  \* issued[t]: how many calls it has made
  polls,   \* polls[t]: elapsed_ms of its poll loop, in poll intervals
  got,     \* got[t]: response_size of the poll that found the board ready
  out,     \* out[t]: what its last call returned, and whose bytes the data is
  lock,    \* the holder of comm->mutex, as a set of at most one task
  rx,      \* whose bytes rx_buffer holds: the front part, and what lies behind it
  slot,    \* the board's asynchronous operation
  served,  \* history: the requests the board has run to their end
  won      \* history: the requests whose call returned ESP_OK with an answer

vars == <<pc, cmd, issued, polls, got, out, lock, rx, slot, served, won>>

-----------------------------------------------------------------------------
Tags  == Tasks \X (1 .. MaxCalls)
Tag(t) == <<t, issued[t]>>

PCs     == {"idle", "want", "locked", "poll", "copy", "unlock"}
Holding == {"locked", "poll", "copy", "unlock"}
Rets    == {"OK", "FAIL", "TIMEOUT", "INVALID_ARG", "INVALID_SIZE", "INVALID_RESPONSE",
            "NOT_FOUND"}

SlotIdle   == [st |-> "idle", of |-> {}]
Working(g) == [st |-> "processing", of |-> {g}]

(* The loop polls at once and then after every interval while elapsed_ms < *)
(* timeout_ms, so it makes 1 + ceil(timeout / interval) polls.             *)
PollLimit(c) == (Timeout(c) + PollMs - 1) \div PollMs

(* What the panel can read from a bus nobody drives, by what the checks    *)
(* tell apart: whether all bytes are equal, whether the alive magic is in  *)
(* its place, and whether only defined flag bits are set.                  *)
Noises == [uniform : BOOLEAN, magic : BOOLEAN, flags : BOOLEAN]

AcceptsNoise(c, noise) ==
  \/ Check(c) = "raw"
  \/ Check(c) = "magic" /\ noise.magic
  \/ Check(c) = "probe" /\ noise.magic /\ ~noise.uniform /\ noise.flags

Init == /\ pc     = [t \in Tasks |-> "idle"]
        /\ cmd    \in [Tasks -> {CHOOSE c \in Used : TRUE}]
        /\ issued = [t \in Tasks |-> 0]
        /\ polls  = [t \in Tasks |-> 0]
        /\ got    = [t \in Tasks |-> "empty"]
        /\ out    = [t \in Tasks |-> [ret |-> "OK", from |-> {}]]
        /\ lock   = {}
        /\ rx     = [front |-> {}, rest |-> {}]
        /\ slot   = SlotIdle
        /\ served = {}
        /\ won    = {}

-----------------------------------------------------------------------------
(* The calling task. *)

Goto(t, l)        == pc' = [pc EXCEPT ![t] = l]
Return(t, r, who) == out' = [out EXCEPT ![t] = [ret |-> r, from |-> who]]

Call(t, c) ==
  /\ pc[t] = "idle"
  /\ issued[t] < MaxCalls
  /\ Goto(t, "want")
  /\ cmd'    = [cmd EXCEPT ![t] = c]
  /\ issued' = [issued EXCEPT ![t] = @ + 1]
  /\ UNCHANGED <<polls, got, out, lock, rx, slot, served, won>>

Lock(t) ==
  /\ pc[t] = "want"
  /\ lock = {}
  /\ lock' = {t}
  /\ Goto(t, "locked")
  /\ UNCHANGED <<cmd, issued, polls, got, out, rx, slot, served, won>>

(* Mutant: the result of xSemaphoreTake is not looked at.                  *)
LockTimeout_Ignored(t) ==
  /\ pc[t] = "want"
  /\ lock # {}
  /\ Goto(t, "locked")
  /\ UNCHANGED <<cmd, issued, polls, got, out, lock, rx, slot, served, won>>

(* xSemaphoreTake gives up after 30 s; the caller sees ESP_ERR_TIMEOUT.    *)
LockTimeout(t) ==
  /\ pc[t] = "want"
  /\ lock # {}
  /\ Return(t, "TIMEOUT", {})
  /\ Goto(t, "idle")
  /\ UNCHANGED <<cmd, issued, polls, got, lock, rx, slot, served, won>>

(* Mutant: the early return forgets HOST_COMM_UNLOCK.                      *)
RejectArg_KeepsMutex(t) ==
  /\ pc[t] = "locked"
  /\ ChecksLate(cmd[t])
  /\ Return(t, "INVALID_ARG", {})
  /\ Goto(t, "idle")
  /\ UNCHANGED <<cmd, issued, polls, got, lock, rx, slot, served, won>>

RejectArg(t) ==
  /\ pc[t] = "locked"
  /\ ChecksLate(cmd[t])
  /\ Return(t, "INVALID_ARG", {})
  /\ Goto(t, "unlock")
  /\ UNCHANGED <<cmd, issued, polls, got, lock, rx, slot, served, won>>

(* What a command that reached the board does to the board.                *)
BoardHears(t) ==
  \/ /\ Kind(cmd[t]) = "read"
     /\ served' = served \cup {Tag(t)}
     /\ UNCHANGED slot
  \/ /\ Kind(cmd[t]) = "reset"
     /\ slot' = SlotIdle
     /\ served' = served \cup {Tag(t)}
  \/ /\ Kind(cmd[t]) \in {"async", "fire"}
     /\ slot' = IF Supersedes \/ slot.st # "processing" THEN Working(Tag(t)) ELSE slot
     /\ UNCHANGED served

(* The send, with the retries of the I2C transport, ends in an error.      *)
SendFails(t) ==
  /\ pc[t] = "locked"
  /\ \/ UNCHANGED <<slot, served>>
     \/ AckLost /\ BoardHears(t)
  /\ Return(t, "FAIL", {})
  /\ Goto(t, "unlock")
  /\ UNCHANGED <<cmd, issued, polls, got, lock, rx, won>>

SendRead(t) ==
  /\ pc[t] = "locked"
  /\ Kind(cmd[t]) = "read"
  /\ \/ BoardHears(t) /\ Return(t, "OK", {Tag(t)})
     \/ /\ SilentLoss
        /\ \E noise \in Noises :
             Return(t, IF AcceptsNoise(cmd[t], noise) THEN "OK" ELSE "INVALID_RESPONSE", {})
        /\ UNCHANGED <<slot, served>>
  /\ Goto(t, "unlock")
  /\ UNCHANGED <<cmd, issued, polls, got, lock, rx, won>>

SendUnpolled(t) ==
  /\ pc[t] = "locked"
  /\ Kind(cmd[t]) \in {"fire", "reset"}
  /\ BoardHears(t) \/ (SilentLoss /\ UNCHANGED <<slot, served>>)
  /\ Return(t, "OK", {})
  /\ Goto(t, "unlock")
  /\ UNCHANGED <<cmd, issued, polls, got, lock, rx, won>>

SendAsync(t) ==
  /\ pc[t] = "locked"
  /\ Kind(cmd[t]) = "async"
  /\ BoardHears(t) \/ (SilentLoss /\ UNCHANGED <<slot, served>>)
  /\ polls' = [polls EXCEPT ![t] = 0]
  /\ Goto(t, "poll")
  /\ UNCHANGED <<cmd, issued, got, out, lock, rx, won>>

(* The poll transaction, or the read of the result after it, fails.        *)
PollFails(t) ==
  /\ pc[t] = "poll"
  /\ \/ UNCHANGED rx
     \/ slot.st = "ready" /\ rx' = [front |-> slot.of, rest |-> rx.front \cup rx.rest]
  /\ Return(t, "FAIL", {})
  /\ Goto(t, "unlock")
  /\ UNCHANGED <<cmd, issued, polls, got, lock, slot, served, won>>

PollFindsError(t) ==
  /\ pc[t] = "poll"
  /\ slot.st = "error"
  /\ slot' \in {slot, SlotIdle}
  /\ Return(t, "FAIL", {})
  /\ Goto(t, "unlock")
  /\ UNCHANGED <<cmd, issued, polls, got, lock, rx, served, won>>

(* Not ready: sleep one interval and poll again, or give up.  Assumed:     *)
(* noise in place of a status reads as neither READY nor ERROR, which are  *)
(* two of the 256 values of its first byte.                                *)
NotReady == slot.st \in {"idle", "processing"} \/ SilentLoss

(* Mutant: the loop runs once too often.                                   *)
PollAgain_OffByOne(t) ==
  /\ pc[t] = "poll"
  /\ NotReady
  /\ polls[t] <= PollLimit(cmd[t])
  /\ polls' = [polls EXCEPT ![t] = @ + 1]
  /\ UNCHANGED <<pc, cmd, issued, got, out, lock, rx, slot, served, won>>

PollAgain(t) ==
  /\ pc[t] = "poll"
  /\ NotReady
  /\ polls[t] < PollLimit(cmd[t])
  /\ polls' = [polls EXCEPT ![t] = @ + 1]
  /\ UNCHANGED <<pc, cmd, issued, got, out, lock, rx, slot, served, won>>

(* Mutant: a poll loop that ran out sends its command once more.           *)
PollTimeout_Resends(t) ==
  /\ pc[t] = "poll"
  /\ NotReady
  /\ polls[t] >= PollLimit(cmd[t])
  /\ Goto(t, "locked")
  /\ UNCHANGED <<cmd, issued, polls, got, out, lock, rx, slot, served, won>>

(* Mutant: the test of "ready" after the loop is missing.                  *)
PollTimeout_Unnoticed(t) ==
  /\ pc[t] = "poll"
  /\ NotReady
  /\ polls[t] >= PollLimit(cmd[t])
  /\ Return(t, "OK", {})
  /\ Goto(t, "unlock")
  /\ UNCHANGED <<cmd, issued, polls, got, lock, rx, slot, served, won>>

PollTimeout(t) ==
  /\ pc[t] = "poll"
  /\ NotReady
  /\ polls[t] >= PollLimit(cmd[t])
  /\ Return(t, "TIMEOUT", {})
  /\ Goto(t, "unlock")
  /\ UNCHANGED <<cmd, issued, polls, got, lock, rx, slot, served, won>>

(* What reading a result of the given size leaves in rx_buffer.            *)
Fill(size) ==
  CASE size = "empty" -> rx
    [] size = "short" -> [front |-> slot.of, rest |-> rx.front \cup rx.rest]
    [] OTHER          -> [front |-> slot.of, rest |-> {}]

(* With expected_size 0 nothing is read and the size is not looked at.     *)
ReadyNoData(t) ==
  /\ Check(cmd[t]) = "void"
  /\ Return(t, "OK", slot.of)
  /\ Goto(t, "unlock")
  /\ UNCHANGED <<rx, got>>

ReadyTooLong(t, size) ==
  /\ Check(cmd[t]) # "void"
  /\ size = "long"
  /\ rx' = Fill(size)
  /\ Return(t, "INVALID_RESPONSE", {})
  /\ Goto(t, "unlock")
  /\ UNCHANGED got

ReadyDropped(t, size) ==
  /\ Check(cmd[t]) = "dropped"
  /\ size # "long"
  /\ rx' = Fill(size)
  /\ Return(t, "OK", slot.of)
  /\ Goto(t, "unlock")
  /\ UNCHANGED got

ReadyData(t, size) ==
  /\ Check(cmd[t]) \notin {"void", "dropped"}
  /\ size # "long"
  /\ rx' = Fill(size)
  /\ got' = [got EXCEPT ![t] = size]
  /\ Goto(t, "copy")
  /\ UNCHANGED out

PollReady(t, size) ==
  /\ pc[t] = "poll"
  /\ slot.st = "ready"
  /\ slot' \in {slot, SlotIdle}
  /\ \/ ReadyNoData(t) \/ ReadyTooLong(t, size)
     \/ ReadyDropped(t, size) \/ ReadyData(t, size)
  /\ UNCHANGED <<cmd, issued, polls, lock, served, won>>

(* Mutant: every function copies its whole struct, none looks at the size. *)
CopyOut_Unchecked(t) ==
  /\ pc[t] = "copy"
  /\ Return(t, "OK", rx.front \cup rx.rest)
  /\ Goto(t, "unlock")
  /\ UNCHANGED <<cmd, issued, polls, got, lock, rx, slot, served, won>>

(* The memcpy out of rx_buffer, after the checks the function makes;       *)
(* start_file_download also looks at the result code the board sent.       *)
CopyOut(t) ==
  /\ pc[t] = "copy"
  /\ \/ Check(cmd[t]) = "exact" /\ got[t] # "whole" /\ Return(t, "INVALID_SIZE", {})
     \/ cmd[t] = "start_file_download" /\ got[t] = "whole" /\ Return(t, "NOT_FOUND", {})
     \/ /\ Check(cmd[t]) = "counted"
        /\ Return(t, "OK", IF got[t] = "empty" THEN {} ELSE rx.front)
     \/ /\ Check(cmd[t]) = "lax" \/ (Check(cmd[t]) = "exact" /\ got[t] = "whole")
        /\ Return(t, "OK", rx.front \cup rx.rest)
  /\ Goto(t, "unlock")
  /\ UNCHANGED <<cmd, issued, polls, got, lock, rx, slot, served, won>>

Unlock(t) ==
  /\ pc[t] = "unlock"
  /\ lock' = {}
  /\ Goto(t, "idle")
  /\ won' = IF out[t].ret = "OK" /\ Kind(cmd[t]) \in {"read", "async"}
              THEN won \cup {Tag(t)} ELSE won
  /\ UNCHANGED <<cmd, issued, polls, got, out, rx, slot, served>>

TaskStep(t) == \/ Lock(t) \/ LockTimeout(t) \/ RejectArg(t)
               \/ SendFails(t) \/ SendRead(t) \/ SendUnpolled(t) \/ SendAsync(t)
               \/ PollFails(t) \/ PollFindsError(t) \/ PollAgain(t) \/ PollTimeout(t)
               \/ (\E size \in Sizes : PollReady(t, size))
               \/ CopyOut(t) \/ Unlock(t)

-----------------------------------------------------------------------------
(* The main board. *)

BoardFinishes ==
  /\ slot.st = "processing"
  /\ slot' = [slot EXCEPT !.st = "ready"]
  /\ served' = served \cup slot.of
  /\ UNCHANGED <<pc, cmd, issued, polls, got, out, lock, rx, won>>

BoardFails ==
  /\ slot.st = "processing"
  /\ slot' = [slot EXCEPT !.st = "error"]
  /\ UNCHANGED <<pc, cmd, issued, polls, got, out, lock, rx, served, won>>

(* A reboot, asked for by start_rp2350_update or not, forgets the slot.    *)
BoardReboots ==
  /\ slot # SlotIdle
  /\ slot' = SlotIdle
  /\ UNCHANGED <<pc, cmd, issued, polls, got, out, lock, rx, served, won>>

Next == \/ \E t \in Tasks : \/ \E c \in Used : Call(t, c)
                            \/ TaskStep(t)
        \/ BoardFinishes \/ BoardFails \/ BoardReboots

Spec == Init /\ [][Next]_vars

(* The scheduler runs every ready task and the timeouts fire.  Nothing is  *)
(* assumed of the board, nor that a task ever makes a call.                *)
FairSpec == Spec /\ \A t \in Tasks : WF_vars(TaskStep(t))

-----------------------------------------------------------------------------
(* Properties. *)

Returned(t) == pc[t] \in {"unlock", "idle"}
ReturnedOK(t) == Returned(t) /\ issued[t] > 0 /\ out[t].ret = "OK"

(* The variables keep their types, no poll loop outlives its timeout, and  *)
(* the board's slot names a request exactly when it is not idle.           *)
TypeOK ==
  /\ pc \in [Tasks -> PCs]
  /\ cmd \in [Tasks -> Used]
  /\ issued \in [Tasks -> 0 .. MaxCalls]
  /\ polls \in [Tasks -> Nat]
  /\ \A t \in Tasks : pc[t] = "poll" => polls[t] <= PollLimit(cmd[t])
  /\ got \in [Tasks -> {"empty", "short", "whole"}]
  /\ out \in [Tasks -> [ret : Rets, from : SUBSET Tags]]
  /\ lock \subseteq Tasks
  /\ rx \in [front : SUBSET Tags, rest : SUBSET Tags]
  /\ slot \in [st : {"idle", "processing", "ready", "error"}, of : SUBSET Tags]
  /\ (slot.st = "idle") <=> (slot.of = {})
  /\ served \subseteq Tags
  /\ won \subseteq Tags

(* The mutex is held by exactly the task that is past HOST_COMM_LOCK, on   *)
(* every path through every function: no early return keeps it, no task is *)
(* on the wire or in rx_buffer without it.                                 *)
LockDiscipline ==
  /\ \A t \in Tasks : pc[t] \in Holding <=> t \in lock
  /\ \A t, u \in lock : t = u

(* The functions that copy their whole struct whatever size was reported   *)
(* rely on the board to fill it; the others look at the size.              *)
Relied(t) == Check(cmd[t]) = "lax" => got[t] = "whole"

(* A call that returns ESP_OK returns only bytes the board sent in answer  *)
(* to this very call: never those of another task's command, nor of a      *)
(* command that timed out earlier and finished late, nor what a longer     *)
(* answer left in rx_buffer.                                               *)
AnswersOwn ==
  \A t \in Tasks : ReturnedOK(t) /\ Relied(t) => out[t].from \subseteq {Tag(t)}

(* What is left of AnswersOwn on any board and over any transport, where a *)
(* command may be lost unnoticed and the slot keep what an earlier call    *)
(* started: only a command the board never ran can be answered with bytes  *)
(* that are not its own.  If the board ran it, at whatever point, ESP_OK   *)
(* hands over its own answer, not the one that lay ready before it nor one *)
(* read into rx_buffer by another task.                                    *)
RunIsAnswered ==
  \A t \in Tasks : ReturnedOK(t) /\ Relied(t) /\ Tag(t) \in served
                    => out[t].from \subseteq {Tag(t)}

(* Every call comes back: no poll loop and no wait for the mutex is for    *)
(* ever, whatever the board does.                                          *)
CallsReturn == \A t \in Tasks : (pc[t] # "idle") ~> (pc[t] = "idle")

(* The API keeps the contract of HostService.                              *)
Service == INSTANCE HostService WITH waiting <- {t \in Tasks : pc[t] # "idle"}
ImplementsService == Service!Spec
=============================================================================
