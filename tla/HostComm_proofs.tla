--------------------------- MODULE HostComm_proofs ---------------------------
(***************************************************************************)
(* Proofs about HostComm, for any number of tasks, any set of commands and *)
(* any bounds: its types, the mutex discipline, that an answer is never    *)
(* another call's, what is left of that on any board and over any          *)
(* transport, and that the API implements HostService.  The command table  *)
(* is used only through UsedAssumption: nothing here depends on a          *)
(* particular command or timeout.                                          *)
(***************************************************************************)
EXTENDS HostComm, TLAPS

(* A call in progress has been counted, so its tag is a tag.               *)
Counted == \A t \in Tasks : pc[t] # "idle" => issued[t] \in 1 .. MaxCalls

(* The first half of TypeOK: the types alone.                              *)
Types ==
  /\ pc \in [Tasks -> PCs]
  /\ cmd \in [Tasks -> Used]
  /\ issued \in [Tasks -> 0 .. MaxCalls]
  /\ polls \in [Tasks -> Nat]
  /\ got \in [Tasks -> {"empty", "short", "whole"}]
  /\ out \in [Tasks -> [ret : Rets, from : SUBSET Tags]]
  /\ lock \subseteq Tasks
  /\ rx \in [front : SUBSET Tags, rest : SUBSET Tags]
  /\ slot \in [st : {"idle", "processing", "ready", "error"}, of : SUBSET Tags]
  /\ (slot.st = "idle") <=> (slot.of = {})
  /\ served \subseteq Tags
  /\ won \subseteq Tags

(* The bound of the poll loop.                                             *)
PollBound == \A t \in Tasks : pc[t] = "poll" => polls[t] <= PollLimit(cmd[t])

LEMMA PollLimitIsNat == \A c \in Used : PollLimit(c) \in Nat
<1>. SUFFICES ASSUME NEW c \in Used PROVE PollLimit(c) \in Nat
  OBVIOUS
<1>1. Timeout(c) \in Nat /\ PollMs \in Nat \ {0}
  BY UsedAssumption, PollAssumption
<1>. QED  BY <1>1 DEF PollLimit

LEMMA TagIsTag ==
  ASSUME Types, Counted, NEW t \in Tasks, pc[t] # "idle"
  PROVE  Tag(t) \in Tags
  BY DEF Counted, Tag, Tags

LEMMA TypesInit == Init => Types /\ Counted /\ PollBound
  BY CallsAssumption, UsedAssumption DEF Init, Types, Counted, PollBound, PCs, Rets, SlotIdle

(* What the board does with a command keeps the board well typed.          *)
LEMMA BoardHearsTypes ==
  ASSUME Types, Counted, NEW t \in Tasks, pc[t] # "idle", BoardHears(t)
  PROVE  /\ slot' \in [st : {"idle", "processing", "ready", "error"}, of : SUBSET Tags]
         /\ (slot'.st = "idle") <=> (slot'.of = {})
         /\ served' \subseteq Tags
<1>1. Tag(t) \in Tags
  BY TagIsTag
<1>2. CASE Kind(cmd[t]) = "read"
  BY <1>1, <1>2 DEF BoardHears, Types
<1>3. CASE Kind(cmd[t]) = "reset"
  BY <1>1, <1>3 DEF BoardHears, Types, SlotIdle
<1>4. CASE Kind(cmd[t]) \in {"async", "fire"}
  <2>1. served' = served /\ (slot' = slot \/ slot' = Working(Tag(t)))
    BY <1>4 DEF BoardHears
  <2>2. CASE slot' = slot
    BY <2>1, <2>2 DEF Types
  <2>3. CASE slot' = Working(Tag(t))
    BY <1>1, <2>1, <2>3 DEF Types, Working
  <2>. QED  BY <2>1, <2>2, <2>3
<1>. QED  BY <1>2, <1>3, <1>4 DEF BoardHears

LEMMA FillTypes ==
  ASSUME Types, NEW size \in Sizes
  PROVE  Fill(size) \in [front : SUBSET Tags, rest : SUBSET Tags]
  BY DEF Types, Fill

LEMMA TypesStep == Types /\ Counted /\ [Next]_vars => Types' /\ Counted'
<1>. SUFFICES ASSUME Types, Counted, [Next]_vars PROVE Types' /\ Counted'
  OBVIOUS
<1>1. ASSUME NEW t \in Tasks, NEW c \in Used, Call(t, c) PROVE Types' /\ Counted'
  BY <1>1, CallsAssumption DEF Call, Types, Counted, Goto, PCs
<1>2. ASSUME NEW t \in Tasks, Lock(t) PROVE Types' /\ Counted'
  BY <1>2 DEF Lock, Types, Counted, Goto, PCs
<1>3. ASSUME NEW t \in Tasks, LockTimeout(t) PROVE Types' /\ Counted'
  BY <1>3 DEF LockTimeout, Types, Counted, Goto, Return, PCs, Rets
<1>4. ASSUME NEW t \in Tasks, RejectArg(t) PROVE Types' /\ Counted'
  BY <1>4 DEF RejectArg, Types, Counted, Goto, Return, PCs, Rets
<1>5. ASSUME NEW t \in Tasks, SendFails(t) PROVE Types' /\ Counted'
  <2>1. /\ slot' \in [st : {"idle", "processing", "ready", "error"}, of : SUBSET Tags]
        /\ (slot'.st = "idle") <=> (slot'.of = {})
        /\ served' \subseteq Tags
    BY <1>5, BoardHearsTypes DEF SendFails, Types
  <2>. QED  BY <1>5, <2>1 DEF SendFails, Types, Counted, Goto, Return, PCs, Rets
<1>6. ASSUME NEW t \in Tasks, SendRead(t) PROVE Types' /\ Counted'
  <2>1. /\ slot' \in [st : {"idle", "processing", "ready", "error"}, of : SUBSET Tags]
        /\ (slot'.st = "idle") <=> (slot'.of = {})
        /\ served' \subseteq Tags
    BY <1>6, BoardHearsTypes DEF SendRead, Types
  <2>2. Tag(t) \in Tags
    BY <1>6, TagIsTag DEF SendRead
  <2>3. out' \in [Tasks -> [ret : Rets, from : SUBSET Tags]]
    BY <1>6, <2>2 DEF SendRead, Types, Return, Rets
  <2>. QED  BY <1>6, <2>1, <2>3 DEF SendRead, Types, Counted, Goto, PCs
<1>7. ASSUME NEW t \in Tasks, SendUnpolled(t) PROVE Types' /\ Counted'
  <2>1. /\ slot' \in [st : {"idle", "processing", "ready", "error"}, of : SUBSET Tags]
        /\ (slot'.st = "idle") <=> (slot'.of = {})
        /\ served' \subseteq Tags
    BY <1>7, BoardHearsTypes DEF SendUnpolled, Types
  <2>. QED  BY <1>7, <2>1 DEF SendUnpolled, Types, Counted, Goto, Return, PCs, Rets
<1>8. ASSUME NEW t \in Tasks, SendAsync(t) PROVE Types' /\ Counted'
  <2>1. /\ slot' \in [st : {"idle", "processing", "ready", "error"}, of : SUBSET Tags]
        /\ (slot'.st = "idle") <=> (slot'.of = {})
        /\ served' \subseteq Tags
    BY <1>8, BoardHearsTypes DEF SendAsync, Types
  <2>. QED  BY <1>8, <2>1 DEF SendAsync, Types, Counted, Goto, PCs
<1>9. ASSUME NEW t \in Tasks, PollFails(t) PROVE Types' /\ Counted'
  BY <1>9 DEF PollFails, Types, Counted, Goto, Return, PCs, Rets
<1>10. ASSUME NEW t \in Tasks, PollFindsError(t) PROVE Types' /\ Counted'
  BY <1>10 DEF PollFindsError, Types, Counted, Goto, Return, PCs, Rets, SlotIdle
<1>11. ASSUME NEW t \in Tasks, PollAgain(t) PROVE Types' /\ Counted'
  BY <1>11 DEF PollAgain, Types, Counted
<1>12. ASSUME NEW t \in Tasks, PollTimeout(t) PROVE Types' /\ Counted'
  BY <1>12 DEF PollTimeout, Types, Counted, Goto, Return, PCs, Rets
<1>13. ASSUME NEW t \in Tasks, NEW size \in Sizes, PollReady(t, size)
       PROVE  Types' /\ Counted'
  <2>1. /\ Fill(size) \in [front : SUBSET Tags, rest : SUBSET Tags]
        /\ size # "long" => size \in {"empty", "short", "whole"}
    BY FillTypes, SizeAssumption
  <2>2. slot' \in [st : {"idle", "processing", "ready", "error"}, of : SUBSET Tags]
        /\ ((slot'.st = "idle") <=> (slot'.of = {}))
    BY <1>13 DEF PollReady, Types, SlotIdle
  <2>3. CASE ReadyNoData(t)
    BY <1>13, <2>2, <2>3
       DEF PollReady, ReadyNoData, Types, Counted, Goto, Return, PCs, Rets
  <2>4. CASE ReadyTooLong(t, size)
    BY <1>13, <2>1, <2>2, <2>4
       DEF PollReady, ReadyTooLong, Types, Counted, Goto, Return, PCs, Rets
  <2>5. CASE ReadyDropped(t, size)
    BY <1>13, <2>1, <2>2, <2>5
       DEF PollReady, ReadyDropped, Types, Counted, Goto, Return, PCs, Rets
  <2>6. CASE ReadyData(t, size)
    BY <1>13, <2>1, <2>2, <2>6
       DEF PollReady, ReadyData, Types, Counted, Goto, PCs
  <2>. QED  BY <1>13, <2>3, <2>4, <2>5, <2>6 DEF PollReady
<1>14. ASSUME NEW t \in Tasks, CopyOut(t) PROVE Types' /\ Counted'
  <2>1. out' \in [Tasks -> [ret : Rets, from : SUBSET Tags]]
    BY <1>14 DEF CopyOut, Types, Return, Rets
  <2>. QED  BY <1>14, <2>1 DEF CopyOut, Types, Counted, Goto, PCs
<1>15. ASSUME NEW t \in Tasks, Unlock(t) PROVE Types' /\ Counted'
  <2>1. Tag(t) \in Tags
    BY <1>15, TagIsTag DEF Unlock
  <2>. QED  BY <1>15, <2>1 DEF Unlock, Types, Counted, Goto, PCs
<1>16. CASE BoardFinishes
  BY <1>16 DEF BoardFinishes, Types, Counted
<1>17. CASE BoardFails
  BY <1>17 DEF BoardFails, Types, Counted
<1>18. CASE BoardReboots
  BY <1>18 DEF BoardReboots, Types, Counted, SlotIdle
<1>19. CASE UNCHANGED vars
  BY <1>19 DEF vars, Types, Counted
<1>. QED  BY <1>1, <1>2, <1>3, <1>4, <1>5, <1>6, <1>7, <1>8, <1>9, <1>10, <1>11, <1>12,
             <1>13, <1>14, <1>15, <1>16, <1>17, <1>18, <1>19 DEF Next, TaskStep

(* The bound of the poll loop is kept: the counter starts at zero with the *)
(* loop and is only stepped below the limit.                               *)
LEMMA PollBoundStep ==
  Types /\ Counted /\ PollBound /\ [Next]_vars => PollBound'
<1>. SUFFICES ASSUME Types, Counted, PollBound, [Next]_vars PROVE PollBound'
  OBVIOUS
<1>. USE DEF PollBound
<1>1. ASSUME NEW t \in Tasks, NEW c \in Used, Call(t, c) PROVE PollBound'
  BY <1>1 DEF Call, Types, Goto, PollLimit
<1>2. ASSUME NEW t \in Tasks, SendAsync(t) PROVE PollBound'
  <2>1. /\ pc' = [pc EXCEPT ![t] = "poll"]
        /\ polls' = [polls EXCEPT ![t] = 0]
        /\ cmd' = cmd
    BY <1>2 DEF SendAsync, Goto
  <2>2. 0 <= PollLimit(cmd[t])
    BY PollLimitIsNat DEF Types
  <2>. QED  BY <2>1, <2>2 DEF Types, PollLimit
<1>3. ASSUME NEW t \in Tasks, PollAgain(t) PROVE PollBound'
  <2>1. /\ pc' = pc /\ cmd' = cmd
        /\ polls' = [polls EXCEPT ![t] = @ + 1]
        /\ polls[t] < PollLimit(cmd[t])
    BY <1>3 DEF PollAgain
  <2>2. polls[t] + 1 <= PollLimit(cmd[t])
    BY <2>1, PollLimitIsNat DEF Types
  <2>. QED  BY <2>1, <2>2 DEF Types, PollLimit
<1>4. ASSUME NEW t \in Tasks, UNCHANGED <<cmd, polls>>, NEW l \in PCs \ {"poll"}, Goto(t, l)
      PROVE  PollBound'
  BY <1>4 DEF Types, Goto, PollLimit
<1>5. ASSUME UNCHANGED <<pc, cmd, polls>> PROVE PollBound'
  BY <1>5 DEF PollLimit
<1>6. ASSUME NEW t \in Tasks, TaskStep(t) PROVE PollBound'
  <2>1. CASE Lock(t) \/ LockTimeout(t) \/ RejectArg(t)
    BY <1>4, <2>1 DEF Lock, LockTimeout, RejectArg, PCs
  <2>2. CASE SendFails(t) \/ SendRead(t) \/ SendUnpolled(t)
    BY <1>4, <2>2 DEF SendFails, SendRead, SendUnpolled, PCs
  <2>3. CASE PollFails(t) \/ PollFindsError(t) \/ PollTimeout(t)
    BY <1>4, <2>3 DEF PollFails, PollFindsError, PollTimeout, PCs
  <2>4. ASSUME NEW size \in Sizes, PollReady(t, size) PROVE PollBound'
    BY <1>4, <2>4
       DEF PollReady, ReadyNoData, ReadyTooLong, ReadyDropped, ReadyData, PCs
  <2>5. CASE CopyOut(t) \/ Unlock(t)
    BY <1>4, <2>5 DEF CopyOut, Unlock, PCs
  <2>. QED  BY <1>2, <1>3, <1>6, <2>1, <2>2, <2>3, <2>4, <2>5 DEF TaskStep
<1>7. CASE BoardFinishes \/ BoardFails \/ BoardReboots \/ UNCHANGED vars
  BY <1>5, <1>7 DEF BoardFinishes, BoardFails, BoardReboots, vars
<1>. QED  BY <1>1, <1>6, <1>7 DEF Next

(* TypeOK holds in every reachable state: the variables keep their types,  *)
(* the poll loop of host_comm_poll_async_result never runs past the        *)
(* timeout of its command, and the board's slot is consistent.             *)
THEOREM TypeCorrect == Spec => []TypeOK
<1>1. Types /\ Counted /\ PollBound /\ [Next]_vars => (Types /\ Counted /\ PollBound)'
  BY TypesStep, PollBoundStep
<1>2. Types /\ PollBound => TypeOK
  BY DEF Types, PollBound, TypeOK
<1>. QED  BY TypesInit, <1>1, <1>2, PTL DEF Spec

-----------------------------------------------------------------------------
(* Whoever is past HOST_COMM_LOCK holds the mutex, alone.                  *)
LEMMA LockStep == Types /\ LockDiscipline /\ [Next]_vars => LockDiscipline'
<1>. SUFFICES ASSUME Types, LockDiscipline, [Next]_vars PROVE LockDiscipline'
  OBVIOUS
<1>. USE DEF LockDiscipline, Holding
<1>1. ASSUME NEW t \in Tasks, UNCHANGED lock, NEW l \in PCs, Goto(t, l),
             pc[t] \in Holding <=> l \in Holding
      PROVE  LockDiscipline'
  BY <1>1 DEF Types, Goto
<1>2. ASSUME NEW t \in Tasks, NEW c \in Used, Call(t, c) PROVE LockDiscipline'
  BY <1>1, <1>2 DEF Call, PCs
<1>3. ASSUME NEW t \in Tasks, Lock(t) PROVE LockDiscipline'
  BY <1>3 DEF Lock, Goto, Types
<1>4. ASSUME NEW t \in Tasks, Unlock(t) PROVE LockDiscipline'
  BY <1>4 DEF Unlock, Goto, Types
<1>5. ASSUME NEW t \in Tasks, TaskStep(t) PROVE LockDiscipline'
  <2>1. CASE LockTimeout(t)
    BY <1>1, <2>1 DEF LockTimeout, PCs
  <2>2. CASE RejectArg(t) \/ SendFails(t) \/ SendRead(t) \/ SendUnpolled(t) \/ SendAsync(t)
    BY <1>1, <2>2 DEF RejectArg, SendFails, SendRead, SendUnpolled, SendAsync, PCs
  <2>3. CASE PollFails(t) \/ PollFindsError(t) \/ PollTimeout(t)
    BY <1>1, <2>3 DEF PollFails, PollFindsError, PollTimeout, PCs
  <2>4. CASE PollAgain(t)
    BY <2>4 DEF PollAgain
  <2>5. ASSUME NEW size \in Sizes, PollReady(t, size) PROVE LockDiscipline'
    BY <1>1, <2>5
       DEF PollReady, ReadyNoData, ReadyTooLong, ReadyDropped, ReadyData, PCs
  <2>6. CASE CopyOut(t)
    BY <1>1, <2>6 DEF CopyOut, PCs
  <2>. QED  BY <1>3, <1>4, <1>5, <2>1, <2>2, <2>3, <2>4, <2>5, <2>6 DEF TaskStep
<1>6. CASE BoardFinishes \/ BoardFails \/ BoardReboots \/ UNCHANGED vars
  BY <1>6 DEF BoardFinishes, BoardFails, BoardReboots, vars
<1>. QED  BY <1>2, <1>5, <1>6 DEF Next

(* No function of host_comm.c leaves with the mutex, or works without it.  *)
THEOREM MutexSafe == Spec => []LockDiscipline
<1>1. Init => LockDiscipline
  BY DEF Init, LockDiscipline, Holding
<1>. QED  BY <1>1, TypesInit, TypesStep, LockStep, PTL DEF Spec

-----------------------------------------------------------------------------
(* An answer is never another call's.  This needs a board that drops the   *)
(* old operation when a new command arrives and a transport that does not  *)
(* report a lost command as sent.  Without either TLC finds a              *)
(* counterexample.                                                         *)
GoodBoard == Supersedes /\ ~SilentLoss

(* AnswersOwn is not inductive.  While a task polls, the board's slot is   *)
(* idle or its own; between the poll and the memcpy the front of rx_buffer *)
(* is its own, and there is nothing behind it if the answer was whole.     *)
(* All is kept because only the holder of the mutex sends or reads a       *)
(* result, and only one task holds it.                                     *)
Filled(t) == /\ got[t] # "empty" => rx.front \subseteq {Tag(t)}
             /\ got[t] = "whole" => rx.rest = {}
SlotOwn == \A t \in Tasks : pc[t] = "poll" => /\ slot.of \subseteq {Tag(t)}
                                               /\ Kind(cmd[t]) = "async"
BufferOwn == \A t \in Tasks : pc[t] = "copy" => Filled(t) /\ Check(cmd[t]) \in Copying
Own == SlotOwn /\ BufferOwn /\ AnswersOwn

LEMMA OneHolder ==
  ASSUME LockDiscipline, NEW t \in Tasks, NEW u \in Tasks,
         pc[t] \in Holding, pc[u] \in Holding
  PROVE  t = u
  BY DEF LockDiscipline

(* A step of t that keeps Own for t keeps it for everyone, if t holds the  *)
(* mutex or touches neither the board's slot nor rx_buffer.                *)
LEMMA OwnerStep ==
  ASSUME Types, LockDiscipline, Own, NEW t \in Tasks,
         pc[t] \in Holding \/ UNCHANGED <<slot, rx>>,
         NEW l \in PCs, Goto(t, l), UNCHANGED <<cmd, issued>>,
         \A u \in Tasks \ {t} : out'[u] = out[u] /\ got'[u] = got[u],
         l = "poll" => slot'.of \subseteq {Tag(t)} /\ Kind(cmd[t]) = "async",
         l = "copy" => /\ Check(cmd[t]) \in Copying
                       /\ got'[t] # "empty" => rx'.front \subseteq {Tag(t)}
                       /\ got'[t] = "whole" => rx'.rest = {},
         l \in {"unlock", "idle"} /\ out'[t].ret = "OK"
           /\ (Check(cmd[t]) = "lax" => got'[t] = "whole") => out'[t].from \subseteq {Tag(t)}
  PROVE  Own'
<1>1. \A u \in Tasks \ {t} : /\ pc'[u] = pc[u]
                             /\ pc[u] \notin Holding \/ UNCHANGED <<slot, rx>>
  BY OneHolder DEF Goto, Types
<1>2. pc'[t] = l
  BY DEF Goto, Types
<1>3. \A u \in Tasks : Tag(u)' = Tag(u)
  BY DEF Tag
<1>4. SlotOwn'
  BY <1>1, <1>2, <1>3 DEF Own, SlotOwn, Holding
<1>5. BufferOwn'
  BY <1>1, <1>2, <1>3 DEF Own, BufferOwn, Filled, Holding
<1>6. ASSUME NEW u \in Tasks, ReturnedOK(u)', Relied(u)' PROVE (out[u].from \subseteq {Tag(u)})'
  <2>1. CASE u = t
    BY <1>2, <1>3, <1>6, <2>1 DEF ReturnedOK, Returned, Relied
  <2>2. CASE u # t
    <3>1. ReturnedOK(u) /\ Relied(u)
      BY <1>1, <1>6, <2>2 DEF ReturnedOK, Returned, Relied
    <3>. QED  BY <1>3, <2>2, <3>1 DEF Own, AnswersOwn
  <2>. QED  BY <2>1, <2>2
<1>. QED  BY <1>4, <1>5, <1>6 DEF Own, AnswersOwn

LEMMA OwnStep ==
  GoodBoard /\ Types /\ Counted /\ LockDiscipline /\ Own /\ [Next]_vars => Own'
<1>. SUFFICES ASSUME GoodBoard, Types, Counted, LockDiscipline, Own, [Next]_vars PROVE Own'
  OBVIOUS
<1>1. ASSUME NEW t \in Tasks, NEW c \in Used, Call(t, c) PROVE Own'
  <2>1. /\ pc[t] = "idle" /\ pc' = [pc EXCEPT ![t] = "want"]
        /\ issued' = [issued EXCEPT ![t] = @ + 1]
        /\ UNCHANGED <<got, out, rx, slot>>
    BY <1>1 DEF Call, Goto
  <2>2. \A u \in Tasks \ {t} : /\ Tag(u)' = Tag(u) /\ pc'[u] = pc[u] /\ issued'[u] = issued[u]
                              /\ cmd'[u] = cmd[u]
    BY <1>1, <2>1 DEF Call, Tag, Types
  <2>3. pc'[t] = "want"
    BY <2>1 DEF Types
  <2>4. SlotOwn' /\ BufferOwn'
    BY <2>1, <2>2, <2>3 DEF Own, SlotOwn, BufferOwn, Filled
  <2>5. AnswersOwn'
    BY <2>1, <2>2, <2>3 DEF Own, AnswersOwn, ReturnedOK, Returned, Relied
  <2>. QED  BY <2>4, <2>5 DEF Own
<1>2. ASSUME NEW t \in Tasks, TaskStep(t) PROVE Own'
  <2>1. CASE Lock(t)
    BY <2>1, OwnerStep DEF Lock, PCs, Types
  <2>2. CASE LockTimeout(t)
    BY <2>2, OwnerStep DEF LockTimeout, PCs, Types, Return
  <2>3. CASE RejectArg(t)
    BY <2>3, OwnerStep DEF RejectArg, PCs, Types, Return, Holding
  <2>4. CASE SendFails(t)
    BY <2>4, OwnerStep DEF SendFails, PCs, Types, Return, Holding
  <2>5. CASE SendRead(t)
    <3>1. Return(t, "OK", {Tag(t)})
      BY <2>5 DEF SendRead, GoodBoard
    <3>. QED  BY <2>5, <3>1, OwnerStep DEF SendRead, PCs, Types, Return, Holding
  <2>6. CASE SendUnpolled(t)
    BY <2>6, OwnerStep DEF SendUnpolled, PCs, Types, Return, Holding
  <2>7. CASE SendAsync(t)
    <3>1. slot' = Working(Tag(t))
      BY <2>7 DEF SendAsync, BoardHears, GoodBoard
    <3>2. slot'.of = {Tag(t)}
      BY <3>1 DEF Working
    <3>. QED  BY <2>7, <3>2, OwnerStep DEF SendAsync, PCs, Types, Holding
  <2>8. CASE PollFails(t)
    BY <2>8, OwnerStep DEF PollFails, PCs, Types, Return, Holding
  <2>9. CASE PollFindsError(t)
    BY <2>9, OwnerStep DEF PollFindsError, PCs, Types, Return, Holding
  <2>10. CASE PollAgain(t)
    BY <2>10 DEF PollAgain, Own, SlotOwn, BufferOwn, Filled, AnswersOwn, ReturnedOK, Returned,
                Relied, Tag
  <2>11. CASE PollTimeout(t)
    BY <2>11, OwnerStep DEF PollTimeout, PCs, Types, Return, Holding
  <2>12. ASSUME NEW size \in Sizes, PollReady(t, size) PROVE Own'
    <3>1. slot.of \subseteq {Tag(t)} /\ Kind(cmd[t]) = "async"
      BY <2>12 DEF PollReady, Own, SlotOwn
    <3>2. /\ size \in {"short", "whole"} => Fill(size).front = slot.of
          /\ size = "whole" => Fill(size).rest = {}
      <4>1. CASE size = "short"
        BY <4>1 DEF Fill
      <4>2. CASE size = "whole"
        BY <4>2 DEF Fill
      <4>. QED  BY <4>1, <4>2
    <3>3. CASE ReadyNoData(t)
      BY <2>12, <3>1, <3>3, OwnerStep
         DEF PollReady, ReadyNoData, PCs, Types, Return, Holding
    <3>4. CASE ReadyTooLong(t, size)
      BY <2>12, <3>4, OwnerStep
         DEF PollReady, ReadyTooLong, PCs, Types, Return, Holding
    <3>5. CASE ReadyDropped(t, size)
      BY <2>12, <3>1, <3>5, OwnerStep
         DEF PollReady, ReadyDropped, PCs, Types, Return, Holding
    <3>6. CASE ReadyData(t, size)
      <4>1. /\ size \in {"empty", "short", "whole"}
            /\ got'[t] = size /\ rx' = Fill(size)
            /\ \A u \in Tasks \ {t} : got'[u] = got[u]
        BY <3>6, SizeAssumption DEF ReadyData, Types
      <4>2. Check(cmd[t]) \in Copying
        BY <3>1, <3>6, UsedAssumption DEF ReadyData, Types
      <4>. QED  BY <2>12, <3>1, <3>2, <3>6, <4>1, <4>2, OwnerStep
                   DEF PollReady, ReadyData, PCs, Types, Holding
    <3>. QED  BY <2>12, <3>3, <3>4, <3>5, <3>6 DEF PollReady
  <2>13. CASE CopyOut(t)
    <3>1. Filled(t) /\ Check(cmd[t]) \in Copying /\ got' = got
      BY <2>13 DEF CopyOut, Own, BufferOwn
    <3>2. out'[t].ret = "OK" /\ (Check(cmd[t]) = "lax" => got[t] = "whole")
            => out'[t].from \subseteq {Tag(t)}
      <4>1. \E r \in {"INVALID_SIZE", "NOT_FOUND"} : Return(t, r, {})
            => out'[t].ret # "OK"
        BY DEF Return, Types
      <4>. QED  BY <2>13, <3>1, <4>1 DEF CopyOut, Return, Types, Filled, Copying
    <3>3. \A u \in Tasks \ {t} : out'[u] = out[u]
      BY <2>13 DEF CopyOut, Return, Types
    <3>. QED  BY <2>13, <3>2, <3>3, OwnerStep DEF CopyOut, PCs, Holding
  <2>14. CASE Unlock(t)
    <3>1. out[t].ret = "OK" /\ (Check(cmd[t]) = "lax" => got[t] = "whole")
            => out[t].from \subseteq {Tag(t)}
      BY <2>14 DEF Unlock, Own, AnswersOwn, ReturnedOK, Returned, Relied, Counted
    <3>. QED  BY <2>14, <3>1, OwnerStep DEF Unlock, PCs, Holding
  <2>. QED  BY <1>2, <2>1, <2>2, <2>3, <2>4, <2>5, <2>6, <2>7, <2>8, <2>9, <2>10, <2>11,
               <2>12, <2>13, <2>14 DEF TaskStep
<1>3. CASE BoardFinishes \/ BoardFails \/ BoardReboots \/ UNCHANGED vars
  <2>1. /\ UNCHANGED <<pc, cmd, issued, got, out, rx>>
        /\ slot'.of \subseteq slot.of
    BY <1>3 DEF BoardFinishes, BoardFails, BoardReboots, vars, Types, SlotIdle
  <2>. QED  BY <2>1 DEF Own, SlotOwn, BufferOwn, Filled, AnswersOwn, ReturnedOK, Returned,
                Relied, Tag
<1>. QED  BY <1>1, <1>2, <1>3 DEF Next

(* On a good board, a call of the host_comm API that returns ESP_OK hands  *)
(* its caller only bytes the board sent in answer to that call, however    *)
(* the calls of the tasks interleave and whichever of them timed out.      *)
THEOREM AnswersAreOwn == GoodBoard => (Spec => []AnswersOwn)
<1>. SUFFICES ASSUME GoodBoard PROVE Spec => []AnswersOwn
  OBVIOUS
<1>1. Init => LockDiscipline /\ Own
  BY DEF Init, LockDiscipline, Holding, Own, SlotOwn, BufferOwn, AnswersOwn, ReturnedOK
<1>2. Types /\ Counted /\ LockDiscipline /\ Own /\ [Next]_vars
        => (Types /\ Counted /\ LockDiscipline /\ Own)'
  BY TypesStep, LockStep, OwnStep
<1>3. Own => AnswersOwn
  BY DEF Own
<1>. QED  BY TypesInit, <1>1, <1>2, <1>3, PTL DEF Spec

-----------------------------------------------------------------------------
(* Without GoodBoard.  The bytes a task is given are its own once the      *)
(* board has heard its command, which then occupies the slot or has been   *)
(* run.  A command not heard before its poll loop is never heard later, so *)
(* the answer of another call that such a loop picked up stays the answer  *)
(* to a call the board did not run.                                        *)
Heard(t) == Tag(t) \in served \cup slot.of

(* Until it sends, a task's tag is unknown to the board, which knows only  *)
(* tags of calls that were made.                                           *)
Fresh == /\ \A g \in served \cup slot.of : g[2] \in 1 .. issued[g[1]]
         /\ \A t \in Tasks : pc[t] \in {"want", "locked"} => ~Heard(t)

HeardOwn ==
  \A t \in Tasks :
    /\ pc[t] = "poll" => /\ Kind(cmd[t]) = "async"
                         /\ Heard(t) => slot.of \subseteq {Tag(t)}
    /\ pc[t] = "copy" => /\ Check(cmd[t]) \in Copying
                         /\ Heard(t) => Filled(t)
    /\ ReturnedOK(t) /\ Relied(t) /\ Heard(t) => out[t].from \subseteq {Tag(t)}

(* A step of t keeps HeardOwn if it keeps it for t and lets the board hear *)
(* no command but t's own, and if t holds the mutex or touches neither the *)
(* slot nor rx_buffer.                                                     *)
LEMMA HeardByTask ==
  ASSUME Types, LockDiscipline, HeardOwn, Fresh, NEW t \in Tasks, pc[t] # "idle",
         pc[t] \in Holding \/ UNCHANGED <<slot, rx>>,
         NEW l \in PCs, Goto(t, l), UNCHANGED <<cmd, issued>>,
         \A u \in Tasks \ {t} : out'[u] = out[u] /\ got'[u] = got[u],
         served' \cup slot'.of \subseteq served \cup slot.of \cup {Tag(t)},
         issued[t] \in 1 .. MaxCalls,
         l \in {"want", "locked"} => ~Heard(t)',
         l = "poll" => /\ Kind(cmd[t]) = "async"
                       /\ Heard(t)' => slot'.of \subseteq {Tag(t)},
         l = "copy" => /\ Check(cmd[t]) \in Copying
                       /\ Heard(t)' => Filled(t)',
         l \in {"unlock", "idle"} /\ out'[t].ret = "OK" /\ Heard(t)'
           /\ (Check(cmd[t]) = "lax" => got'[t] = "whole") => out'[t].from \subseteq {Tag(t)}
  PROVE  HeardOwn' /\ Fresh'
<1>1. \A u \in Tasks \ {t} : /\ pc'[u] = pc[u]
                             /\ pc[u] \notin Holding \/ UNCHANGED <<slot, rx>>
  BY OneHolder DEF Goto, Types
<1>2. pc'[t] = l
  BY DEF Goto, Types
<1>3. \A u \in Tasks : Tag(u)' = Tag(u)
  BY DEF Tag
<1>4. \A u \in Tasks \ {t} : Heard(u)' => Heard(u)
  <2>1. \A u \in Tasks \ {t} : Tag(u) # Tag(t)
    BY DEF Tag
  <2>. QED  BY <1>3, <2>1 DEF Heard
<1>5. Fresh'
  <2>1. \A g \in served' \cup slot'.of : g[2] \in 1 .. issued[g[1]]
    BY DEF Fresh, Tag
  <2>. QED  BY <1>1, <1>2, <1>4, <2>1 DEF Fresh
<1>6. ASSUME NEW u \in Tasks \ {t}
      PROVE  /\ pc'[u] = "poll" => /\ Kind(cmd'[u]) = "async"
                                   /\ Heard(u)' => slot'.of \subseteq {Tag(u)'}
             /\ pc'[u] = "copy" => /\ Check(cmd'[u]) \in Copying
                                   /\ Heard(u)' => Filled(u)'
             /\ ReturnedOK(u)' /\ Relied(u)' /\ Heard(u)' => out'[u].from \subseteq {Tag(u)'}
  <2>1. pc[u] = "poll" \/ pc[u] = "copy" => UNCHANGED <<slot, rx>>
    BY <1>1 DEF Holding
  <2>2. ReturnedOK(u)' /\ Relied(u)' => ReturnedOK(u) /\ Relied(u)
    BY <1>1 DEF ReturnedOK, Returned, Relied
  <2>. QED  BY <1>1, <1>3, <1>4, <1>6, <2>1, <2>2 DEF HeardOwn, Filled
<1>7. /\ pc'[t] = "poll" => /\ Kind(cmd'[t]) = "async"
                            /\ Heard(t)' => slot'.of \subseteq {Tag(t)'}
      /\ pc'[t] = "copy" => /\ Check(cmd'[t]) \in Copying
                            /\ Heard(t)' => Filled(t)'
      /\ ReturnedOK(t)' /\ Relied(t)' /\ Heard(t)' => out'[t].from \subseteq {Tag(t)'}
  BY <1>2, <1>3 DEF ReturnedOK, Returned, Relied
<1>. QED  BY <1>5, <1>6, <1>7 DEF HeardOwn

LEMMA HeardStep ==
  ASSUME Types, Counted, LockDiscipline, HeardOwn, Fresh, [Next]_vars
  PROVE  HeardOwn' /\ Fresh'
<1>1. ASSUME NEW t \in Tasks, NEW c \in Used, Call(t, c)
      PROVE  HeardOwn' /\ Fresh'
  <2>1. /\ pc[t] = "idle" /\ pc' = [pc EXCEPT ![t] = "want"]
        /\ issued' = [issued EXCEPT ![t] = @ + 1]
        /\ UNCHANGED <<got, out, rx, slot, served>>
    BY <1>1 DEF Call, Goto
  <2>2. \A u \in Tasks \ {t} : /\ Tag(u)' = Tag(u) /\ pc'[u] = pc[u] /\ issued'[u] = issued[u]
                              /\ cmd'[u] = cmd[u]
    BY <1>1, <2>1 DEF Call, Tag, Types
  <2>3. pc'[t] = "want" /\ issued'[t] = issued[t] + 1 /\ Tag(t)' = <<t, issued[t] + 1>>
    BY <2>1 DEF Types, Tag
  <2>4. Fresh'
    <3>1. \A u \in Tasks : 1 .. issued[u] \subseteq 1 .. issued'[u]
      BY <2>1 DEF Types
    <3>2. \A g \in served' \cup slot'.of : g[2] \in 1 .. issued'[g[1]]
      <4>1. \A g \in served \cup slot.of : g[1] \in Tasks
        BY DEF Types, Tags
      <4>. QED  BY <2>1, <3>1, <4>1 DEF Fresh
    <3>3. ~Heard(t)'
      <4>1. issued[t] + 1 \notin 1 .. issued[t]
        BY DEF Types
      <4>. QED  BY <2>1, <2>3, <4>1 DEF Fresh, Heard
    <3>4. \A u \in Tasks \ {t} : Heard(u)' <=> Heard(u)
      BY <2>1, <2>2 DEF Heard
    <3>. QED  BY <2>2, <3>2, <3>3, <3>4 DEF Fresh
  <2>5. ASSUME NEW u \in Tasks \ {t}
        PROVE  /\ Heard(u)' <=> Heard(u)
               /\ ReturnedOK(u)' /\ Relied(u)' => ReturnedOK(u) /\ Relied(u)
    BY <2>1, <2>2, <2>5 DEF Heard, ReturnedOK, Returned, Relied
  <2>6. HeardOwn'
    BY <2>1, <2>2, <2>3, <2>5 DEF HeardOwn, Filled, ReturnedOK, Returned
  <2>. QED  BY <2>4, <2>6
<1>2. ASSUME NEW t \in Tasks, TaskStep(t)
      PROVE  HeardOwn' /\ Fresh'
  <2>0. pc[t] # "idle" => issued[t] \in 1 .. MaxCalls
    BY DEF Counted
  <2>1. CASE Lock(t)
    BY <2>0, <2>1, HeardByTask DEF Lock, PCs, Fresh, Heard, Tag
  <2>2. CASE LockTimeout(t)
    BY <2>0, <2>2, HeardByTask DEF LockTimeout, PCs, Types, Return
  <2>3. CASE RejectArg(t)
    BY <2>0, <2>3, HeardByTask DEF RejectArg, PCs, Types, Return, Holding
  <2>4. CASE SendFails(t)
    <3>1. served' \cup slot'.of \subseteq served \cup slot.of \cup {Tag(t)}
      BY <2>4 DEF SendFails, BoardHears, SlotIdle, Working
    <3>. QED  BY <2>0, <2>4, <3>1, HeardByTask DEF SendFails, PCs, Types, Return, Holding
  <2>5. CASE SendRead(t)
    <3>1. served' \cup slot'.of \subseteq served \cup slot.of \cup {Tag(t)}
      BY <2>5 DEF SendRead, BoardHears, SlotIdle, Working
    <3>2. out'[t].from \subseteq {Tag(t)} /\ \A u \in Tasks \ {t} : out'[u] = out[u]
      BY <2>5 DEF SendRead, Return, Types
    <3>. QED  BY <2>0, <2>5, <3>1, <3>2, HeardByTask DEF SendRead, PCs, Holding
  <2>6. CASE SendUnpolled(t)
    <3>1. served' \cup slot'.of \subseteq served \cup slot.of \cup {Tag(t)}
      BY <2>6 DEF SendUnpolled, BoardHears, SlotIdle, Working
    <3>. QED  BY <2>0, <2>6, <3>1, HeardByTask DEF SendUnpolled, PCs, Types, Return, Holding
  <2>7. CASE SendAsync(t)
    <3>1. /\ served' = served /\ slot' \in {slot, Working(Tag(t))}
          /\ Kind(cmd[t]) = "async" /\ pc[t] = "locked"
      BY <2>7 DEF SendAsync, BoardHears
    <3>2. ~Heard(t)
      BY <3>1 DEF Fresh
    <3>3. Heard(t)' => slot'.of \subseteq {Tag(t)}
      <4>1. CASE slot' = slot
        BY <2>7, <3>1, <3>2, <4>1 DEF SendAsync, Heard, Tag
      <4>2. CASE slot' = Working(Tag(t))
        BY <4>2 DEF Working
      <4>. QED  BY <3>1, <4>1, <4>2
    <3>4. served' \cup slot'.of \subseteq served \cup slot.of \cup {Tag(t)}
      BY <3>1 DEF Working
    <3>. QED  BY <2>0, <2>7, <3>1, <3>3, <3>4, HeardByTask DEF SendAsync, PCs, Holding
  <2>8. CASE PollFails(t)
    BY <2>0, <2>8, HeardByTask DEF PollFails, PCs, Types, Return, Holding
  <2>9. CASE PollFindsError(t)
    <3>1. slot'.of \subseteq slot.of
      BY <2>9 DEF PollFindsError, SlotIdle
    <3>. QED  BY <2>0, <2>9, <3>1, HeardByTask DEF PollFindsError, PCs, Types, Return, Holding
  <2>10. CASE PollAgain(t)
    BY <2>10 DEF PollAgain, HeardOwn, Fresh, Filled, ReturnedOK, Returned, Relied, Heard, Tag
  <2>11. CASE PollTimeout(t)
    BY <2>0, <2>11, HeardByTask DEF PollTimeout, PCs, Types, Return, Holding
  <2>12. ASSUME NEW size \in Sizes, PollReady(t, size)
         PROVE  HeardOwn' /\ Fresh'
    <3>1. /\ pc[t] = "poll" /\ UNCHANGED <<cmd, issued, served>> /\ slot'.of \subseteq slot.of
          /\ Kind(cmd[t]) = "async" /\ Tag(t)' = Tag(t)
      BY <2>12 DEF PollReady, HeardOwn, SlotIdle, Tag
    <3>2. /\ Heard(t)' => slot.of \subseteq {Tag(t)}
          /\ served' \cup slot'.of \subseteq served \cup slot.of \cup {Tag(t)}
      BY <3>1 DEF HeardOwn, Heard
    <3>3. /\ size \in {"short", "whole"} => Fill(size).front = slot.of
          /\ size = "whole" => Fill(size).rest = {}
      <4>1. CASE size = "short"
        BY <4>1 DEF Fill
      <4>2. CASE size = "whole"
        BY <4>2 DEF Fill
      <4>. QED  BY <4>1, <4>2
    <3>4. CASE ReadyNoData(t)
      BY <2>0, <3>1, <3>2, <3>4, HeardByTask DEF ReadyNoData, PCs, Types, Return, Holding
    <3>5. CASE ReadyTooLong(t, size)
      BY <2>0, <3>1, <3>2, <3>5, HeardByTask DEF ReadyTooLong, PCs, Types, Return, Holding
    <3>6. CASE ReadyDropped(t, size)
      BY <2>0, <3>1, <3>2, <3>6, HeardByTask DEF ReadyDropped, PCs, Types, Return, Holding
    <3>7. CASE ReadyData(t, size)
      <4>1. /\ size \in {"empty", "short", "whole"}
            /\ got'[t] = size /\ rx' = Fill(size)
            /\ \A u \in Tasks \ {t} : got'[u] = got[u]
        BY <3>7, SizeAssumption DEF ReadyData, Types
      <4>2. Check(cmd[t]) \in Copying
        BY <3>1, <3>7, UsedAssumption DEF ReadyData, Types
      <4>3. Heard(t)' => Filled(t)'
        BY <3>1, <3>2, <3>3, <4>1 DEF Filled
      <4>. QED  BY <2>0, <3>1, <3>2, <3>7, <4>1, <4>2, <4>3, HeardByTask
                   DEF ReadyData, PCs, Types, Holding
    <3>. QED  BY <2>12, <3>4, <3>5, <3>6, <3>7 DEF PollReady
  <2>13. CASE CopyOut(t)
    <3>1. /\ Check(cmd[t]) \in Copying /\ UNCHANGED <<got, rx, slot, served, cmd, issued>>
          /\ Heard(t)' => Filled(t)
      BY <2>13 DEF CopyOut, HeardOwn, Heard, Tag
    <3>2. out'[t].ret = "OK" /\ Heard(t)' /\ (Check(cmd[t]) = "lax" => got'[t] = "whole")
            => out'[t].from \subseteq {Tag(t)}
      BY <2>13, <3>1 DEF CopyOut, Return, Types, Filled, Copying
    <3>3. \A u \in Tasks \ {t} : out'[u] = out[u]
      BY <2>13 DEF CopyOut, Return, Types
    <3>. QED  BY <2>0, <2>13, <3>1, <3>2, <3>3, HeardByTask DEF CopyOut, PCs, Holding
  <2>14. CASE Unlock(t)
    <3>1. UNCHANGED <<out, got, rx, slot, served, cmd, issued>> /\ (Heard(t)' <=> Heard(t))
      BY <2>14 DEF Unlock, Heard, Tag
    <3>2. out[t].ret = "OK" /\ Heard(t) /\ (Check(cmd[t]) = "lax" => got[t] = "whole")
            => out[t].from \subseteq {Tag(t)}
      BY <2>0, <2>14 DEF Unlock, HeardOwn, ReturnedOK, Returned, Relied
    <3>. QED  BY <2>0, <2>14, <3>1, <3>2, HeardByTask DEF Unlock, PCs, Holding
  <2>. QED  BY <1>2, <2>1, <2>2, <2>3, <2>4, <2>5, <2>6, <2>7, <2>8, <2>9, <2>10, <2>11,
               <2>12, <2>13, <2>14 DEF TaskStep
<1>3. CASE BoardFinishes \/ BoardFails \/ BoardReboots \/ UNCHANGED vars
  <2>1. /\ UNCHANGED <<pc, cmd, issued, got, out, rx>>
        /\ slot'.of \subseteq slot.of
        /\ served' \cup slot'.of \subseteq served \cup slot.of
    BY <1>3 DEF BoardFinishes, BoardFails, BoardReboots, vars, Types, SlotIdle
  <2>2. \A t \in Tasks : Tag(t)' = Tag(t) /\ (Heard(t)' => Heard(t))
    BY <2>1 DEF Tag, Heard
  <2>3. Fresh'
    BY <2>1, <2>2 DEF Fresh
  <2>. QED  BY <2>1, <2>2, <2>3 DEF HeardOwn, Filled, ReturnedOK, Returned, Relied
<1>. QED  BY <1>1, <1>2, <1>3 DEF Next

(* Whatever the board does with a command that finds it working, and also  *)
(* where a command that reached nobody is reported as sent: a call of the  *)
(* API that the board ran hands its caller, with ESP_OK, its own answer.   *)
THEOREM RunsAreAnswered == Spec => []RunIsAnswered
<1>1. Init => LockDiscipline /\ HeardOwn /\ Fresh
  BY DEF Init, LockDiscipline, Holding, HeardOwn, Fresh, ReturnedOK, SlotIdle
<1>2. Types /\ Counted /\ LockDiscipline /\ HeardOwn /\ Fresh /\ [Next]_vars
        => (Types /\ Counted /\ LockDiscipline /\ HeardOwn /\ Fresh)'
  BY TypesStep, LockStep, HeardStep
<1>3. HeardOwn => RunIsAnswered
  BY DEF HeardOwn, RunIsAnswered, Heard
<1>. QED  BY TypesInit, <1>1, <1>2, <1>3, PTL DEF Spec

-----------------------------------------------------------------------------
(* The contract of the API.  An answer is only given to a request that was *)
(* run: what the board holds ready has been run, and so has the request    *)
(* whose answer is being copied or handed over.  Like AnswersOwn this      *)
(* needs GoodBoard; on the board's side a request is run once it was made. *)
Ran ==
  /\ slot.st = "ready" => slot.of \subseteq served
  /\ slot.of # {} => \E u \in Tasks : \E n \in 1 .. issued[u] : slot.of = {<<u, n>>}
  /\ \A t \in Tasks :
       /\ pc[t] = "copy" => Tag(t) \in served
       /\ pc[t] = "unlock" /\ out[t].ret = "OK" /\ Kind(cmd[t]) \in {"read", "async"}
            => Tag(t) \in served

LEMMA ServedGrows ==
  ASSUME [Next]_vars
  PROVE  served \subseteq served'
<1>1. ASSUME NEW t \in Tasks, TaskStep(t)
      PROVE  served \subseteq served'
  BY <1>1 DEF TaskStep, Lock, LockTimeout, RejectArg, SendFails, SendRead, SendUnpolled, SendAsync,
              PollFails, PollFindsError, PollAgain, PollTimeout, PollReady, CopyOut, Unlock,
              BoardHears
<1>. QED  BY <1>1 DEF Next, Call, BoardFinishes, BoardFails, BoardReboots, vars

LEMMA RanByTask ==
  ASSUME Types, Counted, Ran, NEW t \in Tasks, pc[t] # "idle", NEW l \in PCs, Goto(t, l),
         UNCHANGED <<cmd, issued>>, served \subseteq served',
         \A u \in Tasks \ {t} : out'[u] = out[u],
         slot' \in {slot, SlotIdle, Working(Tag(t))},
         l = "copy" => Tag(t) \in served',
         l = "unlock" /\ out'[t].ret = "OK" /\ Kind(cmd[t]) \in {"read", "async"}
           => Tag(t) \in served'
  PROVE  Ran'
<1>1. pc'[t] = l /\ \A u \in Tasks \ {t} : pc'[u] = pc[u]
  BY DEF Goto, Types
<1>2. \A u \in Tasks : Tag(u)' = Tag(u)
  BY DEF Tag
<1>3. slot'.st = "ready" => slot'.of \subseteq served'
  BY DEF Ran, SlotIdle, Working
<1>4. slot'.of # {} => \E u \in Tasks : \E n \in 1 .. issued'[u] : slot'.of = {<<u, n>>}
  <2>1. CASE slot' = slot
    BY <2>1 DEF Ran
  <2>2. CASE slot' = SlotIdle
    BY <2>2 DEF SlotIdle
  <2>3. CASE slot' = Working(Tag(t))
    <3>1. issued[t] \in 1 .. issued'[t] /\ slot'.of = {<<t, issued[t]>>}
      BY <2>3 DEF Working, Tag, Counted
    <3>. QED  BY <3>1
  <2>. QED  BY <2>1, <2>2, <2>3
<1>5. ASSUME NEW u \in Tasks
      PROVE  /\ pc'[u] = "copy" => Tag(u)' \in served'
             /\ pc'[u] = "unlock" /\ out'[u].ret = "OK" /\ Kind(cmd'[u]) \in {"read", "async"}
                  => Tag(u)' \in served'
  <2>1. CASE u = t
    BY <1>1, <1>2, <2>1
  <2>2. CASE u # t
    BY <1>1, <1>2, <2>2 DEF Ran
  <2>. QED  BY <2>1, <2>2
<1>. QED  BY <1>3, <1>4, <1>5 DEF Ran

LEMMA RanStep ==
  ASSUME GoodBoard, Types, Counted, Own, Ran, [Next]_vars
  PROVE  Ran'
<1>0. served \subseteq served'
  BY ServedGrows
<1>1. ASSUME NEW t \in Tasks, NEW c \in Used, Call(t, c)
      PROVE  Ran'
  <2>1. /\ pc' = [pc EXCEPT ![t] = "want"] /\ UNCHANGED <<out, slot, served>>
        /\ cmd' = [cmd EXCEPT ![t] = c] /\ issued' = [issued EXCEPT ![t] = @ + 1]
    BY <1>1 DEF Call, Goto
  <2>2. pc'[t] = "want"
    BY <2>1 DEF Types
  <2>3. \A u \in Tasks \ {t} : Tag(u)' = Tag(u) /\ pc'[u] = pc[u] /\ cmd'[u] = cmd[u]
    BY <2>1 DEF Tag, Types
  <2>4. \A u \in Tasks : 1 .. issued[u] \subseteq 1 .. issued'[u]
    BY <2>1 DEF Types
  <2>5. slot'.of # {} => \E u \in Tasks : \E n \in 1 .. issued'[u] : slot'.of = {<<u, n>>}
    BY <2>1, <2>4 DEF Ran
  <2>6. ASSUME NEW u \in Tasks
        PROVE  /\ pc'[u] = "copy" => Tag(u)' \in served'
               /\ pc'[u] = "unlock" /\ out'[u].ret = "OK" /\ Kind(cmd'[u]) \in {"read", "async"}
                    => Tag(u)' \in served'
    BY <2>1, <2>2, <2>3 DEF Ran
  <2>. QED  BY <2>1, <2>5, <2>6 DEF Ran
<1>2. ASSUME NEW t \in Tasks, TaskStep(t)
      PROVE  Ran'
  <2>1. CASE Lock(t)
    BY <1>0, <2>1, RanByTask DEF Lock, PCs
  <2>2. CASE LockTimeout(t) \/ RejectArg(t)
    BY <1>0, <2>2, RanByTask DEF LockTimeout, RejectArg, Return, PCs, Types
  <2>3. CASE SendFails(t)
    <3>1. slot' \in {slot, SlotIdle, Working(Tag(t))}
      BY <2>3 DEF SendFails, BoardHears
    <3>. QED  BY <1>0, <2>3, <3>1, RanByTask DEF SendFails, Return, PCs, Types
  <2>4. CASE SendRead(t)
    <3>1. BoardHears(t) /\ Kind(cmd[t]) = "read"
      BY <2>4 DEF SendRead, GoodBoard
    <3>2. slot' = slot /\ Tag(t) \in served'
      BY <3>1 DEF BoardHears
    <3>. QED  BY <1>0, <2>4, <3>2, RanByTask DEF SendRead, Return, PCs, Types
  <2>5. CASE SendUnpolled(t)
    <3>1. slot' \in {slot, SlotIdle, Working(Tag(t))} /\ Kind(cmd[t]) \notin {"read", "async"}
      BY <2>5 DEF SendUnpolled, BoardHears
    <3>. QED  BY <1>0, <2>5, <3>1, RanByTask DEF SendUnpolled, Return, PCs, Types
  <2>6. CASE SendAsync(t)
    <3>1. slot' \in {slot, SlotIdle, Working(Tag(t))}
      BY <2>6 DEF SendAsync, BoardHears
    <3>. QED  BY <1>0, <2>6, <3>1, RanByTask DEF SendAsync, PCs
  <2>7. CASE PollFails(t) \/ PollFindsError(t) \/ PollTimeout(t)
    BY <1>0, <2>7, RanByTask DEF PollFails, PollFindsError, PollTimeout, Return, PCs, Types
  <2>8. CASE PollAgain(t)
    BY <2>8 DEF PollAgain, Ran, Tag
  <2>9. ASSUME NEW size \in Sizes, PollReady(t, size)
        PROVE  Ran'
    <3>1. pc[t] = "poll" /\ slot.st = "ready" /\ slot' \in {slot, SlotIdle}
          /\ UNCHANGED <<cmd, issued, served>>
      BY <2>9 DEF PollReady
    <3>2. slot.of = {Tag(t)}
      BY <3>1 DEF Own, SlotOwn, Types
    <3>3. Tag(t) \in served'
      BY <3>1, <3>2 DEF Ran
    <3>4. \E l \in {"unlock", "copy"} : Goto(t, l)
      BY <2>9 DEF PollReady, ReadyNoData, ReadyTooLong, ReadyDropped, ReadyData
    <3>5. \A u \in Tasks \ {t} : out'[u] = out[u]
      BY <2>9 DEF PollReady, ReadyNoData, ReadyTooLong, ReadyDropped, ReadyData, Return, Types
    <3>. QED  BY <1>0, <3>1, <3>3, <3>4, <3>5, RanByTask DEF PCs
  <2>10. CASE CopyOut(t)
    <3>1. \A u \in Tasks \ {t} : out'[u] = out[u]
      BY <2>10 DEF CopyOut, Return, Types
    <3>2. Tag(t) \in served'
      BY <2>10 DEF CopyOut, Ran
    <3>. QED  BY <1>0, <2>10, <3>1, <3>2, RanByTask DEF CopyOut, PCs
  <2>11. CASE Unlock(t)
    BY <1>0, <2>11, RanByTask DEF Unlock, PCs
  <2>. QED  BY <1>2, <2>1, <2>2, <2>3, <2>4, <2>5, <2>6, <2>7, <2>8, <2>9, <2>10, <2>11 DEF TaskStep
<1>3. CASE BoardFinishes \/ BoardFails \/ BoardReboots \/ UNCHANGED vars
  <2>1. /\ UNCHANGED <<pc, cmd, issued, out>> /\ slot'.of \in {slot.of, {}}
        /\ slot'.st = "ready" => slot'.of \subseteq served'
    BY <1>3 DEF BoardFinishes, BoardFails, BoardReboots, vars, Types, SlotIdle, Ran
  <2>. QED  BY <1>0, <2>1 DEF Ran, Tag
<1>. QED  BY <1>1, <1>2, <1>3 DEF Next

(* How the steps of HostComm look to the callers.                          *)
Waiting == {t \in Tasks : pc[t] # "idle"}

LEMMA WaitingOf ==
  ASSUME Types, NEW t \in Tasks, NEW l \in PCs, Goto(t, l)
  PROVE  Waiting' = IF l = "idle" THEN Waiting \ {t} ELSE Waiting \cup {t}
<1>1. pc'[t] = l /\ \A u \in Tasks \ {t} : pc'[u] = pc[u]
  BY DEF Goto, Types
<1>. QED  BY <1>1 DEF Waiting

LEMMA ServeOrStutter ==
  ASSUME Types, Counted, UNCHANGED <<issued, won>>, Waiting' = Waiting,
         served' = served \/ \E u \in Tasks : \E n \in 1 .. issued[u] :
                               served' = served \cup {<<u, n>>}
  PROVE  [Service!Next]_(Service!vars)
<1>1. CASE served' = served
  BY <1>1 DEF Service!vars, Waiting
<1>2. ASSUME NEW u \in Tasks, NEW n \in 1 .. issued[u], served' = served \cup {<<u, n>>}
      PROVE  Service!Next
  <2>1. n \in 1 .. MaxCalls /\ n <= issued[u]
    BY CallsAssumption DEF Types
  <2>2. Service!Serve(u, n)
    BY <1>2, <2>1 DEF Service!Serve, Waiting
  <2>. QED  BY <2>1, <2>2 DEF Service!Next
<1>. QED  BY <1>1, <1>2

LEMMA ServiceStep ==
  ASSUME Types, Counted, Ran, [Next]_vars
  PROVE  [Service!Next]_(Service!vars)
<1>1. ASSUME NEW t \in Tasks, NEW c \in Used, Call(t, c)
      PROVE  Service!Next
  <2>1. t \notin Waiting /\ Waiting' = Waiting \cup {t}
    BY <1>1, WaitingOf DEF Call, PCs, Waiting
  <2>2. Service!Issue(t)
    BY <1>1, <2>1 DEF Call, Service!Issue, Waiting
  <2>. QED  BY <2>2 DEF Service!Next
<1>2. ASSUME NEW t \in Tasks, TaskStep(t)
      PROVE  [Service!Next]_(Service!vars)
  <2>0. pc[t] # "idle" => /\ issued[t] \in 1 .. issued[t] /\ Tag(t) = <<t, issued[t]>>
                          /\ t \in Waiting
    BY DEF Counted, Tag, Waiting
  <2>1. CASE Lock(t) \/ RejectArg(t)
    <3>1. Waiting' = Waiting
      BY <2>0, <2>1, WaitingOf DEF Lock, RejectArg, PCs
    <3>2. UNCHANGED <<issued, won, served>>
      BY <2>1 DEF Lock, RejectArg
    <3>. QED  BY <3>1, <3>2, ServeOrStutter
  <2>2. CASE LockTimeout(t)
    <3>1. t \in Waiting /\ Waiting' = Waiting \ {t}
      BY <2>0, <2>2, WaitingOf DEF LockTimeout, PCs
    <3>2. Service!NoAnswer(t)
      BY <2>2, <3>1 DEF LockTimeout, Service!NoAnswer, Waiting
    <3>. QED  BY <3>2 DEF Service!Next
  <2>3. CASE SendFails(t) \/ SendRead(t) \/ SendUnpolled(t) \/ SendAsync(t)
    <3>1. Waiting' = Waiting
      BY <2>0, <2>3, WaitingOf DEF SendFails, SendRead, SendUnpolled, SendAsync, PCs
    <3>2. UNCHANGED <<issued, won>> /\ pc[t] # "idle"
      BY <2>3 DEF SendFails, SendRead, SendUnpolled, SendAsync
    <3>3. served' \in {served, served \cup {Tag(t)}}
      BY <2>3 DEF SendFails, SendRead, SendUnpolled, SendAsync, BoardHears
    <3>. QED  BY <2>0, <3>1, <3>2, <3>3, ServeOrStutter
  <2>4. CASE PollFails(t) \/ PollFindsError(t) \/ PollTimeout(t) \/ CopyOut(t)
    <3>1. Waiting' = Waiting
      BY <2>0, <2>4, WaitingOf DEF PollFails, PollFindsError, PollTimeout, CopyOut, PCs
    <3>2. UNCHANGED <<issued, won, served>>
      BY <2>4 DEF PollFails, PollFindsError, PollTimeout, CopyOut
    <3>. QED  BY <3>1, <3>2, ServeOrStutter
  <2>5. CASE PollAgain(t)
    BY <2>5, ServeOrStutter DEF PollAgain, Waiting
  <2>6. ASSUME NEW size \in Sizes, PollReady(t, size)
        PROVE  [Service!Next]_(Service!vars)
    <3>1. \E l \in {"unlock", "copy"} : Goto(t, l)
      BY <2>6 DEF PollReady, ReadyNoData, ReadyTooLong, ReadyDropped, ReadyData
    <3>2. UNCHANGED <<issued, won, served>> /\ pc[t] = "poll"
      BY <2>6 DEF PollReady
    <3>3. Waiting' = Waiting
      BY <2>0, <3>1, <3>2, WaitingOf DEF PCs
    <3>. QED  BY <3>2, <3>3, ServeOrStutter
  <2>7. CASE Unlock(t)
    <3>1. t \in Waiting /\ Waiting' = Waiting \ {t} /\ UNCHANGED <<issued, served>>
      BY <2>0, <2>7, WaitingOf DEF Unlock, PCs
    <3>2. CASE out[t].ret = "OK" /\ Kind(cmd[t]) \in {"read", "async"}
      <4>1. Tag(t) \in served /\ won' = won \cup {Tag(t)}
        BY <2>7, <3>2 DEF Unlock, Ran
      <4>2. Service!Answer(t)
        BY <3>1, <4>1 DEF Service!Answer, Waiting, Tag
      <4>. QED  BY <4>2 DEF Service!Next
    <3>3. CASE ~(out[t].ret = "OK" /\ Kind(cmd[t]) \in {"read", "async"})
      <4>1. won' = won
        BY <2>7, <3>3 DEF Unlock
      <4>2. Service!NoAnswer(t)
        BY <3>1, <4>1 DEF Service!NoAnswer, Waiting
      <4>. QED  BY <4>2 DEF Service!Next
    <3>. QED  BY <3>2, <3>3
  <2>. QED  BY <1>2, <2>1, <2>2, <2>3, <2>4, <2>5, <2>6, <2>7 DEF TaskStep
<1>3. CASE BoardFinishes
  <2>1. UNCHANGED <<pc, issued, won>> /\ served' = served \cup slot.of
    BY <1>3 DEF BoardFinishes
  <2>2. served' = served \/ \E u \in Tasks : \E n \in 1 .. issued[u] : served' = served \cup {<<u, n>>}
    BY <2>1 DEF Ran
  <2>3. Waiting' = Waiting
    BY <2>1 DEF Waiting
  <2>. QED  BY <2>1, <2>2, <2>3, ServeOrStutter
<1>4. CASE BoardFails \/ BoardReboots \/ UNCHANGED vars
  <2>1. UNCHANGED <<pc, issued, won, served>>
    BY <1>4 DEF BoardFails, BoardReboots, vars
  <2>. QED  BY <2>1, ServeOrStutter DEF Waiting
<1>. QED  BY <1>1, <1>2, <1>3, <1>4 DEF Next

(* The API keeps its contract: on a good board host_comm implements        *)
(* HostService, so that a call which returns ESP_OK with an answer is one  *)
(* the board has run, whatever the mutex, the polls, the timeouts and the  *)
(* reboots do in between.                                                  *)
THEOREM Implements == GoodBoard => (Spec => ImplementsService)
<1>. SUFFICES ASSUME GoodBoard PROVE Spec => Service!Spec
  BY DEF ImplementsService
<1>1. Init => LockDiscipline /\ Own /\ Ran
  BY DEF Init, LockDiscipline, Holding, Own, SlotOwn, BufferOwn, AnswersOwn, ReturnedOK, Ran,
         SlotIdle
<1>2. Types /\ Counted /\ LockDiscipline /\ Own /\ Ran /\ [Next]_vars
        => (Types /\ Counted /\ LockDiscipline /\ Own /\ Ran)'
  BY TypesStep, LockStep, OwnStep, RanStep
<1>3. Init => Service!Init
  BY DEF Init, Service!Init
<1>4. Types /\ Counted /\ Ran /\ [Next]_vars => [Service!Next]_(Service!vars)
  BY ServiceStep
<1>. QED  BY TypesInit, <1>1, <1>2, <1>3, <1>4, PTL DEF Spec, Service!Spec

(* What the contract is for, and so what holds of host_comm: no call has   *)
(* ever come back with an answer to a request the board has not run.       *)
THEOREM AnsweredWereRun == GoodBoard => (Spec => [](won \subseteq served))
<1>1. Service!Init => Service!WonAreServed
  BY DEF Service!Init, Service!WonAreServed
<1>2. Service!WonAreServed /\ [Service!Next]_(Service!vars) => Service!WonAreServed'
  <2>. SUFFICES ASSUME won \subseteq served, [Service!Next]_(Service!vars)
                PROVE  won' \subseteq served'
    BY DEF Service!WonAreServed
  <2>1. CASE Service!Next
    BY <2>1 DEF Service!Next, Service!Issue, Service!Serve, Service!Answer, Service!NoAnswer
  <2>2. CASE UNCHANGED Service!vars
    BY <2>2 DEF Service!vars
  <2>. QED  BY <2>1, <2>2
<1>3. Service!Spec => []Service!WonAreServed
  BY <1>1, <1>2, PTL DEF Service!Spec
<1>4. Service!WonAreServed => won \subseteq served
  BY DEF Service!WonAreServed
<1>. QED  BY <1>3, <1>4, Implements, PTL DEF ImplementsService
=============================================================================
