----------------------------- MODULE HostService -----------------------------
(***************************************************************************)
(* What the tasks of the front panel may assume of the host_comm API, with *)
(* no mutex, no polling and no wire in sight: a task issues a request and  *)
(* some time later the call returns, either with an error or with an       *)
(* answer; an answer is only ever given to a request the main board has    *)
(* really run.  Nothing is promised about a request whose call returned an *)
(* error: the board may have run it, may run it later, or never.           *)
(*                                                                         *)
(* This is the contract the comments of host_comm.h and the callers in     *)
(* main.c and web_server.cpp rely on.  HostComm implements it.             *)
(***************************************************************************)
EXTENDS Naturals

CONSTANTS Tasks,        \* the FreeRTOS tasks that call host_comm_*
          MaxCalls      \* bound on the number of calls a task makes

VARIABLES issued,       \* issued[t]: calls task t has made so far
          waiting,      \* the tasks inside a call
          won,          \* the tags of the calls that returned ESP_OK with an answer
          served        \* the tags of the requests the board has run to their end

vars == <<issued, waiting, won, served>>

Tags == Tasks \X (1 .. MaxCalls)

Init == /\ issued  = [t \in Tasks |-> 0]
        /\ waiting = {}
        /\ won     = {}
        /\ served  = {}

Issue(t) == /\ t \notin waiting
            /\ issued' = [issued EXCEPT ![t] = @ + 1]
            /\ waiting' = waiting \cup {t}
            /\ UNCHANGED <<won, served>>

(* The board runs a request; it may do so long after the call gave up.     *)
Serve(t, n) == /\ n <= issued[t]
               /\ served' = served \cup {<<t, n>>}
               /\ UNCHANGED <<issued, waiting, won>>

Answer(t) == /\ t \in waiting
             /\ <<t, issued[t]>> \in served
             /\ waiting' = waiting \ {t}
             /\ won' = won \cup {<<t, issued[t]>>}
             /\ UNCHANGED <<issued, served>>

(* The call returns an error, or is one whose ESP_OK carries no answer.    *)
NoAnswer(t) == /\ t \in waiting
               /\ waiting' = waiting \ {t}
               /\ UNCHANGED <<issued, won, served>>

Next == \E t \in Tasks : \/ Issue(t) \/ Answer(t) \/ NoAnswer(t)
                         \/ \E n \in 1 .. MaxCalls : Serve(t, n)

Spec == Init /\ [][Next]_vars

(* An answer is only given to a request that was run.                      *)
WonAreServed == won \subseteq served
=============================================================================
