--------------------------- MODULE CommandService ---------------------------
(***************************************************************************)
(* What the callers of backend::send_command and backend::                 *)
(* send_mesh_command may count on (backend.rs:349-371): a command is done  *)
(* by the concentratord at most once, it is answered once, and an answer   *)
(* that is not an error is the concentratord's answer to that command.  An *)
(* error promises nothing: the command may have been done, or may still    *)
(* be done later.                                                          *)
(***************************************************************************)
EXTENDS Naturals

CONSTANTS Calls,  \* the calls, each with a command of its own
          NoReply \* the call has not returned

VARIABLES called, \* the calls made
          done,   \* the commands the concentratord has done
          result  \* what each call returned: "ok", "error" or NoReply

vars == <<called, done, result>>

Init == called = {} /\ done = {} /\ result = [c \in Calls |-> NoReply]

Call(c) ==
  /\ c \notin called
  /\ called' = called \cup {c}
  /\ UNCHANGED <<done, result>>

Do(c) ==
  /\ c \in called \ done
  /\ done' = done \cup {c}
  /\ UNCHANGED <<called, result>>

ReturnOk(c) ==
  /\ c \in done
  /\ result[c] = NoReply
  /\ result' = [result EXCEPT ![c] = "ok"]
  /\ UNCHANGED <<called, done>>

ReturnError(c) ==
  /\ c \in called
  /\ result[c] = NoReply
  /\ result' = [result EXCEPT ![c] = "error"]
  /\ UNCHANGED <<called, done>>

Next == \E c \in Calls : Call(c) \/ Do(c) \/ ReturnOk(c) \/ ReturnError(c)

Spec == Init /\ [][Next]_vars

(***************************************************************************)
(* Every call returns.                                                     *)
(***************************************************************************)
CallsReturn == \A c \in Calls : c \in called ~> result[c] # NoReply
=============================================================================
