------------------------------ MODULE Backend ------------------------------
(***************************************************************************)
(* The command path to one concentratord (backend.rs): tasks queue their   *)
(* commands, each with a oneshot channel for its answer; one thread takes  *)
(* them in turn, sends each over a ZMQ REQ socket, polls for 100 ms and    *)
(* reads the answer, or gives up.  The gateway has two such threads, one   *)
(* per concentratord, that share nothing.                                  *)
(*                                                                         *)
(* The socket and the concentratord are external.  A REQ socket (without   *)
(* the RELAXED option, which the code does not set) sends and receives in  *)
(* strict alternation: after a send it refuses to send (EFSM) until an     *)
(* answer was received.                                                    *)
(***************************************************************************)
EXTENDS Naturals, Sequences, SequencesExt

CONSTANTS Calls,   \* the calls of send_command, each with its own command
          NoCall,  \* the thread waits for a command
          NoReply, \* the oneshot channel is empty
          Slow     \* whether the concentratord may take longer than 100 ms

ASSUME NoCallIsNoCall == NoCall \notin Calls
ASSUME ResultsDiffer ==
  NoReply \notin Calls \cup {"ok", "error"} /\ "error" \notin Calls

VARIABLES cmdChan,   \* the unbounded channel of commands
          thread,    \* the call whose answer the thread polls for, or NoCall
          expecting, \* REQ socket: a command was sent, its answer not received
          requests,  \* commands on their way to the concentratord
          replies,   \* answers on their way back, by the command they answer
          called,    \* history: the calls made
          done,      \* history: the commands the concentratord has done
          answer     \* per call: the answer in its oneshot channel

vars == <<cmdChan, thread, expecting, requests, replies, called, done, answer>>

\* An answer is an error or the concentratord's answer to some command.
Error == "error"

Init ==
  /\ cmdChan = <<>> /\ thread = NoCall /\ expecting = FALSE
  /\ requests = <<>> /\ replies = <<>>
  /\ called = {} /\ done = {}
  /\ answer = [c \in Calls |-> NoReply]

-----------------------------------------------------------------------------
\* send_command: the task queues the command and awaits the oneshot channel.
SendCommand(c) ==
  /\ c \notin called
  /\ called' = called \cup {c}
  /\ cmdChan' = Append(cmdChan, c)
  /\ UNCHANGED <<thread, expecting, requests, replies, done, answer>>

\* A slip: the socket is relaxed, it sends again without an answer.
MaySendRelaxed(e) == TRUE

\* What the REQ socket allows.
MaySend(e) == ~ e

\* The thread takes a command and sends it.
StartCommand ==
  /\ thread = NoCall /\ cmdChan # <<>>
  /\ MaySend(expecting)
  /\ thread' = Head(cmdChan)
  /\ cmdChan' = Tail(cmdChan)
  /\ expecting' = TRUE
  /\ requests' = Append(requests, Head(cmdChan))
  /\ UNCHANGED <<replies, called, done, answer>>

\* The socket refuses to send: the error is the answer.
RefuseCommand ==
  /\ thread = NoCall /\ cmdChan # <<>>
  /\ ~ MaySend(expecting)
  /\ answer' = [answer EXCEPT ![Head(cmdChan)] = Error]
  /\ cmdChan' = Tail(cmdChan)
  /\ UNCHANGED <<thread, expecting, requests, replies, called, done>>

\* The socket is readable within 100 ms: the oldest answer is read.
ReadResponse ==
  /\ thread # NoCall /\ replies # <<>>
  /\ answer' = [answer EXCEPT ![thread] = Head(replies)]
  /\ replies' = Tail(replies)
  /\ expecting' = FALSE
  /\ thread' = NoCall
  /\ UNCHANGED <<cmdChan, requests, called, done>>

\* A slip: there is no poller, the thread waits for the answer.
TimeoutMissing == FALSE /\ UNCHANGED vars

\* Nothing to read after 100 ms; the socket still expects the answer.
Timeout ==
  /\ Slow
  /\ thread # NoCall /\ replies = <<>>
  /\ answer' = [answer EXCEPT ![thread] = Error]
  /\ thread' = NoCall
  /\ UNCHANGED <<cmdChan, expecting, requests, replies, called, done>>

-----------------------------------------------------------------------------
\* The concentratord does the next command and answers it.
Concentratord ==
  /\ requests # <<>>
  /\ done' = done \cup {Head(requests)}
  /\ replies' = Append(replies, Head(requests))
  /\ requests' = Tail(requests)
  /\ UNCHANGED <<cmdChan, thread, expecting, called, answer>>

Next ==
  \/ \E c \in Calls : SendCommand(c)
  \/ StartCommand \/ RefuseCommand \/ ReadResponse \/ Timeout
  \/ Concentratord

Spec == Init /\ [][Next]_vars

\* The thread keeps running: poll returns.  The concentratord need not answer.
Thread == StartCommand \/ RefuseCommand \/ ReadResponse \/ Timeout
FairSpec == Spec /\ WF_vars(Thread)

-----------------------------------------------------------------------------
(***************************************************************************)
(* The types of the variables.                                             *)
(***************************************************************************)
TypeOK ==
  /\ cmdChan \in Seq(Calls)
  /\ thread \in Calls \cup {NoCall}
  /\ expecting \in BOOLEAN
  /\ requests \in Seq(Calls) /\ replies \in Seq(Calls)
  /\ called \subseteq Calls /\ done \subseteq Calls
  /\ answer \in [Calls -> Calls \cup {Error, NoReply}]

(***************************************************************************)
(* A call never gets the answer to another one's command: an answer that   *)
(* comes after its timeout is read by nobody (backend.rs:437-448).         *)
(***************************************************************************)
AnswersMatch == \A c \in Calls : answer[c] \in {c, Error, NoReply}

(***************************************************************************)
(* One command is outstanding at most, between the thread and the          *)
(* concentratord, and only while the socket expects its answer; while the  *)
(* thread polls it is that of the call it works for.                       *)
(***************************************************************************)
OneOutstanding ==
  /\ Len(requests) + Len(replies) <= 1
  /\ ~ expecting => thread = NoCall /\ requests = <<>> /\ replies = <<>>
  /\ thread # NoCall => requests \o replies = <<thread>>

(***************************************************************************)
(* The path is usable again after a timeout: once the concentratord has    *)
(* answered all it was sent and the thread waits for a command, the socket *)
(* would send it.  The poller is there "so that we can timeout after       *)
(* 100ms" (backend.rs:439) and go on with the next command.                *)
(***************************************************************************)
UsableAfterTimeout ==
  thread = NoCall /\ requests = <<>> => MaySend(expecting)

(***************************************************************************)
(* The path implements the service its callers count on.  A caller takes   *)
(* any answer for the answer to its command.                               *)
(***************************************************************************)
Service ==
  INSTANCE CommandService WITH
    result <- [c \in Calls |->
                 CASE answer[c] = Error -> "error"
                   [] answer[c] = NoReply -> NoReply
                   [] OTHER -> "ok"]

ServiceSpec == Service!Spec

(***************************************************************************)
(* Every call returns, even when the concentratord never answers.          *)
(***************************************************************************)
CallsReturn == \A c \in Calls : c \in called ~> answer[c] # NoReply
=============================================================================
