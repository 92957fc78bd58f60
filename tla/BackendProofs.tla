--------------------------- MODULE BackendProofs ---------------------------
(***************************************************************************)
(* For any number of calls and whatever the timing: an answer reaches only *)
(* the call it is for, and the command path implements CommandService.     *)
(*                                                                         *)
(* The argument is the alternation of the REQ socket: it sends only when   *)
(* nothing is outstanding, so that whatever can be read while the thread   *)
(* polls is the answer to the command it sent last.                        *)
(***************************************************************************)
EXTENDS Backend, SequenceTheorems, TLAPS

(***************************************************************************)
(* A call is in one place at a time: queued, or being worked on, or        *)
(* answered; and its command is on its way, or done, or neither.           *)
(***************************************************************************)
Waiting(c) == c \in called /\ answer[c] = NoReply

Placed ==
  /\ \A i \in 1 .. Len(cmdChan) :
       /\ Waiting(cmdChan[i])
       /\ cmdChan[i] # thread
       /\ cmdChan[i] \notin done
       /\ \A j \in 1 .. Len(requests) : requests[j] # cmdChan[i]
       /\ \A j \in 1 .. Len(cmdChan) : cmdChan[i] = cmdChan[j] => i = j
  /\ thread # NoCall => Waiting(thread)
  /\ \A j \in 1 .. Len(requests) : requests[j] \in called \ done
  /\ \A j \in 1 .. Len(replies) : replies[j] \in done
  /\ done \subseteq called
  /\ \A c \in Calls : answer[c] = c => c \in done
  /\ \A c \in Calls \ called : answer[c] = NoReply

\* OneOutstanding, spelled out by the lengths of the two sequences.
Outstanding ==
  /\ Len(requests) + Len(replies) <= 1
  /\ ~ expecting => thread = NoCall /\ Len(requests) = 0 /\ Len(replies) = 0
  /\ thread # NoCall =>
       \/ Len(requests) = 1 /\ Len(replies) = 0 /\ requests[1] = thread
       \/ Len(requests) = 0 /\ Len(replies) = 1 /\ replies[1] = thread

IInv == TypeOK /\ Outstanding /\ AnswersMatch /\ Placed

USE NoCallIsNoCall, ResultsDiffer DEF Error

LEMMA BackendInit == Init => IInv
<1> SUFFICES ASSUME Init PROVE IInv
  OBVIOUS
<1>1. TypeOK
  BY EmptySeq DEF Init, TypeOK
<1>2. Outstanding /\ AnswersMatch /\ Placed
  BY EmptySeq DEF Init, Outstanding, AnswersMatch, Placed, Waiting
<1> QED BY <1>1, <1>2 DEF IInv

-----------------------------------------------------------------------------
(***************************************************************************)
(* Each action keeps the invariant.                                        *)
(***************************************************************************)
LEMMA SendCommandKeeps ==
  ASSUME IInv, NEW c \in Calls, SendCommand(c) PROVE IInv'
<1>1. /\ cmdChan' \in Seq(Calls)
      /\ Len(cmdChan') = Len(cmdChan) + 1
      /\ Len(cmdChan) \in Nat
      /\ \A i \in 1 .. Len(cmdChan) : cmdChan'[i] = cmdChan[i]
      /\ cmdChan'[Len(cmdChan) + 1] = c
  BY AppendProperties, LenProperties DEF IInv, TypeOK, SendCommand
<1>2. TypeOK'
  BY <1>1 DEF IInv, TypeOK, SendCommand
<1>3. Outstanding' /\ AnswersMatch'
  BY DEF IInv, Outstanding, AnswersMatch, SendCommand
<1>4. \A i \in 1 .. Len(cmdChan)' : i \in 1 .. Len(cmdChan) \/ i = Len(cmdChan) + 1
  BY <1>1
<1>5. c \notin called /\ c \notin done /\ answer[c] = NoReply /\ c # thread
  BY DEF IInv, TypeOK, Placed, Waiting, SendCommand
<1>6. Placed'
  BY <1>1, <1>4, <1>5 DEF IInv, TypeOK, Placed, Waiting, SendCommand
<1> QED BY <1>2, <1>3, <1>6 DEF IInv

LEMMA StartCommandKeeps ==
  ASSUME IInv, StartCommand PROVE IInv'
<1> DEFINE c == Head(cmdChan)
<1>1. /\ c \in Calls
      /\ c = cmdChan[1]
      /\ cmdChan' \in Seq(Calls)
      /\ Len(cmdChan) \in Nat /\ Len(cmdChan) >= 1
      /\ Len(cmdChan') = Len(cmdChan) - 1
      /\ \A i \in 1 .. Len(cmdChan') : cmdChan'[i] = cmdChan[i + 1]
  BY HeadTailProperties, EmptySeq, LenProperties DEF IInv, TypeOK, StartCommand
<1>2. Len(requests) = 0 /\ Len(replies) = 0
  BY DEF IInv, Outstanding, StartCommand, MaySend
<1>3. /\ requests' \in Seq(Calls) /\ Len(requests') = 1 /\ requests'[1] = c
  BY <1>1, <1>2, AppendProperties DEF IInv, TypeOK, StartCommand
<1>4. TypeOK'
  BY <1>1, <1>3 DEF IInv, TypeOK, StartCommand
<1>5. Outstanding' /\ AnswersMatch'
  BY <1>1, <1>2, <1>3 DEF IInv, Outstanding, AnswersMatch, StartCommand
<1>6. \A i \in 1 .. Len(cmdChan') : i + 1 \in 1 .. Len(cmdChan) /\ i + 1 # 1
  BY <1>1
<1>7. Placed'
  BY <1>1, <1>2, <1>3, <1>6 DEF IInv, Placed, Waiting, StartCommand
<1> QED BY <1>4, <1>5, <1>7 DEF IInv

LEMMA RefuseCommandKeeps ==
  ASSUME IInv, RefuseCommand PROVE IInv'
<1> DEFINE c == Head(cmdChan)
<1>1. /\ c \in Calls
      /\ c = cmdChan[1]
      /\ cmdChan' \in Seq(Calls)
      /\ Len(cmdChan) \in Nat /\ Len(cmdChan) >= 1
      /\ Len(cmdChan') = Len(cmdChan) - 1
      /\ \A i \in 1 .. Len(cmdChan') : cmdChan'[i] = cmdChan[i + 1]
  BY HeadTailProperties, EmptySeq, LenProperties DEF IInv, TypeOK, RefuseCommand
<1>2. answer' = [answer EXCEPT ![c] = Error] /\ answer \in [Calls -> Calls \cup {Error, NoReply}]
  BY DEF IInv, TypeOK, RefuseCommand
<1>3. TypeOK'
  BY <1>1, <1>2 DEF IInv, TypeOK, RefuseCommand
<1>4. Outstanding' /\ AnswersMatch'
  BY <1>1, <1>2 DEF IInv, Outstanding, AnswersMatch, RefuseCommand
<1>5. \A i \in 1 .. Len(cmdChan') : i + 1 \in 1 .. Len(cmdChan) /\ i + 1 # 1
  BY <1>1
<1>6. \A i \in 1 .. Len(cmdChan') : cmdChan'[i] # c
  BY <1>1, <1>5 DEF IInv, Placed
<1>7. Placed'
  BY <1>1, <1>2, <1>5, <1>6 DEF IInv, TypeOK, Placed, Waiting, RefuseCommand
<1> QED BY <1>3, <1>4, <1>7 DEF IInv

LEMMA ReadResponseKeeps ==
  ASSUME IInv, ReadResponse PROVE IInv'
<1>1. /\ thread \in Calls
      /\ Len(requests) = 0 /\ Len(replies) = 1 /\ replies[1] = thread
      /\ Head(replies) = thread
      /\ replies' \in Seq(Calls) /\ Len(replies') = 0
  BY HeadTailProperties, EmptySeq DEF IInv, TypeOK, Outstanding, ReadResponse
<1>2. /\ answer' = [answer EXCEPT ![thread] = thread]
      /\ answer \in [Calls -> Calls \cup {Error, NoReply}]
  BY <1>1 DEF IInv, TypeOK, ReadResponse
<1>3. TypeOK'
  BY <1>1, <1>2 DEF IInv, TypeOK, ReadResponse
<1>4. Outstanding' /\ AnswersMatch'
  BY <1>1, <1>2 DEF IInv, Outstanding, AnswersMatch, ReadResponse
<1>5. thread \in done /\ thread \in called
  BY <1>1 DEF IInv, Placed, Waiting, ReadResponse
<1>6. \A i \in 1 .. Len(cmdChan) : cmdChan[i] \in Calls
  BY ElementOfSeq DEF IInv, TypeOK
<1>7. Placed'
  BY <1>1, <1>2, <1>5, <1>6 DEF IInv, TypeOK, Placed, Waiting, ReadResponse
<1> QED BY <1>3, <1>4, <1>7 DEF IInv

LEMMA TimeoutKeeps ==
  ASSUME IInv, Timeout PROVE IInv'
<1>1. thread \in Calls
  BY DEF IInv, TypeOK, Timeout
<1>2. /\ answer' = [answer EXCEPT ![thread] = Error]
      /\ answer \in [Calls -> Calls \cup {Error, NoReply}]
  BY DEF IInv, TypeOK, Timeout
<1>3. TypeOK'
  BY <1>1, <1>2 DEF IInv, TypeOK, Timeout
<1>4. Outstanding' /\ AnswersMatch'
  BY <1>1, <1>2 DEF IInv, Outstanding, AnswersMatch, Timeout
<1>5. thread \in called
  BY DEF IInv, Placed, Waiting, Timeout
<1>6. \A i \in 1 .. Len(cmdChan) : cmdChan[i] \in Calls
  BY ElementOfSeq DEF IInv, TypeOK
<1>7. Placed'
  BY <1>1, <1>2, <1>5, <1>6 DEF IInv, TypeOK, Placed, Waiting, Timeout
<1> QED BY <1>3, <1>4, <1>7 DEF IInv

LEMMA OneOfTwo == \A m, n \in Nat : m >= 1 /\ m + n <= 1 => m = 1 /\ n = 0
  OBVIOUS

LEMMA ConcentratordKeeps ==
  ASSUME IInv, Concentratord PROVE IInv'
<1> DEFINE c == Head(requests)
<1>1. /\ Len(requests) = 1 /\ Len(replies) = 0
      /\ c \in Calls /\ c = requests[1]
      /\ requests' \in Seq(Calls) /\ Len(requests') = 0
  <2>1. Len(requests) \in Nat /\ Len(requests) >= 1 /\ Len(replies) \in Nat
    BY EmptySeq, LenProperties DEF IInv, TypeOK, Concentratord
  <2>2. Len(requests) + Len(replies) <= 1
    BY DEF IInv, Outstanding
  <2>3. Len(requests) = 1 /\ Len(replies) = 0
    BY <2>1, <2>2, OneOfTwo
  <2> QED BY <2>3, HeadTailProperties DEF IInv, TypeOK, Concentratord
<1>2. replies' \in Seq(Calls) /\ Len(replies') = 1 /\ replies'[1] = c
  BY <1>1, AppendProperties DEF IInv, TypeOK, Concentratord
<1>3. c \in called \ done /\ done' = done \cup {c}
  BY <1>1 DEF IInv, Placed, Concentratord
<1>4. TypeOK'
  BY <1>1, <1>2, <1>3 DEF IInv, TypeOK, Concentratord
<1>5. Outstanding' /\ AnswersMatch'
  BY <1>1, <1>2 DEF IInv, Outstanding, AnswersMatch, Concentratord
<1>6. Placed'
  BY <1>1, <1>2, <1>3 DEF IInv, Placed, Waiting, Concentratord
<1> QED BY <1>4, <1>5, <1>6 DEF IInv

LEMMA BackendNext == IInv /\ [Next]_vars => IInv'
<1>1. ASSUME IInv, UNCHANGED vars PROVE IInv'
  BY <1>1 DEF vars, IInv, TypeOK, Outstanding, AnswersMatch, Placed, Waiting
<1> QED BY <1>1, SendCommandKeeps, StartCommandKeeps, RefuseCommandKeeps,
           ReadResponseKeeps, TimeoutKeeps, ConcentratordKeeps DEF Next

LEMMA BackendInvariant == Spec => []IInv
  BY BackendInit, BackendNext, PTL DEF Spec

(***************************************************************************)
(* A call never gets the answer to another one's command, however late the *)
(* concentratord answers (send_zmq_command, backend.rs:435).               *)
(***************************************************************************)
THEOREM AnswersReachTheirCalls == Spec => []AnswersMatch
<1>1. IInv => AnswersMatch
  BY DEF IInv
<1> QED BY <1>1, BackendInvariant, PTL

(***************************************************************************)
(* One late answer ends the command path for good: once the thread has     *)
(* given up an answer that the socket still expects, it stays so, nothing  *)
(* more is sent to the concentratord, and no call that has no answer yet   *)
(* gets any other than an error (backend.rs:435-449).                      *)
(***************************************************************************)
GivenUp == thread = NoCall /\ expecting

StaysGivenUp ==
  GivenUp => /\ GivenUp' /\ (requests = <<>> => requests' = <<>>)
             /\ \A c \in Calls : answer'[c] \in {answer[c], Error}

THEOREM GivenUpForGood == Spec => [][StaysGivenUp]_vars
<1>1. ASSUME IInv, Next PROVE StaysGivenUp
  <2> SUFFICES ASSUME GivenUp PROVE StaysGivenUp
    BY DEF StaysGivenUp
  <2>1. thread = NoCall /\ expecting
    BY DEF GivenUp
  <2>2. ASSUME UNCHANGED <<thread, expecting, answer>>, requests = <<>> => requests' = <<>>
        PROVE  StaysGivenUp
    BY <2>1, <2>2, Zenon DEF StaysGivenUp, GivenUp
  <2>3. ASSUME NEW c \in Calls, SendCommand(c) PROVE StaysGivenUp
    BY <2>2, <2>3 DEF SendCommand
  <2>4. CASE Concentratord
    BY <2>2, <2>4 DEF Concentratord
  <2>5. CASE RefuseCommand
    <3>1. /\ answer' = [answer EXCEPT ![Head(cmdChan)] = Error]
          /\ UNCHANGED <<thread, expecting, requests>>
      BY <2>5 DEF RefuseCommand
    <3>2. answer \in [Calls -> Calls \cup {Error, NoReply}]
      BY <1>1 DEF IInv, TypeOK
    <3>3. \A c \in Calls : answer'[c] \in {answer[c], Error}
      BY <3>1, <3>2
    <3> QED BY <2>1, <3>1, <3>3 DEF StaysGivenUp, GivenUp
  <2>6. ~ StartCommand /\ ~ ReadResponse /\ ~ Timeout
    BY <2>1 DEF StartCommand, MaySend, ReadResponse, Timeout
  <2> QED BY <1>1, <2>3, <2>4, <2>5, <2>6 DEF Next
<1>2. ASSUME IInv, [Next]_vars PROVE [StaysGivenUp]_vars
  BY <1>1, <1>2
<1> QED BY <1>2, BackendInvariant, PTL DEF Spec

-----------------------------------------------------------------------------
(***************************************************************************)
(* Refinement: a step of the path is a step of the service or a stutter.   *)
(* Queueing is the call, a read or an error is its return, and the         *)
(* concentratord's turn is the doing.                                      *)
(***************************************************************************)
Outcome(c) == CASE answer[c] = c -> "ok"
                [] answer[c] = NoReply -> NoReply
                [] OTHER -> "error"

LEMMA RefineInit == Init => Service!Init
  BY DEF Init, Service!Init

\* What setting one answer does to the outcomes.
LEMMA OutcomeOf ==
  ASSUME NEW c \in Calls, NEW v,
         answer \in [Calls -> Calls \cup {Error, NoReply}],
         answer' = [answer EXCEPT ![c] = v]
  PROVE  [d \in Calls |-> CASE answer'[d] = Error -> "error"
                            [] answer'[d] = NoReply -> NoReply
                            [] OTHER -> "ok"]
           = [[d \in Calls |-> CASE answer[d] = Error -> "error"
                                 [] answer[d] = NoReply -> NoReply
                                 [] OTHER -> "ok"]
                EXCEPT ![c] = CASE v = Error -> "error"
                                [] v = NoReply -> NoReply
                                [] OTHER -> "ok"]
  OBVIOUS

LEMMA RefineNext == IInv /\ [Next]_vars => [Service!Next]_(Service!vars)
<1> SUFFICES ASSUME IInv, [Next]_vars PROVE [Service!Next]_(Service!vars)
  OBVIOUS
<1>1. ASSUME NEW c \in Calls, SendCommand(c) PROVE Service!Call(c)
  BY <1>1 DEF SendCommand, Service!Call
<1>2. CASE StartCommand
  BY <1>2 DEF StartCommand, Service!vars
<1>3. ASSUME RefuseCommand PROVE Service!Next
  <2>1. /\ Head(cmdChan) \in Calls /\ Head(cmdChan) = cmdChan[1]
        /\ Len(cmdChan) \in Nat /\ Len(cmdChan) >= 1
    BY <1>3, HeadTailProperties, EmptySeq, LenProperties DEF IInv, TypeOK, RefuseCommand
  <2>2. PICK c \in Calls : c = Head(cmdChan)
    BY <2>1
  <2>3. c \in called /\ answer[c] = NoReply
    BY <2>1, <2>2 DEF IInv, Placed, Waiting
  <2>4. Service!ReturnError(c)
    BY <1>3, <2>2, <2>3, OutcomeOf DEF RefuseCommand, Service!ReturnError, IInv, TypeOK
  <2> QED BY <2>4 DEF Service!Next
<1>4. ASSUME ReadResponse PROVE Service!Next
  <2>1. /\ thread \in Calls /\ Len(replies) = 1 /\ replies[1] = thread
        /\ Head(replies) = thread
    BY <1>4, HeadTailProperties, EmptySeq
       DEF IInv, TypeOK, Outstanding, ReadResponse
  <2>2. PICK c \in Calls : c = thread
    BY <2>1
  <2>3. c \in done /\ answer[c] = NoReply
    BY <1>4, <2>1, <2>2 DEF IInv, Placed, Waiting, ReadResponse
  <2>4. c # Error /\ c # NoReply
    BY ResultsDiffer DEF Error
  <2>5. answer' = [answer EXCEPT ![c] = c] /\ UNCHANGED <<called, done>>
    BY <1>4, <2>1, <2>2 DEF ReadResponse
  <2>6. Service!ReturnOk(c)
    BY <2>3, <2>4, <2>5, OutcomeOf DEF Service!ReturnOk, IInv, TypeOK
  <2> QED BY <2>6 DEF Service!Next
<1>5. ASSUME Timeout PROVE Service!Next
  <2>1. PICK c \in Calls : c = thread
    BY <1>5 DEF IInv, TypeOK, Timeout
  <2>2. c \in called /\ answer[c] = NoReply
    BY <1>5, <2>1 DEF IInv, Placed, Waiting, Timeout
  <2>3. Service!ReturnError(c)
    BY <1>5, <2>1, <2>2, OutcomeOf DEF Timeout, Service!ReturnError, IInv, TypeOK
  <2> QED BY <2>3 DEF Service!Next
<1>6. ASSUME Concentratord PROVE Service!Next
  <2>1. /\ Head(requests) \in Calls /\ Head(requests) = requests[1]
        /\ Len(requests) \in Nat /\ Len(requests) >= 1
    BY <1>6, HeadTailProperties, EmptySeq, LenProperties DEF IInv, TypeOK, Concentratord
  <2>2. PICK c \in Calls : c = Head(requests)
    BY <2>1
  <2>3. c \in called \ done
    BY <2>1, <2>2 DEF IInv, Placed
  <2>4. Service!Do(c)
    BY <1>6, <2>2, <2>3 DEF Concentratord, Service!Do
  <2> QED BY <2>4 DEF Service!Next
<1>7. CASE UNCHANGED vars
  BY <1>7 DEF vars, Service!vars
<1> QED BY <1>1, <1>2, <1>3, <1>4, <1>5, <1>6, <1>7 DEF Next, Service!Next

(***************************************************************************)
(* The command path implements the service that its callers count on.      *)
(***************************************************************************)
THEOREM BackendImplementsService == Spec => ServiceSpec
  BY RefineInit, RefineNext, BackendInvariant, PTL DEF Spec, ServiceSpec, Service!Spec
=============================================================================
