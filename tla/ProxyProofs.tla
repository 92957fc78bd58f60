----------------------------- MODULE ProxyProofs -----------------------------
(***************************************************************************)
(* Theorems about Proxy: what its server is told of a downlink is true.    *)
(* A call of a receive window that failed stays failed, whatever the       *)
(* concentratord does later, unless it was given up after the timeout; and *)
(* the windows of a request are tried in their order, while no other       *)
(* request is handled.  What is proved of Backend holds of its calls here. *)
(***************************************************************************)
EXTENDS Proxy, BackendProofs

USE NoCallIsNoCall, ResultsDiffer, NoRequestIsNone DEF Error

-----------------------------------------------------------------------------
(***************************************************************************)
(* Requests and their calls.                                               *)
(***************************************************************************)
LEMMA ItemIsCall ==
  ASSUME NEW r \in Requests
  PROVE  /\ Items[r] \in Seq(Calls)
         /\ Len(Items[r]) \in Nat /\ DOMAIN Items[r] = 1 .. Len(Items[r])
         /\ \A k \in DOMAIN Items[r] : Items[r][k] \in Calls /\ Items[r][k] \in Attempts
<1>1. Items[r] \in Seq(Calls)
  BY RequestsAreKnown
<1>2. Len(Items[r]) \in Nat /\ DOMAIN Items[r] = 1 .. Len(Items[r])
  BY <1>1, LenProperties
<1>3. \A k \in DOMAIN Items[r] : Items[r][k] \in Calls
  BY <1>1, <1>2, ElementOfSeq
<1> QED BY <1>1, <1>2, <1>3 DEF Attempts

LEMMA OneRequestPerCall ==
  ASSUME NEW r \in Requests, NEW s \in Requests,
         NEW j \in DOMAIN Items[r], NEW k \in DOMAIN Items[s],
         Items[r][j] = Items[s][k]
  PROVE  r = s /\ j = k
  BY RequestsAreKnown

-----------------------------------------------------------------------------
(***************************************************************************)
(* The invariant.  Failed: the gateway knows that the item was not         *)
(* transmitted, or has given up waiting for the answer.                    *)
(***************************************************************************)
Failed(c) == answer[c] = Error \/ (answer[c] = c /\ c \in done \ sent)

Fresh(r) == \A k \in DOMAIN Items[r] : Items[r][k] \notin called

Types ==
  /\ inbox \in Seq(Requests)
  /\ serving \in Requests \cup {NoRequest}
  /\ handling \in Requests \cup {NoRequest}
  /\ reply = [r \in Requests |-> reply[r]]
  /\ sent \subseteq done

\* A request is in one place, and has made no calls before it is handled.
InOnePlace ==
  /\ \A j, k \in 1 .. Len(inbox) : inbox[j] = inbox[k] => j = k
  /\ \A j \in 1 .. Len(inbox) : inbox[j] # serving /\ reply[inbox[j]] = None
  /\ serving # NoRequest => reply[serving] = None
  /\ \A r \in Requests : reply[r] = None /\ r # serving => Fresh(r)
  /\ serving # NoRequest /\ handling = NoRequest /\ response = None => Fresh(serving)
  /\ response # None => serving # NoRequest
  /\ handling # NoRequest => handling = serving /\ response = None

\* The windows before item have failed, those after it have not been tried.
Trying ==
  handling # NoRequest =>
    /\ item \in Nat \ {0}
    /\ DOMAIN status = DOMAIN Items[handling]
    /\ \A k \in DOMAIN Items[handling] :
         /\ k < item => status[k] = "INTERNAL_ERROR" /\ Failed(Items[handling][k])
         /\ k >= item => status[k] = "IGNORED"
         /\ k > item => Items[handling][k] \notin called

InOrder ==
  \A r \in Requests : \A j, k \in DOMAIN Items[r] :
    j < k /\ Items[r][k] \in called => Failed(Items[r][j])

\* What could not be written was not sent.
Written == \A c \in called : c \in Attempts => c \in Encodable

\* What the answer a to a request says of its windows.
Truth(r, a) ==
  Kind[r] = "relay" =>
    /\ a.what = "ack" => \A k \in DOMAIN Items[r] :
         /\ a.items[k] = "OK" => Items[r][k] \in sent
         /\ a.items[k] = "IGNORED" => Items[r][k] \notin called
         /\ a.items[k] # "INTERNAL_ERROR" =>
              \A j \in k + 1 .. Len(Items[r]) : a.items[j] = "IGNORED"
    /\ a = Empty => \A k \in DOMAIN Items[r] :
         Failed(Items[r][k]) \/ Items[r][k] \notin called

Truthful ==
  /\ \A r \in Requests : Truth(r, reply[r])
  /\ serving # NoRequest => Truth(serving, response)

ProxyInv == IInv /\ Types /\ InOnePlace /\ Trying /\ InOrder /\ Written /\ Truthful

LEMMA NoneIsNoAnswer == None.what # "ack" /\ None # Empty /\ Empty.what # "ack"
<1>1. None.what = "none" /\ Empty.what = "empty"
  BY DEF None, Empty, Plain
<1> QED BY <1>1

LEMMA ProxyStart == ProxyInit => ProxyInv
<1> SUFFICES ASSUME ProxyInit PROVE ProxyInv
  OBVIOUS
<1>1. IInv
  BY BackendInit DEF ProxyInit
<1>2. /\ inbox = <<>> /\ serving = NoRequest /\ handling = NoRequest /\ response = None
      /\ reply = [r \in Requests |-> None] /\ sent = {}
      /\ called = {} /\ done = {} /\ cmdChan = <<>>
  BY DEF ProxyInit, Init
<1>3. Types
  BY <1>2, EmptySeq DEF Types
<1>4. InOnePlace
  BY <1>2, EmptySeq DEF InOnePlace, Fresh
<1>5. Trying /\ InOrder /\ Written
  BY <1>2 DEF Trying, InOrder, Written
<1>6. \A r \in Requests : Truth(r, reply[r])
  BY <1>2, NoneIsNoAnswer DEF Truth
<1> QED BY <1>1, <1>2, <1>3, <1>4, <1>5, <1>6 DEF ProxyInv, Truthful

-----------------------------------------------------------------------------
(***************************************************************************)
(* Steps of the command path.  An answer is final, a command is done once, *)
(* and whether its frame was transmitted is settled when it is done.       *)
(***************************************************************************)
Progress ==
  /\ \A c \in Calls : answer[c] # NoReply => answer'[c] = answer[c]
  /\ done \subseteq done' /\ sent \subseteq sent' /\ called \subseteq called'
  /\ \A c \in done : c \in sent' => c \in sent

LEMMA FailedStays ==
  ASSUME Progress, NEW c \in Calls, Failed(c)
  PROVE  Failed(c)'
  BY DEF Progress, Failed

LEMMA SendProgress ==
  ASSUME NEW c \in Calls, SendCommand(c), sent' = sent
  PROVE  Progress /\ called' = called \cup {c}
  BY DEF SendCommand, Progress

LEMMA ServeProgress ==
  ASSUME IInv, ServeBackend
  PROVE  Progress /\ called' = called /\ done' = done
<1>1. answer \in [Calls -> Calls \cup {Error, NoReply}] /\ thread \in Calls \cup {NoCall}
  BY DEF IInv, TypeOK
<1>2. sent' = sent /\ called' = called /\ done' = done
  BY DEF ServeBackend, proxyVars, StartCommand, RefuseCommand, ReadResponse, Timeout
<1>3. CASE StartCommand
  BY <1>2, <1>3 DEF StartCommand, Progress
<1>4. CASE RefuseCommand
  <2>1. Head(cmdChan) = cmdChan[1] /\ cmdChan[1] \in Calls /\ answer[cmdChan[1]] = NoReply
    <3>1. cmdChan \in Seq(Calls) /\ cmdChan # <<>>
      BY <1>4 DEF RefuseCommand, IInv, TypeOK
    <3>2. Len(cmdChan) \in Nat \ {0} /\ Head(cmdChan) = cmdChan[1] /\ cmdChan[1] \in Calls
      BY <3>1, EmptySeq, ElementOfSeq
    <3> QED BY <3>2 DEF IInv, Placed, Waiting
  <2> QED BY <1>1, <1>2, <1>4, <2>1 DEF RefuseCommand, Progress
<1>5. CASE ReadResponse \/ Timeout
  <2>1. /\ thread \in Calls /\ answer[thread] = NoReply
        /\ \E v : answer' = [answer EXCEPT ![thread] = v]
    BY <1>1, <1>5 DEF ReadResponse, Timeout, IInv, Placed, Waiting
  <2> QED BY <1>1, <1>2, <2>1 DEF Progress
<1> QED BY <1>3, <1>4, <1>5 DEF ServeBackend

LEMMA TransmitProgress ==
  ASSUME IInv, Types, Transmit
  PROVE  Progress /\ called' = called /\ sent' \subseteq done'
<1>1. /\ done' = done \cup {Head(requests)} /\ answer' = answer /\ called' = called
      /\ sent' \in {sent, sent \cup {Head(requests)}}
  BY DEF Transmit, Concentratord
<1>2. Head(requests) \notin done
  <2>1. requests \in Seq(Calls) /\ requests # <<>>
    BY DEF Transmit, Concentratord, IInv, TypeOK
  <2>2. Len(requests) \in Nat \ {0} /\ Head(requests) = requests[1]
    BY <2>1, EmptySeq
  <2> QED BY <2>2 DEF IInv, Placed
<1> QED BY <1>1, <1>2 DEF Progress, Types

\* Of whatever makes no call for a request, and leaves the proxy alone.
LEMMA QuietStep ==
  ASSUME ProxyInv, IInv', Progress, sent' \subseteq done',
         UNCHANGED <<inbox, serving, handling, item, status, response, reply>>,
         \A c \in Attempts : c \in called' => c \in called
  PROVE  ProxyInv'
<1>1. \A r \in Requests : \A k \in DOMAIN Items[r] :
        /\ Items[r][k] \in called' => Items[r][k] \in called
        /\ Failed(Items[r][k]) => Failed(Items[r][k])'
        /\ Items[r][k] \in sent => Items[r][k] \in sent'
  BY ItemIsCall, FailedStays DEF Progress
<1>2. /\ inbox' = inbox /\ serving' = serving /\ handling' = handling /\ item' = item
      /\ status' = status /\ response' = response /\ reply' = reply
  OBVIOUS
<1>3. Types'
  BY <1>2 DEF ProxyInv, Types
<1>4. InOnePlace'
  <2>1. \A r \in Requests : Fresh(r) => Fresh(r)'
    BY <1>1 DEF Fresh
  <2>2. serving # NoRequest => serving \in Requests
    BY DEF ProxyInv, Types
  <2> QED BY <1>2, <2>1, <2>2 DEF ProxyInv, InOnePlace
<1>5. Trying'
  <2>1. handling # NoRequest => handling \in Requests
    BY DEF ProxyInv, Types
  <2> QED BY <1>1, <1>2, <2>1 DEF ProxyInv, Trying
<1>6. InOrder'
  BY <1>1 DEF ProxyInv, InOrder
<1>7. Written'
  BY DEF ProxyInv, Written
<1>8. Truthful'
  <2>1. \A r \in Requests : \A a : Truth(r, a) =>
          (Kind[r] = "relay" =>
            /\ a.what = "ack" => \A k \in DOMAIN Items[r] :
                 /\ a.items[k] = "OK" => Items[r][k] \in sent'
                 /\ a.items[k] = "IGNORED" => Items[r][k] \notin called'
                 /\ a.items[k] # "INTERNAL_ERROR" =>
                      \A j \in k + 1 .. Len(Items[r]) : a.items[j] = "IGNORED"
            /\ a = Empty => \A k \in DOMAIN Items[r] :
                 Failed(Items[r][k])' \/ Items[r][k] \notin called')
    BY <1>1 DEF Truth
  <2>2. serving # NoRequest => serving \in Requests
    BY DEF ProxyInv, Types
  <2>3. \A r \in Requests : Truth(r, reply[r])'
    BY <1>2, <2>1 DEF ProxyInv, Truthful, Truth
  <2>4. serving # NoRequest => Truth(serving, response)'
    BY <1>2, <2>1, <2>2 DEF ProxyInv, Truthful, Truth
  <2> QED BY <1>2, <2>3, <2>4 DEF Truthful
<1> QED BY <1>3, <1>4, <1>5, <1>6, <1>7, <1>8 DEF ProxyInv

\* Backend's steps are steps of the path whatever the proxy does.
LEMMA OtherCallStep ==
  ASSUME ProxyInv, NEW c \in Calls, OtherCall(c)
  PROVE  ProxyInv'
<1>1. /\ SendCommand(c) /\ c \notin Attempts
      /\ UNCHANGED <<inbox, serving, handling, item, status, response, reply>> /\ sent' = sent
  BY DEF OtherCall, proxyVars
<1>2. IInv'
  BY <1>1, SendCommandKeeps DEF ProxyInv
<1>3. Progress /\ called' = called \cup {c}
  BY <1>1, SendProgress
<1>4. sent' \subseteq done'
  BY <1>1, <1>3 DEF Progress, ProxyInv, Types
<1> QED BY <1>1, <1>2, <1>3, <1>4, QuietStep

LEMMA ServeStep ==
  ASSUME ProxyInv, ServeBackend
  PROVE  ProxyInv'
<1>1. /\ UNCHANGED <<inbox, serving, handling, item, status, response, reply>> /\ sent' = sent
      /\ StartCommand \/ RefuseCommand \/ ReadResponse \/ Timeout
  BY DEF ServeBackend, proxyVars
<1>2. IInv'
  BY <1>1, StartCommandKeeps, RefuseCommandKeeps, ReadResponseKeeps, TimeoutKeeps DEF ProxyInv
<1>3. Progress /\ called' = called /\ done' = done
  BY ServeProgress DEF ProxyInv
<1>4. sent' \subseteq done'
  BY <1>1, <1>3 DEF ProxyInv, Types
<1> QED BY <1>1, <1>2, <1>3, <1>4, QuietStep

LEMMA TransmitStep ==
  ASSUME ProxyInv, Transmit
  PROVE  ProxyInv'
<1>1. /\ UNCHANGED <<inbox, serving, handling, item, status, response, reply>>
      /\ Concentratord
  BY DEF Transmit
<1>2. IInv'
  BY <1>1, ConcentratordKeeps DEF ProxyInv
<1>3. Progress /\ called' = called /\ sent' \subseteq done'
  BY TransmitProgress DEF ProxyInv
<1> QED BY <1>1, <1>2, <1>3, QuietStep

-----------------------------------------------------------------------------
(***************************************************************************)
(* Steps of the command loop and of the thread.                            *)
(***************************************************************************)
LEMMA SendItemStep ==
  ASSUME ProxyInv, SendItem
  PROVE  ProxyInv'
<1> DEFINE r == handling
           c == Items[r][item]
<1>1. /\ r \in Requests /\ r = serving /\ response = None /\ item \in DOMAIN Items[r]
      /\ c \in Encodable /\ SendCommand(c)
      /\ UNCHANGED <<inbox, serving, handling, item, status, response, reply>> /\ sent' = sent
  BY DEF SendItem, Sends, Current, proxyVars, ProxyInv, Types, InOnePlace
<1>2. c \in Calls
  BY <1>1, ItemIsCall
<1>3. IInv'
  BY <1>1, <1>2, SendCommandKeeps DEF ProxyInv
<1>4. Progress /\ called' = called \cup {c}
  BY <1>1, <1>2, SendProgress
<1>5. \A s \in Requests : \A k \in DOMAIN Items[s] :
        /\ Failed(Items[s][k]) => Failed(Items[s][k])'
        /\ Items[s][k] \in called' => Items[s][k] \in called \/ (s = r /\ k = item)
  BY <1>1, <1>4, ItemIsCall, FailedStays, OneRequestPerCall
<1> HIDE DEF r, c
<1>6. Types'
  BY <1>1, <1>4 DEF ProxyInv, Types, Progress
<1>7. \A s \in Requests : s # serving /\ Fresh(s) => Fresh(s)'
  BY <1>1, <1>5 DEF Fresh
<1>8. InOnePlace'
  BY <1>1, <1>7 DEF ProxyInv, InOnePlace, r
<1>9. Trying'
  BY <1>1, <1>5, ItemIsCall DEF ProxyInv, Trying, r
<1>10. \A s \in Requests : \A k \in DOMAIN Items[s] :
         s = r /\ k < item => Failed(Items[s][k])'
  BY <1>1, <1>5 DEF ProxyInv, Trying, r
<1>11. InOrder'
  <2> SUFFICES ASSUME NEW s \in Requests, NEW j \in DOMAIN Items[s], NEW k \in DOMAIN Items[s],
                      j < k, Items[s][k] \in called'
               PROVE  Failed(Items[s][j])'
    BY DEF InOrder
  <2>1. CASE Items[s][k] \in called
    BY <1>5, <2>1 DEF ProxyInv, InOrder
  <2>2. CASE s = r /\ k = item
    BY <1>10, <2>2
  <2> QED BY <1>5, <2>1, <2>2
<1>12. Written'
  BY <1>1, <1>4 DEF ProxyInv, Written
<1>13. \A s \in Requests : Truth(s, reply[s])'
  <2> SUFFICES ASSUME NEW s \in Requests PROVE Truth(s, reply[s])'
    OBVIOUS
  <2>1. CASE s = r
    BY <1>1, <2>1, NoneIsNoAnswer DEF ProxyInv, InOnePlace, Truth, r
  <2>2. CASE s # r
    BY <1>1, <1>5, <2>2 DEF ProxyInv, Truthful, Truth
  <2> QED BY <2>1, <2>2
<1>14. Truth(serving, response)'
  BY <1>1, NoneIsNoAnswer DEF Truth
<1> QED BY <1>3, <1>6, <1>8, <1>9, <1>11, <1>12, <1>13, <1>14 DEF ProxyInv, Truthful

\* Steps that change only where requests are and what is said of them.
LEMMA LocalStep ==
  ASSUME ProxyInv, UNCHANGED <<vars, sent>>
  PROVE  /\ IInv' /\ InOrder' /\ Written' /\ sent' \subseteq done'
         /\ \A r \in Requests : Fresh(r)' = Fresh(r)
         /\ \A c \in Calls : Failed(c)' = Failed(c)
         /\ called' = called /\ answer' = answer
<1>1. /\ cmdChan' = cmdChan /\ thread' = thread /\ expecting' = expecting
      /\ requests' = requests /\ replies' = replies /\ called' = called /\ done' = done
      /\ answer' = answer /\ sent' = sent
  BY DEF vars
<1>2. IInv'
  BY <1>1, BackendNext DEF ProxyInv, vars
<1>3. \A c : Failed(c)' = Failed(c)
  BY <1>1 DEF Failed
<1>4. \A r \in Requests : Fresh(r)' = Fresh(r)
  BY <1>1 DEF Fresh
<1>5. InOrder' /\ Written' /\ sent' \subseteq done'
  BY <1>1, <1>3 DEF ProxyInv, InOrder, Written, Types
<1> QED BY <1>1, <1>2, <1>3, <1>4, <1>5

LEMMA LocalTruth ==
  ASSUME UNCHANGED <<vars, sent>>, NEW r, NEW a, Truth(r, a),
         reply'[r] = a
  PROVE  Truth(r, reply[r])'
  BY DEF Truth, Failed, vars

LEMMA LocalResponse ==
  ASSUME UNCHANGED <<vars, sent>>, NEW r, NEW a, Truth(r, a),
         serving' = r, response' = a
  PROVE  Truth(serving, response)'
  BY DEF Truth, Failed, vars

LEMMA AskStep ==
  ASSUME ProxyInv, NEW r \in Requests, Ask(r)
  PROVE  ProxyInv'
<1>1. /\ r # serving /\ reply[r] = None /\ r \notin ToSet(inbox)
      /\ inbox' = Append(inbox, r)
      /\ UNCHANGED <<vars, sent>> /\ UNCHANGED <<serving, handling, item, status, response, reply>>
  BY DEF Ask, Asked
<1>2. /\ inbox' \in Seq(Requests) /\ Len(inbox) \in Nat /\ Len(inbox') = Len(inbox) + 1
      /\ \A j \in 1 .. Len(inbox) : inbox'[j] = inbox[j]
      /\ inbox'[Len(inbox) + 1] = r
      /\ \A j \in 1 .. Len(inbox) : inbox[j] # r
  <2>1. inbox \in Seq(Requests)
    BY DEF ProxyInv, Types
  <2>2. \A j \in 1 .. Len(inbox) : inbox[j] \in ToSet(inbox)
    BY <2>1, LenProperties DEF ToSet
  <2> QED BY <1>1, <2>1, <2>2, AppendProperties, LenProperties
<1>3. Types'
  BY <1>1, <1>2, LocalStep DEF ProxyInv, Types
<1>4. InOnePlace'
  <2>1. \A j, k \in 1 .. Len(inbox') : inbox'[j] = inbox'[k] => j = k
    BY <1>2 DEF ProxyInv, InOnePlace
  <2>2. \A j \in 1 .. Len(inbox') : inbox'[j] # serving' /\ reply'[inbox'[j]] = None
    BY <1>1, <1>2 DEF ProxyInv, InOnePlace
  <2>3. serving \in Requests \cup {NoRequest}
    BY DEF ProxyInv, Types
  <2> QED BY <1>1, <2>1, <2>2, <2>3, LocalStep DEF ProxyInv, InOnePlace
<1>5. Trying'
  BY <1>1, LocalStep, ItemIsCall DEF ProxyInv, Trying, Types
<1>6. Truthful'
  BY <1>1, LocalTruth, LocalResponse DEF ProxyInv, Truthful
<1> QED BY <1>1, <1>3, <1>4, <1>5, <1>6, LocalStep DEF ProxyInv

LEMMA ReceiveStep ==
  ASSUME ProxyInv, Receive
  PROVE  ProxyInv'
<1> DEFINE r == Head(inbox)
<1>1. /\ serving = NoRequest /\ inbox # <<>> /\ inbox' = Tail(inbox)
      /\ UNCHANGED <<vars, sent>> /\ UNCHANGED <<handling, item, status, response>>
      /\ \/ Kind[r] = "garbage" /\ reply' = [reply EXCEPT ![r] = Empty] /\ serving' = serving
         \/ Kind[r] # "garbage" /\ serving' = r /\ reply' = reply
  BY DEF Receive
<1>2. /\ r \in Requests /\ inbox' \in Seq(Requests) /\ Len(inbox) \in Nat \ {0}
      /\ r = inbox[1]
      /\ Len(inbox') = Len(inbox) - 1 /\ \A j \in 1 .. Len(inbox') : inbox'[j] = inbox[j + 1]
  <2>1. inbox \in Seq(Requests)
    BY DEF ProxyInv, Types
  <2> QED BY <1>1, <2>1, HeadTailProperties, EmptySeq
<1> HIDE DEF r
<1>3. /\ handling = NoRequest /\ response = None /\ reply[r] = None /\ Fresh(r)
      /\ \A j \in 1 .. Len(inbox') : inbox'[j] # r /\ reply[inbox'[j]] = None
      /\ \A j, k \in 1 .. Len(inbox') : inbox'[j] = inbox'[k] => j = k
      /\ reply = [s \in Requests |-> reply[s]]
  <2>1. handling = NoRequest /\ response = None
    BY <1>1 DEF ProxyInv, InOnePlace
  <2>2. reply[r] = None /\ Fresh(r)
    BY <1>1, <1>2 DEF ProxyInv, InOnePlace
  <2>3. \A j \in 1 .. Len(inbox') : j + 1 \in 1 .. Len(inbox) /\ j + 1 # 1
    BY <1>2
  <2>4. \A j \in 1 .. Len(inbox') : inbox'[j] # r /\ reply[inbox'[j]] = None
    BY <1>2, <2>3 DEF ProxyInv, InOnePlace
  <2>5. \A j, k \in 1 .. Len(inbox') : inbox'[j] = inbox'[k] => j = k
    BY <1>2, <2>3 DEF ProxyInv, InOnePlace
  <2> QED BY <2>1, <2>2, <2>4, <2>5 DEF ProxyInv, Types
<1>4. \A s \in Requests : reply'[s] = reply[s] \/ (s = r /\ Kind[r] = "garbage" /\ reply'[s] = Empty)
  BY <1>1, <1>3
<1>5. Types'
  BY <1>1, <1>2, <1>3, LocalStep DEF ProxyInv, Types
<1>6. \A j \in 1 .. Len(inbox') : inbox'[j] \in Requests
  BY <1>2, ElementOfSeq
<1>7. InOnePlace'
  <2>1. \A j \in 1 .. Len(inbox') : inbox'[j] # serving' /\ reply'[inbox'[j]] = None
    BY <1>1, <1>2, <1>3, <1>4, <1>6
  <2>2. serving' # NoRequest => reply'[serving'] = None /\ Fresh(serving)'
    BY <1>1, <1>2, <1>3 DEF Fresh, vars
  <2>3. \A s \in Requests : reply'[s] = None /\ s # serving' => Fresh(s)'
    BY <1>1, <1>2, <1>3, <1>4, LocalStep DEF ProxyInv, InOnePlace
  <2> QED BY <1>1, <1>3, <2>1, <2>2, <2>3 DEF InOnePlace
<1>8. Trying'
  BY <1>1, <1>3 DEF Trying
<1>9. Truthful'
  <2>1. \A s \in Requests : Truth(s, reply'[s])
    BY <1>4 DEF ProxyInv, Truthful, Truth
  <2>2. \A s \in Requests : Truth(s, reply[s])'
    BY <1>1, <2>1, LocalTruth
  <2>3. Truth(serving', None)
    BY NoneIsNoAnswer DEF Truth
  <2>4. Truth(serving, response)'
    BY <1>1, <1>3, <2>3, LocalResponse
  <2> QED BY <2>2, <2>4 DEF Truthful
<1> QED BY <1>1, <1>5, <1>7, <1>8, <1>9, LocalStep DEF ProxyInv

LEMMA ReplyStep ==
  ASSUME ProxyInv, Reply
  PROVE  ProxyInv'
<1>1. /\ serving # NoRequest /\ response # None
      /\ reply' = [reply EXCEPT ![serving] = response]
      /\ serving' = NoRequest /\ response' = None
      /\ UNCHANGED <<vars, sent>> /\ UNCHANGED <<inbox, handling, item, status>>
  BY DEF Reply
<1>2. /\ handling = NoRequest /\ serving \in Requests
      /\ reply = [s \in Requests |-> reply[s]]
  BY <1>1 DEF ProxyInv, Types, InOnePlace
<1>3. /\ reply' = [s \in Requests |-> reply'[s]] /\ reply'[serving] = response
      /\ \A s \in Requests : s # serving => reply'[s] = reply[s]
  BY <1>1, <1>2
<1>4. Types'
  BY <1>1, <1>3, LocalStep DEF ProxyInv, Types
<1>5. InOnePlace'
  <2>1. \A j \in 1 .. Len(inbox) : inbox[j] \in Requests
    BY ElementOfSeq DEF ProxyInv, Types
  <2>2. \A j \in 1 .. Len(inbox') : inbox'[j] # serving' /\ reply'[inbox'[j]] = None
    BY <1>1, <1>3, <2>1 DEF ProxyInv, InOnePlace
  <2>3. \A s \in Requests : reply'[s] = None => Fresh(s)'
    BY <1>1, <1>3, LocalStep DEF ProxyInv, InOnePlace
  <2> QED BY <1>1, <1>2, <2>2, <2>3 DEF ProxyInv, InOnePlace
<1>6. Trying'
  BY <1>1, <1>2 DEF Trying
<1>7. Truthful'
  <2>1. \A s \in Requests : Truth(s, reply'[s])
    BY <1>1, <1>3 DEF ProxyInv, Truthful
  <2>2. \A s \in Requests : Truth(s, reply[s])'
    BY <1>1, <2>1, LocalTruth
  <2> QED BY <1>1, <2>2 DEF Truthful
<1> QED BY <1>1, <1>4, <1>5, <1>6, <1>7, LocalStep DEF ProxyInv

LEMMA HandleStep ==
  ASSUME ProxyInv, Handle
  PROVE  ProxyInv'
<1>1. /\ handling = NoRequest /\ serving # NoRequest /\ response = None
      /\ handling' = serving /\ item' = 1
      /\ status' = [k \in DOMAIN Items[serving] |-> "IGNORED"]
      /\ UNCHANGED <<vars, sent>> /\ UNCHANGED <<inbox, serving, response, reply>>
  BY DEF Handle
<1>2. serving \in Requests /\ Fresh(serving)
  BY <1>1 DEF ProxyInv, Types, InOnePlace
<1>3. Types'
  BY <1>1, <1>2, LocalStep DEF ProxyInv, Types
<1>4. InOnePlace'
  BY <1>1, LocalStep DEF ProxyInv, InOnePlace
<1>5. Trying'
  <2>1. DOMAIN Items[serving] = 1 .. Len(Items[serving]) /\ Len(Items[serving]) \in Nat
    BY <1>2, ItemIsCall
  <2>2. \A k \in DOMAIN Items[serving] : ~ (k < 1) /\ Items[serving][k] \notin called'
    BY <1>1, <1>2, <2>1, LocalStep DEF Fresh
  <2> QED BY <1>1, <2>2 DEF Trying
<1>6. Truthful'
  BY <1>1, LocalTruth, LocalResponse DEF ProxyInv, Truthful
<1> QED BY <1>1, <1>3, <1>4, <1>5, <1>6, LocalStep DEF ProxyInv

\* The loop is done with a request; what it says of it is true.
LEMMA RespondStep ==
  ASSUME ProxyInv, handling # NoRequest, UNCHANGED vars,
         NEW a, Respond(a), Truth(handling, a), a # None
  PROVE  ProxyInv'
<1>1. /\ response' = a /\ handling' = NoRequest
      /\ UNCHANGED <<vars, sent>> /\ UNCHANGED <<inbox, serving, item, reply>>
  BY DEF Respond
<1>2. handling = serving
  BY DEF ProxyInv, InOnePlace
<1>3. Types'
  BY <1>1, LocalStep DEF ProxyInv, Types
<1>4. InOnePlace'
  BY <1>1, <1>2, LocalStep DEF ProxyInv, InOnePlace
<1>5. Trying'
  BY <1>1 DEF Trying
<1>6. Truthful'
  <2>1. \A s \in Requests : Truth(s, reply[s])'
    BY <1>1, LocalTruth DEF ProxyInv, Truthful
  <2>2. Truth(serving, response)'
    BY <1>1, <1>2, LocalResponse
  <2> QED BY <2>1, <2>2 DEF Truthful
<1> QED BY <1>1, <1>3, <1>4, <1>5, <1>6, LocalStep DEF ProxyInv

LEMMA OtherResponses ==
  ASSUME NEW r, Kind[r] # "relay", NEW a
  PROVE  Truth(r, a)
  BY DEF Truth

LEMMA ResponsesDiffer ==
  /\ Empty # None /\ Plain("id") # None /\ Plain("ack") # None
  /\ \A s : Ack(s) # None /\ Ack(s) # Empty /\ Ack(s).what = "ack" /\ Ack(s).items = s
<1>1. /\ None.what = "none" /\ Empty.what = "empty" /\ Plain("id").what = "id"
      /\ Plain("ack").what = "ack"
      /\ \A s : Ack(s).what = "ack" /\ Ack(s).items = s
  BY DEF None, Empty, Plain, Ack
<1> QED BY <1>1

LEMMA HandleHereStep ==
  ASSUME ProxyInv, HandleHere
  PROVE  ProxyInv'
<1>1. /\ handling # NoRequest /\ UNCHANGED vars /\ Kind[handling] # "relay"
      /\ Respond(Empty) \/ Respond(Plain("id")) \/ Respond(Plain("ack"))
  BY DEF HandleHere
<1> QED BY <1>1, OtherResponses, ResponsesDiffer, RespondStep

\* What is known of the windows of the request that is being handled.
LEMMA Handling ==
  ASSUME ProxyInv, handling # NoRequest
  PROVE  /\ handling \in Requests /\ item \in Nat \ {0}
         /\ Len(Items[handling]) \in Nat /\ DOMAIN Items[handling] = 1 .. Len(Items[handling])
         /\ DOMAIN status = DOMAIN Items[handling]
         /\ \A k \in DOMAIN Items[handling] :
              /\ k < item => status[k] = "INTERNAL_ERROR" /\ Failed(Items[handling][k])
              /\ k >= item => status[k] = "IGNORED"
              /\ k > item => Items[handling][k] \notin called
<1>1. handling \in Requests
  BY DEF ProxyInv, Types
<1> QED BY <1>1, ItemIsCall DEF ProxyInv, Trying

LEMMA FailItemStep ==
  ASSUME ProxyInv, FailItem
  PROVE  ProxyInv'
<1>1. /\ handling # NoRequest /\ UNCHANGED vars /\ Respond(Empty)
      /\ item \in DOMAIN Items[handling] /\ Items[handling][item] \notin Encodable
  BY DEF FailItem, Sends, Current
<1>2. Items[handling][item] \notin called
  BY <1>1, Handling, ItemIsCall DEF ProxyInv, Written
<1>3. \A k \in DOMAIN Items[handling] :
        Failed(Items[handling][k]) \/ Items[handling][k] \notin called
  <2> SUFFICES ASSUME NEW k \in DOMAIN Items[handling]
               PROVE  Failed(Items[handling][k]) \/ Items[handling][k] \notin called
    OBVIOUS
  <2>1. k \in Nat /\ item \in Nat
    BY <1>1, Handling
  <2>2. k < item \/ k = item \/ k > item
    BY <2>1
  <2> QED BY <1>1, <1>2, <2>2, Handling
<1>4. Truth(handling, Empty)
  BY <1>3, NoneIsNoAnswer DEF Truth
<1> QED BY <1>1, <1>4, ResponsesDiffer, RespondStep

\* What the answer to the current call says of it.
LEMMA CurrentAnswer ==
  ASSUME ProxyInv, Answered
  PROVE  /\ handling # NoRequest /\ item \in DOMAIN Items[handling]
         /\ Acknowledged(Current) => Current \in sent
         /\ ~ Acknowledged(Current) => Failed(Current)
<1>1. /\ handling # NoRequest /\ item \in DOMAIN Items[handling] /\ answer[Current] # NoReply
  BY DEF Answered, Sends
<1>2. Current \in Calls
  BY <1>1, Handling, ItemIsCall DEF Current
<1>3. /\ answer[Current] \in {Current, Error}
      /\ answer[Current] = Current => Current \in done
  BY <1>1, <1>2 DEF ProxyInv, IInv, AnswersMatch, Placed
<1>4. Error \notin sent
  BY DEF ProxyInv, Types, IInv, TypeOK
<1> QED BY <1>1, <1>3, <1>4 DEF Acknowledged, Failed

LEMMA ItemSentStep ==
  ASSUME ProxyInv, ItemSent
  PROVE  ProxyInv'
<1>1. /\ handling # NoRequest /\ item \in DOMAIN Items[handling] /\ Current \in sent
      /\ UNCHANGED vars /\ status' = [status EXCEPT ![item] = "OK"]
      /\ Respond(IF Kind[handling] = "relay" THEN Ack(status') ELSE Empty)
  BY CurrentAnswer DEF ItemSent
<1>2. /\ \A k \in DOMAIN Items[handling] :
           status'[k] = IF k = item THEN "OK" ELSE status[k]
  BY <1>1, Handling
<1>3. CASE Kind[handling] = "relay"
  <2>1. ASSUME NEW k \in DOMAIN Items[handling]
        PROVE  /\ status'[k] = "OK" => Items[handling][k] \in sent
               /\ status'[k] = "IGNORED" => Items[handling][k] \notin called
               /\ status'[k] # "INTERNAL_ERROR" =>
                    \A j \in k + 1 .. Len(Items[handling]) : status'[j] = "IGNORED"
    <3>1. k \in Nat /\ item \in Nat /\ k \in 1 .. Len(Items[handling])
      BY <1>1, Handling
    <3>2. CASE k < item
      BY <1>1, <1>2, <2>1, <3>1, <3>2, Handling
    <3>3. CASE k = item \/ k > item
      <4>1. \A j \in k + 1 .. Len(Items[handling]) : j \in DOMAIN Items[handling] /\ j > item
        BY <1>1, <3>1, <3>3, Handling
      <4> QED BY <1>1, <1>2, <2>1, <3>1, <3>3, <4>1, Handling DEF Current
    <3> QED BY <3>1, <3>2, <3>3
  <2>2. Truth(handling, Ack(status'))
    BY <2>1, ResponsesDiffer DEF Truth
  <2> QED BY <1>1, <1>3, <2>2, ResponsesDiffer, RespondStep
<1>4. CASE Kind[handling] # "relay"
  BY <1>1, <1>4, OtherResponses, ResponsesDiffer, RespondStep
<1> QED BY <1>3, <1>4

LEMMA ItemFailedStep ==
  ASSUME ProxyInv, ItemFailed
  PROVE  ProxyInv'
<1>1. /\ handling # NoRequest /\ item \in DOMAIN Items[handling] /\ Failed(Current)
      /\ status' = [status EXCEPT ![item] = "INTERNAL_ERROR"] /\ item' = item + 1
      /\ UNCHANGED <<vars, sent>> /\ UNCHANGED <<inbox, serving, handling, response, reply>>
  BY CurrentAnswer DEF ItemFailed, NextItem
<1>2. Types' /\ InOnePlace'
  BY <1>1, LocalStep DEF ProxyInv, Types, InOnePlace
<1>3. Trying'
  <2>1. /\ item' \in Nat \ {0}
        /\ DOMAIN status' = DOMAIN Items[handling]
    BY <1>1, Handling
  <2>2. ASSUME NEW k \in DOMAIN Items[handling]
        PROVE  /\ k < item' => status'[k] = "INTERNAL_ERROR" /\ Failed(Items[handling][k])
               /\ k >= item' => status'[k] = "IGNORED"
               /\ k > item' => Items[handling][k] \notin called
    <3>1. k \in Nat /\ item \in Nat
      BY <1>1, Handling
    <3>2. status'[k] = IF k = item THEN "INTERNAL_ERROR" ELSE status[k]
      BY <1>1, Handling
    <3> QED BY <1>1, <3>1, <3>2, Handling DEF Current
  <2>3. handling \in Requests
    BY <1>1, Handling
  <2>4. \A k \in DOMAIN Items[handling] : Items[handling][k] \in Calls
    BY <2>3, ItemIsCall
  <2> QED BY <1>1, <2>1, <2>2, <2>4 DEF Trying, Failed, vars
<1>4. Truthful'
  BY <1>1, LocalTruth, LocalResponse DEF ProxyInv, Truthful
<1> QED BY <1>1, <1>2, <1>3, <1>4, LocalStep DEF ProxyInv

LEMMA CommandFailedStep ==
  ASSUME ProxyInv, CommandFailed
  PROVE  ProxyInv'
<1>1. handling # NoRequest /\ UNCHANGED vars /\ Respond(Empty) /\ Kind[handling] = "mesh"
  BY DEF CommandFailed, Answered, Sends
<1> QED BY <1>1, OtherResponses, ResponsesDiffer, RespondStep

LEMMA AllFailedStep ==
  ASSUME ProxyInv, AllFailed
  PROVE  ProxyInv'
<1>1. /\ handling # NoRequest /\ item \notin DOMAIN Items[handling]
      /\ UNCHANGED vars /\ Respond(Ack(status))
  BY DEF AllFailed, Sends
<1>2. \A k \in DOMAIN Items[handling] : k < item
  BY <1>1, Handling
<1>3. \A k \in DOMAIN Items[handling] : status[k] = "INTERNAL_ERROR"
  BY <1>1, <1>2, Handling
<1>4. Truth(handling, Ack(status))
  BY <1>3, ResponsesDiffer DEF Truth
<1> QED BY <1>1, <1>4, ResponsesDiffer, RespondStep

-----------------------------------------------------------------------------
LEMMA ProxyStep == ProxyInv /\ [ProxyNext]_allVars => ProxyInv'
<1> SUFFICES ASSUME ProxyInv, [ProxyNext]_allVars PROVE ProxyInv'
  OBVIOUS
<1>1. CASE UNCHANGED allVars
  <2>1. UNCHANGED <<vars, sent>>
        /\ UNCHANGED <<inbox, serving, handling, item, status, response, reply>>
    BY <1>1 DEF allVars, proxyVars
  <2>2. IInv'
    BY <2>1, LocalStep
  <2>3. answer' = answer /\ done' = done /\ called' = called /\ sent' = sent
    BY <2>1 DEF vars
  <2>4. Progress /\ sent' \subseteq done'
    BY <2>3 DEF Progress, ProxyInv, Types
  <2> QED BY <2>1, <2>2, <2>3, <2>4, QuietStep
<1>2. CASE CommandLoop
  BY <1>2, HandleStep, HandleHereStep, SendItemStep, FailItemStep, ItemSentStep,
     ItemFailedStep, CommandFailedStep, AllFailedStep DEF CommandLoop
<1>3. CASE Receive \/ Reply \/ Transmit \/ ServeBackend
  BY <1>3, ReceiveStep, ReplyStep, TransmitStep, ServeStep
<1>4. ASSUME NEW r \in Requests, Ask(r) PROVE ProxyInv'
  BY <1>4, AskStep
<1>5. ASSUME NEW c \in Calls, OtherCall(c) PROVE ProxyInv'
  BY <1>5, OtherCallStep
<1> QED BY <1>1, <1>2, <1>3, <1>4, <1>5 DEF ProxyNext

LEMMA ProxyInvariant == ProxySpec => []ProxyInv
  BY ProxyStart, ProxyStep, PTL DEF ProxySpec

(***************************************************************************)
(* The proxy uses the command path as its other callers do: each of its    *)
(* steps is a step of Backend or leaves it alone.  What Backend promises,  *)
(* it promises the proxy (backend.rs:349-371).                             *)
(***************************************************************************)
LEMMA ProxyUsesBackend == ProxySpec => Spec
<1>1. ProxyInv /\ [ProxyNext]_allVars => [Next]_vars
  <2> SUFFICES ASSUME ProxyInv, [ProxyNext]_allVars PROVE [Next]_vars
    OBVIOUS
  <2>1. CASE SendItem
    BY <2>1, Handling, ItemIsCall DEF SendItem, Sends, Current, Next
  <2>2. CASE Transmit \/ ServeBackend
    BY <2>2 DEF Transmit, ServeBackend, Next
  <2>3. ASSUME NEW c \in Calls, OtherCall(c) PROVE [Next]_vars
    BY <2>3 DEF OtherCall, Next
  <2>4. ASSUME NEW r \in Requests, Ask(r) PROVE [Next]_vars
    BY <2>4 DEF Ask
  <2>5. CASE Receive \/ Reply
    BY <2>5 DEF Receive, Reply
  <2>6. CASE CommandLoop /\ ~ SendItem
    BY <2>6 DEF CommandLoop, Handle, HandleHere, FailItem, ItemSent, ItemFailed,
                CommandFailed, AllFailed
  <2>7. CASE UNCHANGED allVars
    BY <2>7 DEF allVars
  <2> QED BY <2>1, <2>2, <2>3, <2>4, <2>5, <2>6, <2>7 DEF ProxyNext
<1>2. ProxyInit => Init
  BY DEF ProxyInit
<1> QED BY <1>1, <1>2, ProxyInvariant, PTL DEF ProxySpec, Spec

(***************************************************************************)
(* So the proxy's calls get the service that CommandService promises: one  *)
(* answer each, "ok" only for a command that was done (proxy.rs:107-131).  *)
(***************************************************************************)
THEOREM ProxyImplementsService == ProxySpec => ServiceSpec
  BY ProxyUsesBackend, BackendImplementsService, PTL

(***************************************************************************)
(* What the server is told of the windows of a downlink is true, whatever  *)
(* the concentratord does and however late (mesh.rs:508-626).              *)
(***************************************************************************)
THEOREM ProxyTellsTheTruth == ProxySpec => []AckIsTrue
<1>1. ProxyInv => AckIsTrue
  <2> SUFFICES ASSUME ProxyInv PROVE AckIsTrue
    OBVIOUS
  <2>1. \A r \in Requests : \A k \in DOMAIN Items[r] :
          Failed(Items[r][k]) \/ Items[r][k] \notin called => answer[Items[r][k]] \notin sent
    <3> SUFFICES ASSUME NEW c \in Calls, Failed(c) \/ c \notin called
                 PROVE  answer[c] \notin sent
      BY ItemIsCall
    <3>1. sent \subseteq Calls
      BY DEF ProxyInv, Types, IInv, TypeOK
    <3> QED BY <3>1 DEF ProxyInv, IInv, Placed, Failed
  <2>2. \A r \in RelayReplies : Kind[r] = "relay" /\ reply[r].what = "ack" /\ r \in Requests
    BY DEF RelayReplies
  <2> QED BY <2>1, <2>2 DEF ProxyInv, Truthful, Truth, AckIsTrue
<1> QED BY <1>1, ProxyInvariant, PTL

(***************************************************************************)
(* A second window is used only when the first had no answer in time       *)
(* (mesh.rs:605-616, backend.rs:442): never a downlink twice by design.    *)
(***************************************************************************)
THEOREM ProxySecondWindow == ProxySpec => []SecondWindowOnlyUnanswered
<1>1. ProxyInv => SecondWindowOnlyUnanswered
  BY DEF ProxyInv, Types, InOrder, Failed, SecondWindowOnlyUnanswered, IInv, TypeOK, Placed
<1> QED BY <1>1, ProxyInvariant, PTL

(***************************************************************************)
(* One command is outstanding at most (backend.rs:435-456).                *)
(***************************************************************************)
THEOREM ProxyOneOutstanding == ProxySpec => []OneOutstanding
<1>1. IInv => OneOutstanding
  <2> SUFFICES ASSUME IInv PROVE OneOutstanding
    OBVIOUS
  <2>1. requests \in Seq(Calls) /\ replies \in Seq(Calls)
    BY DEF IInv, TypeOK
  <2>2. /\ Len(requests) = 0 => requests = <<>>
        /\ Len(replies) = 0 => replies = <<>>
    BY <2>1, EmptySeq
  <2>3. ASSUME thread # NoCall PROVE requests \o replies = <<thread>>
    <3>1. \A s \in Seq(Calls) : Len(s) = 1 => s = <<s[1]>>
      OBVIOUS
    <3>2. CASE Len(requests) = 1 /\ Len(replies) = 0 /\ requests[1] = thread
      <4>1. requests = <<thread>> /\ replies = <<>>
        BY <2>1, <2>2, <3>1, <3>2
      <4>2. requests \o <<>> = requests
        BY <2>1, ConcatEmptySeq
      <4> QED BY <4>1, <4>2
    <3>3. CASE Len(requests) = 0 /\ Len(replies) = 1 /\ replies[1] = thread
      <4>1. requests = <<>> /\ replies = <<thread>>
        BY <2>1, <2>2, <3>1, <3>3
      <4>2. <<>> \o replies = replies
        BY <2>1, ConcatEmptySeq
      <4> QED BY <4>1, <4>2
    <3> QED BY <2>3, <3>2, <3>3 DEF IInv, Outstanding
  <2> QED BY <2>2, <2>3 DEF IInv, Outstanding, OneOutstanding
<1> QED BY <1>1, ProxyInvariant, PTL DEF ProxyInv
=============================================================================
