------------------------------- MODULE Proxy -------------------------------
(***************************************************************************)
(* The command side of the proxy API of a border gateway (proxy.rs).  One  *)
(* thread takes the requests from a ZMQ REP socket, hands each to the      *)
(* command loop, a task, and waits for its response before it replies.     *)
(* The loop does one request at a time.  Downlinks for a relay, with one   *)
(* item per receive window, and mesh commands go to the mesh concentratord *)
(* by way of Backend; the other concentratord, which has a thread of its   *)
(* own, is no more here than what CommandService promises of it.           *)
(***************************************************************************)
EXTENDS Backend, FiniteSets

CONSTANTS Requests,  \* what the server (the MQTT forwarder) asks
          Kind,      \* what each request is
          Items,     \* per request: the calls of send_mesh_command it may take
          Encodable, \* the calls whose mesh packet can be written
          MaxAsked,  \* bound: requests that are asked
          NoRequest

ASSUME RequestsAreKnown ==
  /\ Kind \in [Requests -> {"garbage", "unexpected", "id", "config", "downlink",
                            "relay", "mesh"}]
  /\ Items \in [Requests -> Seq(Calls)]
  /\ \A r, s \in Requests : \A j \in DOMAIN Items[r], k \in DOMAIN Items[s] :
       Items[r][j] = Items[s][k] => r = s /\ j = k
ASSUME NoRequestIsNone == NoRequest \notin Requests

VARIABLES inbox,    \* requests that wait at the REP socket
          serving,  \* the request the thread waits for the response of
          handling, \* the request the command loop works on
          item,     \* the receive window it is at
          status,   \* relay_downlink_lora_packet: the status of each item
          response, \* the oneshot channel: the loop's response to serving
          reply,    \* history: per request, what was replied
          sent      \* history: the calls the concentratord transmitted a frame for

proxyVars == <<inbox, serving, handling, item, status, response, reply, sent>>

\* A response: nothing yet, an empty one, a gateway ID, an acknowledgement.
Plain(what) == [what |-> what, items |-> <<>>]
Ack(items) == [what |-> "ack", items |-> items]
None == Plain("none")
Empty == Plain("empty")

ProxyInit ==
  /\ Init
  /\ inbox = <<>> /\ serving = NoRequest
  /\ handling = NoRequest /\ item = 1 /\ status = <<>> /\ response = None
  /\ reply = [r \in Requests |-> None]
  /\ sent = {}

-----------------------------------------------------------------------------
Asked == ToSet(inbox) \cup {r \in Requests : r = serving \/ reply[r] # None}

\* The server asks each request once.
Ask(r) ==
  /\ r \notin Asked /\ Cardinality(Asked) < MaxAsked
  /\ inbox' = Append(inbox, r)
  /\ UNCHANGED <<vars, serving, handling, item, status, response, reply, sent>>

\* receive_zmq_command: what is no command is answered at once.
Receive ==
  /\ serving = NoRequest /\ inbox # <<>>
  /\ inbox' = Tail(inbox)
  /\ IF Kind[Head(inbox)] = "garbage"
     THEN reply' = [reply EXCEPT ![Head(inbox)] = Empty] /\ UNCHANGED serving
     ELSE serving' = Head(inbox) /\ UNCHANGED reply
  /\ UNCHANGED <<vars, handling, item, status, response, sent>>

\* The thread gets the response and sends the reply.
Reply ==
  /\ serving # NoRequest /\ response # None
  /\ reply' = [reply EXCEPT ![serving] = response]
  /\ serving' = NoRequest /\ response' = None
  /\ UNCHANGED <<vars, inbox, handling, item, status, sent>>

-----------------------------------------------------------------------------
\* The command loop takes the request: every item is first said to be ignored.
Handle ==
  /\ handling = NoRequest /\ serving # NoRequest /\ response = None
  /\ handling' = serving
  /\ item' = 1
  /\ status' = [k \in DOMAIN Items[serving] |-> "IGNORED"]
  /\ UNCHANGED <<vars, inbox, serving, response, reply, sent>>

\* handle_command returns; an error is an empty response.
Respond(r) ==
  /\ response' = r
  /\ handling' = NoRequest
  /\ UNCHANGED <<inbox, serving, item, reply, sent>>

\* What needs no mesh concentratord.  The other one may answer or not.
HandleHere ==
  /\ handling # NoRequest
  /\ \/ Kind[handling] = "unexpected" /\ Respond(Empty)
     \/ Kind[handling] = "id" /\ Respond(Plain("id"))
     \/ Kind[handling] = "config" /\ Respond(Empty)
     \/ Kind[handling] = "downlink" /\ (Respond(Empty) \/ Respond(Plain("ack")))
  /\ UNCHANGED <<vars, status>>

Sends == handling # NoRequest /\ Kind[handling] \in {"relay", "mesh"}
Current == Items[handling][item]

\* The attempt is made: the packet is written and queued for the thread.
SendItem ==
  /\ Sends /\ item \in DOMAIN Items[handling]
  /\ Current \in Encodable
  /\ SendCommand(Current)
  /\ UNCHANGED proxyVars

\* It cannot be written: the request fails, whatever the other items' status.
FailItem ==
  /\ Sends /\ item \in DOMAIN Items[handling]
  /\ Current \notin Encodable
  /\ Respond(Empty)
  /\ UNCHANGED <<vars, status>>

\* Two slips: any answer will do, or one with an item that is not OK.
AcknowledgedIfAnswered(c) == answer[c] # Error
AcknowledgedIfNotOk(c) == answer[c] # Error /\ answer[c] \notin sent

\* backend::mesh: the concentratord has answered, and with an item that is OK.
Acknowledged(c) == answer[c] \in sent

Answered == Sends /\ item \in DOMAIN Items[handling] /\ answer[Current] # NoReply

\* A slip: the failed item is tried again for ever.
ThisItem(k) == k

NextItem(k) == k + 1

\* The item was transmitted: the items after it stay ignored.
ItemSent ==
  /\ Answered /\ Acknowledged(Current)
  /\ status' = [status EXCEPT ![item] = "OK"]
  /\ Respond(IF Kind[handling] = "relay" THEN Ack(status') ELSE Empty)
  /\ UNCHANGED vars

\* The item failed: the next receive window is tried, but a mesh command has none.
ItemFailed ==
  /\ Answered /\ ~ Acknowledged(Current)
  /\ Kind[handling] = "relay"
  /\ status' = [status EXCEPT ![item] = "INTERNAL_ERROR"]
  /\ item' = NextItem(item)
  /\ UNCHANGED <<vars, inbox, serving, handling, response, reply, sent>>

CommandFailed ==
  /\ Answered /\ ~ Acknowledged(Current)
  /\ Kind[handling] = "mesh"
  /\ Respond(Empty)
  /\ UNCHANGED <<vars, status>>

\* All items have been tried.
AllFailed ==
  /\ Sends /\ item \notin DOMAIN Items[handling]
  /\ Respond(Ack(status))
  /\ UNCHANGED <<vars, status>>

CommandLoop ==
  \/ Handle \/ HandleHere \/ SendItem \/ FailItem
  \/ ItemSent \/ ItemFailed \/ CommandFailed \/ AllFailed

-----------------------------------------------------------------------------
\* The concentratord transmits the frame or finds that it cannot: both are answers.
Transmit ==
  /\ Concentratord
  /\ sent' \in {sent, sent \cup {Head(requests)}}
  /\ UNCHANGED <<inbox, serving, handling, item, status, response, reply>>

ServeBackend ==
  /\ StartCommand \/ RefuseCommand \/ ReadResponse \/ Timeout
  /\ UNCHANGED proxyVars

\* Calls of other tasks: a relay has some, a border gateway has none.
Attempts == UNION {{Items[r][k] : k \in DOMAIN Items[r]} : r \in Requests}

OtherCall(c) == c \notin Attempts /\ SendCommand(c) /\ UNCHANGED proxyVars

ProxyNext ==
  \/ \E r \in Requests : Ask(r)
  \/ Receive \/ Reply \/ CommandLoop
  \/ Transmit \/ ServeBackend
  \/ \E c \in Calls : OtherCall(c)

allVars == <<vars, proxyVars>>

ProxySpec == ProxyInit /\ [][ProxyNext]_allVars

\* Two threads and a task that nothing holds up; poll returns.
ProxyFairSpec ==
  /\ ProxySpec
  /\ WF_allVars(Receive) /\ WF_allVars(Reply)
  /\ WF_allVars(CommandLoop) /\ WF_allVars(ServeBackend)

-----------------------------------------------------------------------------
RelayReplies == {r \in Requests : Kind[r] = "relay" /\ reply[r].what = "ack"}

(***************************************************************************)
(* The acknowledgement the server gets for a downlink tells the truth: an  *)
(* item that is OK was transmitted, there is one at most, those before it  *)
(* were tried in vain and those after it never reached the concentratord.  *)
(* A downlink that fails without an acknowledgement had none to give, so   *)
(* no status of an item that was transmitted is lost (mesh.rs:566).        *)
(***************************************************************************)
AckIsTrue ==
  /\ \A r \in RelayReplies : \A k \in DOMAIN Items[r] :
       /\ reply[r].items[k] = "OK" => Items[r][k] \in sent
       /\ reply[r].items[k] = "IGNORED" => Items[r][k] \notin called
       /\ reply[r].items[k] # "INTERNAL_ERROR" =>
            \A j \in k + 1 .. Len(Items[r]) : reply[r].items[j] = "IGNORED"
  /\ \A r \in Requests : Kind[r] = "relay" /\ reply[r] = Empty =>
       \A k \in DOMAIN Items[r] : answer[Items[r][k]] \notin sent

(***************************************************************************)
(* Two receive windows of one downlink are used only when the gateway had  *)
(* no answer for the first: it timed out, and was transmitted all the same *)
(* (mesh.rs:605-616, backend.rs:442).                                      *)
(***************************************************************************)
SecondWindowOnlyUnanswered ==
  \A r \in Requests : \A j, k \in DOMAIN Items[r] :
    j < k /\ {Items[r][j], Items[r][k]} \subseteq sent => answer[Items[r][j]] = Error

(***************************************************************************)
(* A request is never left without a reply, whatever becomes of the        *)
(* concentratord: the REP socket would not take another one.               *)
(***************************************************************************)
RequestsAreAnswered ==
  \A r \in Requests : r \in ToSet(inbox) ~> reply[r] # None
=============================================================================
