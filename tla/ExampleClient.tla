---------------------------- MODULE ExampleClient ----------------------------
(***************************************************************************)
(* The blocking example client of src/examples/utils/example_client.rs.   *)
(* ExampleClient::new loops on Client::new until the Event channel yields *)
(* Connected; each request method draws a fresh MessageId, sends, and     *)
(* runs recv_response!: it takes Events off the channel until one is the  *)
(* awaited Response variant, returns that response's result or "Wrong     *)
(* message_id", panics on Terminated/RestartRequired, skips anything else *)
(* and gives up with "No response" when the channel stays empty for       *)
(* RESPONSE_TIMEOUT_SECS.                                                  *)
(*                                                                         *)
(* The routing Client and the network behind it are the environment: they *)
(* answer a request with a Response of the request's own variant, lose it,*)
(* or answer it late (after the client's timeout), and emit unrelated     *)
(* events.  Time is abstracted: the timeout may fire whenever the channel *)
(* is empty, which is exactly when recv_timeout can return Err.           *)
(***************************************************************************)
EXTENDS Naturals, Sequences, FiniteSets

CONSTANTS
    Calls,         \* the request methods the caller uses (method names)
    Names,         \* names of data items (XorName)
    Values,        \* contents of a mutable-data entry
    MaxRequests,   \* bound on MessageId::new(): requests per behaviour
    MaxEvents,     \* bound on Terminated, RestartRequired and other events
    NoValue        \* no entry stored under a name; no value in a result

ASSUME MaxRequests \in Nat /\ MaxEvents \in Nat /\ NoValue \notin Values

VARIABLES
    phase,       \* "Connecting" (in new()), "Idle", "Waiting" (in recv_response!), "Panicked"
    call,        \* the request being waited for: [method, msg_id, name, val]
    chan,        \* Receiver<Event>: an mpsc channel, FIFO
    in_flight,   \* requests sent and neither answered nor lost
    store,       \* the network's mutable data entry per name, or NoValue
    next_id,     \* message ids drawn so far (MessageId::new() is fresh)
    events,      \* environment events emitted so far
    attempt,     \* whether the current Client::new attempt has been answered
    returned,    \* what the last finished call returned
    answered     \* history: the msg_ids whose Response reached the channel

client_vars == <<phase, call, next_id, returned>>
net_vars    == <<chan, in_flight, store, events, attempt, answered>>
vars        == <<client_vars, net_vars>>

(***************************************************************************)
(* The request methods: the Request variant each sends and the Response   *)
(* variant its recv_response! waits for.                                  *)
(***************************************************************************)
get_idata          == [request |-> "GetIData",         awaits |-> "GetIData"]
put_idata          == [request |-> "PutIData",         awaits |-> "PutMData"]
get_mdata_shell    == [request |-> "GetMDataShell",    awaits |-> "GetMDataShell"]
list_mdata_entries == [request |-> "ListMDataEntries", awaits |-> "ListMDataEntries"]
\* A copy-pasted method that waits for its neighbour's Response variant.
get_mdata_value_copied == [request |-> "GetMDataValue", awaits |-> "GetMDataShell"]
get_mdata_value    == [request |-> "GetMDataValue",    awaits |-> "GetMDataValue"]
put_mdata          == [request |-> "PutMData",         awaits |-> "PutMData"]

Method(m) ==
    CASE m = "get_idata"          -> get_idata
      [] m = "put_idata"          -> put_idata
      [] m = "get_mdata_shell"    -> get_mdata_shell
      [] m = "list_mdata_entries" -> list_mdata_entries
      [] m = "get_mdata_value"    -> get_mdata_value
      [] m = "put_mdata"          -> put_mdata

NoCall == [method |-> "none", msg_id |-> 0, name |-> NoValue, val |-> NoValue]

ResponseEvent(kind, id, ok, val) ==
    [ev |-> "Response", kind |-> kind, msg_id |-> id, ok |-> ok, val |-> val]
Event(e) == [ev |-> e, kind |-> "none", msg_id |-> 0, ok |-> FALSE, val |-> NoValue]

Front == chan[1]

Init ==
    /\ phase = "Connecting"
    /\ call = NoCall
    /\ chan = <<>>
    /\ in_flight = {}
    /\ store = [n \in Names |-> NoValue]
    /\ next_id = 0
    /\ events = 0
    /\ attempt = FALSE
    /\ returned = [msg_id |-> 0, method |-> "none", name |-> NoValue, result |-> "none", val |-> NoValue]
    /\ answered = {}

(***************************************************************************)
(* ExampleClient::new: the for-loop over receiver.iter().                 *)
(***************************************************************************)
NewConnected ==
    /\ phase = "Connecting" /\ chan # <<>> /\ Front.ev = "Connected"
    /\ phase' = "Idle" /\ chan' = Tail(chan)
    /\ UNCHANGED <<call, next_id, returned, in_flight, store, events, attempt, answered>>

\* Mutant: the loop leaves the for-loop but reuses the terminated Client.
NewRestart_no_new_attempt ==
    /\ phase = "Connecting" /\ chan # <<>> /\ Front.ev = "Terminated"
    /\ chan' = Tail(chan)
    /\ UNCHANGED <<client_vars, in_flight, store, events, attempt, answered>>

\* Terminated: sleep and start a new Client::new attempt.
NewRestart ==
    /\ phase = "Connecting" /\ chan # <<>> /\ Front.ev = "Terminated"
    /\ chan' = Tail(chan) /\ attempt' = FALSE
    /\ UNCHANGED <<client_vars, in_flight, store, events, answered>>

NewSkip ==
    /\ phase = "Connecting" /\ chan # <<>> /\ Front.ev \notin {"Connected", "Terminated"}
    /\ chan' = Tail(chan)
    /\ UNCHANGED <<client_vars, in_flight, store, events, attempt, answered>>

(***************************************************************************)
(* A request method: MessageId::new(), client.<request>(..), then the     *)
(* recv_response! loop.  The unwrap! of the send never fails here.        *)
(***************************************************************************)
\* A request sent under the previous request's MessageId.
Send_stale_id(m, n, v) ==
    /\ phase = "Idle" /\ next_id < MaxRequests
    /\ next_id' = next_id + 1
    /\ call' = [method |-> m, msg_id |-> next_id, name |-> n, val |-> v]
    /\ in_flight' = in_flight \cup {[kind |-> Method(m).request, msg_id |-> next_id,
                                      name |-> n, val |-> v]}
    /\ phase' = "Waiting"
    /\ UNCHANGED <<returned, chan, store, events, attempt, answered>>

Send(m, n, v) ==
    /\ phase = "Idle" /\ next_id < MaxRequests
    /\ next_id' = next_id + 1
    /\ call' = [method |-> m, msg_id |-> next_id + 1, name |-> n, val |-> v]
    /\ in_flight' = in_flight \cup {[kind |-> Method(m).request, msg_id |-> next_id + 1,
                                      name |-> n, val |-> v]}
    /\ phase' = "Waiting"
    /\ UNCHANGED <<returned, chan, store, events, attempt, answered>>

Return(result, val) ==
    /\ phase' = "Idle" /\ call' = NoCall
    /\ returned' = [msg_id |-> call.msg_id, method |-> call.method, name |-> call.name,
                    result |-> result, val |-> val]

Awaited(e) == e.ev = "Response" /\ e.kind = Method(call.method).awaits

\* The awaited variant returned without comparing msg_ids.
RecvOwn_no_msg_id_check ==
    /\ phase = "Waiting" /\ chan # <<>> /\ Awaited(Front)
    /\ Return(IF Front.ok THEN "Ok" ELSE "Err", Front.val)
    /\ chan' = Tail(chan)
    /\ UNCHANGED <<next_id, in_flight, store, events, attempt, answered>>

\* The awaited variant with our msg_id: return its res.
RecvOwn ==
    /\ phase = "Waiting" /\ chan # <<>> /\ Awaited(Front) /\ Front.msg_id = call.msg_id
    /\ Return(IF Front.ok THEN "Ok" ELSE "Err", Front.val)
    /\ chan' = Tail(chan)
    /\ UNCHANGED <<next_id, in_flight, store, events, attempt, answered>>

\* The awaited variant with another msg_id: Err("Wrong message_id").
RecvWrongId ==
    /\ phase = "Waiting" /\ chan # <<>> /\ Awaited(Front) /\ Front.msg_id # call.msg_id
    /\ Return("WrongMsgId", NoValue)
    /\ chan' = Tail(chan)
    /\ UNCHANGED <<next_id, in_flight, store, events, attempt, answered>>

\* Terminated or RestartRequired: disconnected() panics.
RecvDisconnect ==
    /\ phase = "Waiting" /\ chan # <<>> /\ Front.ev \in {"Terminated", "RestartRequired"}
    /\ phase' = "Panicked" /\ chan' = Tail(chan)
    /\ UNCHANGED <<call, next_id, returned, in_flight, store, events, attempt, answered>>

\* A skip that peeks at the event instead of taking it off the channel.
RecvSkip_peek ==
    /\ phase = "Waiting" /\ chan # <<>>
    /\ ~Awaited(Front) /\ Front.ev \notin {"Terminated", "RestartRequired"}
    /\ UNCHANGED <<client_vars, net_vars>>

\* Ok(_) => (): any other event, other Response variants included.
RecvSkip ==
    /\ phase = "Waiting" /\ chan # <<>>
    /\ ~Awaited(Front) /\ Front.ev \notin {"Terminated", "RestartRequired"}
    /\ chan' = Tail(chan)
    /\ UNCHANGED <<client_vars, in_flight, store, events, attempt, answered>>

\* recv_timeout returns Err: Err("No response").
Timeout ==
    /\ phase = "Waiting" /\ chan = <<>>
    /\ Return("NoResponse", NoValue)
    /\ UNCHANGED <<next_id, chan, in_flight, store, events, attempt, answered>>

(***************************************************************************)
(* The environment: the routing Client and the network behind it.         *)
(***************************************************************************)
\* The outcome of a Client::new attempt: Connected, or Terminated.
NetConnect ==
    /\ phase = "Connecting" /\ ~attempt
    /\ \/ chan' = Append(chan, Event("Connected")) /\ UNCHANGED events
       \/ events < MaxEvents /\ events' = events + 1
          /\ chan' = Append(chan, Event("Terminated"))
    /\ attempt' = TRUE
    /\ UNCHANGED <<client_vars, in_flight, store, answered>>

\* The network handles a request: a PutMData stores the entry unless the
\* name is taken, a GetMDataValue reads it; other requests may fail or not.
\* The Response, of the request's own variant, goes onto the channel,
\* however long after the request the client may already have stopped waiting.
Handle(r) ==
    CASE r.kind = "PutMData" ->
            {[ok |-> store[r.name] = NoValue, val |-> NoValue,
              store |-> IF store[r.name] = NoValue THEN [store EXCEPT ![r.name] = r.val] ELSE store]}
      [] r.kind = "GetMDataValue" ->
            {[ok |-> store[r.name] # NoValue, val |-> store[r.name], store |-> store]}
      [] OTHER -> {[ok |-> b, val |-> NoValue, store |-> store] : b \in BOOLEAN}

NetRespond(r) ==
    /\ r \in in_flight
    /\ \E h \in Handle(r) :
          /\ chan' = Append(chan, ResponseEvent(r.kind, r.msg_id, h.ok, h.val))
          /\ store' = h.store
    /\ in_flight' = in_flight \ {r}
    /\ answered' = answered \cup {r.msg_id}
    /\ UNCHANGED <<client_vars, events, attempt>>

\* A request or its response is lost on the way.
NetLose(r) ==
    /\ r \in in_flight
    /\ in_flight' = in_flight \ {r}
    /\ UNCHANGED <<client_vars, chan, store, events, attempt, answered>>

\* The Client emits an event not tied to a request, at any time.
NetEvent(e) ==
    /\ events < MaxEvents
    /\ events' = events + 1
    /\ chan' = Append(chan, Event(e))
    /\ UNCHANGED <<client_vars, in_flight, store, attempt, answered>>

Client ==
    \/ NewConnected \/ NewRestart \/ NewSkip
    \/ \E m \in Calls, n \in Names :
          \E v \in (IF m = "put_mdata" THEN Values ELSE {NoValue}) : Send(m, n, v)
    \/ RecvOwn \/ RecvWrongId \/ RecvDisconnect \/ RecvSkip \/ Timeout

Network ==
    \/ NetConnect
    \/ \E r \in in_flight : NetRespond(r) \/ NetLose(r)
    \/ \E e \in {"Terminated", "RestartRequired", "Other"} : NetEvent(e)

Next == Client \/ Network

Spec == Init /\ [][Next]_vars

\* The receiving thread blocks in recv_timeout and wakes for every event or
\* after RESPONSE_TIMEOUT_SECS: the client's steps are weakly fair.  Each
\* Client::new is given a 90 s bootstrap timeout, after which the Client
\* reports Connected or Terminated: NetConnect is weakly fair.  Otherwise the
\* network gets no fairness: it may lose every request or response.
FairSpec == Spec /\ WF_vars(Client) /\ WF_vars(NetConnect)

-----------------------------------------------------------------------------
Results == {"none", "Ok", "Err", "WrongMsgId", "NoResponse"}
EventKinds == {"Connected", "Terminated", "RestartRequired", "Other", "Response"}

TypeOK ==
    /\ phase \in {"Connecting", "Idle", "Waiting", "Panicked"}
    /\ next_id \in 0 .. MaxRequests /\ events \in 0 .. MaxEvents
    /\ call.msg_id \in 0 .. MaxRequests
    /\ \A i \in 1 .. Len(chan) : chan[i].ev \in EventKinds /\ chan[i].msg_id \in 0 .. MaxRequests
    /\ store \in [Names -> Values \cup {NoValue}]
    /\ returned.result \in Results
    /\ answered \subseteq 1 .. MaxRequests

\* recv_response! gives up with "No response" only for a request whose
\* Response never reached the channel: a call whose answer did arrive
\* returns that answer (the catch-all Ok(_) arm must not swallow it).
TimeoutOnlyIfUnanswered ==
    [][phase = "Waiting" /\ phase' = "Idle" /\ returned'.result = "NoResponse"
            => call.msg_id \notin answered]_vars

\* key_value_store's get prints "Got value" for what get_mdata_value
\* returned as Ok: that is the value the network holds under the name asked
\* for, even when an earlier request timed out and its response is late.
GotValueIsStored ==
    returned.method = "get_mdata_value" /\ returned.result = "Ok" =>
        returned.val = store[returned.name]

\* Every request method returns: recv_response! leaves its loop by a
\* response, a panic, or the timeout, whatever the network does.
CallReturns == phase = "Waiting" ~> phase # "Waiting"

\* ExampleClient::new returns: after each Terminated it builds a new Client
\* and waits for that attempt's outcome, so as long as the Client stops
\* terminating (MaxEvents bounds it), the retry loop ends Connected.
NewConnects == phase = "Connecting" ~> phase # "Connecting"


=============================================================================
