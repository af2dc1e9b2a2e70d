---------------------------- MODULE RpcTransport ----------------------------
(***************************************************************************)
(* How clients reach the download manager of src/rpc.rs: requests over     *)
(* HTTP POST, HTTP GET and websockets, single, in batches and inside       *)
(* system.multicall, who may make them, and the broadcast channel from     *)
(* which every websocket is told what happened.                            *)
(*                                                                         *)
(* The manager is downloads that requests pause (a critical section, then  *)
(* a notification), each call one of its own that is not paused yet, as    *)
(* pausing one twice is an error (the calls' own errors are in RpcQueue),  *)
(* and one run that reports progress (the same two steps).  Abstracted:    *)
(* parameters other than the token, results other than success or error,  *)
(* header syntax, percent and base64 decoding, CORS headers and JSONP.  A  *)
(* request's id is a number, 0 stands for null.                            *)
(***************************************************************************)
EXTENDS Naturals, FiniteSets, SequencesExt

CONSTANTS
    Sockets,    \* websocket connections
    Requests,   \* HTTP requests, POST or GET
    Frames,     \* what a websocket client may send: [shape, items]
    Posts,      \* what a POST client may send, likewise
    Queries,    \* what a GET client may send: [method, id, params]
    Configs,    \* [secret, basic, tls : BOOLEAN], how the server was built
    Capacity,   \* NOTIFICATION_CAPACITY
    Window,     \* messages in flight to a client before send() waits
    MaxFrames,  \* bound: frames one websocket client sends
    MaxEvents   \* bound: progress events of the run

ASSUME CapacityAssumption == Capacity \in Nat
\* The run is no connection.
ASSUME ConnsAssumption == "run" \notin Sockets \cup Requests

VARIABLES
    config,     \* the server's configuration
    running,    \* the process has not exited
    accepting,  \* serve() still accepts connections
    stop,       \* haki.shutdown sent on the shutdown channel
    bus,        \* every notification sent on the broadcast channel, in order
    held,       \* the run took a progress notification under the lock
    events,     \* progress events of the run so far
    conn        \* each connection's task, socket and client

vars == <<config, running, accepting, stop, bus, held, events, conn>>

---------------------------------------------------------------------------
(* Requests. *)

Null == 0
Refused == [id |-> Null, ok |-> FALSE, inner |-> <<>>]
Public == {"listMethods", "multicall"}
Methods == Public \cup {"getVersion", "pause", "shutdown"}

\* What a body asks for: one request, or the items of a batch.
Whole(value) == value.shape \in {"object", "array"}
Items(value) == IF Whole(value) THEN value.items ELSE <<>>

\* The k-th call of an item to process: 0 is the request itself, the others are the
\* entries of a multicall, whose authorisation is RpcRequestAuth::default().
Call(r, k, basic) ==
  IF k = 0
  THEN [id |-> r.id, method |-> r.method, token |-> r.token, basic |-> basic, inner |-> FALSE]
  ELSE [id |-> Null, method |-> r.calls[k].method, token |-> r.calls[k].token,
        basic |-> FALSE, inner |-> TRUE]

\* A query with neither method nor id is its params, whatever they hold.
OfQuery(query) ==
  IF query.params = "bad" THEN [shape |-> "garbage", items |-> <<>>]
  ELSE IF query.method = "" /\ query.id = Null THEN
    IF query.params = "none" THEN [shape |-> "scalar", items |-> <<>>] ELSE query.value
  ELSE [shape |-> "object",
        items |-> <<[object |-> TRUE, id |-> query.id, method |-> query.method,
                     token |-> IF query.params = "none" THEN "none" ELSE query.token,
                     calls |-> <<>>]>>]

\* Items and the entries of a multicall are lists.
Values == Frames \cup Posts \cup {OfQuery(query) : query \in Queries}
IsList(q) == q \in Seq(Range(q))
ASSUME ValuesAssumption == \A value \in Values : Whole(value) =>
  IsList(value.items) /\ \A i \in DOMAIN value.items : IsList(value.items[i].calls)

AllowedByAnyToken(call) ==
  \/ call.method \in Public
  \/ ~config.secret /\ ~config.basic
  \/ config.secret /\ call.token # "none"
  \/ config.basic /\ call.basic
Allowed(call) ==
  \/ call.method \in Public
  \/ ~config.secret /\ ~config.basic
  \/ config.secret /\ call.token = "right"
  \/ config.basic /\ call.basic

Succeeds(call) ==
  /\ call.method \in Methods
  /\ Allowed(call)
  /\ ~(call.inner /\ call.method = "multicall")

Changes(call) == Succeeds(call) /\ call.method = "pause"

Answered(reply, call) ==
  IF call.inner
  THEN [reply EXCEPT ![Len(reply)].inner = Append(@, Succeeds(call))]
  ELSE Append(reply, [id |-> call.id, ok |-> Succeeds(call), inner |-> <<>>])

---------------------------------------------------------------------------
(* Connections. *)

Conns == Sockets \cup Requests

\* pc of a connection's task.  A websocket's task waits for a frame or a
\* notification in "select"; the task of an HTTP request ends with its answer.
\* item and call say where in the value it serves; sent is all that was sent to the
\* client, read how much of it the client has read.
Absent ==
  [kind |-> "none", basic |-> FALSE, pc |-> "none", inbox |-> <<>>, frames |-> 0,
   taken |-> <<>>, item |-> 1, call |-> 0, reply |-> <<>>, owed |-> FALSE, changed |-> {},
   next |-> 0, hand |-> 0, sent |-> <<>>, read |-> 0, left |-> FALSE]

Init ==
  /\ config \in Configs
  /\ running = TRUE /\ accepting = TRUE /\ stop = FALSE
  /\ bus = <<>> /\ held = FALSE /\ events = 0
  /\ conn = [c \in Conns |-> Absent]

Known == <<config, running, accepting>>

\* basic_auth_authorized: no header counts without a configured password.
Headers == IF config.basic THEN BOOLEAN ELSE {FALSE}

\* The upgraded socket's task subscribes before its first select.
ConnectSocket(c) ==
  /\ running /\ accepting /\ conn[c].pc = "none"
  /\ \E basic \in Headers :
       conn' = [conn EXCEPT ![c] =
         [Absent EXCEPT !.kind = "socket", !.basic = basic, !.pc = "select",
                        !.next = Len(bus) + 1]]
  /\ UNCHANGED <<Known, stop, bus, held, events>>

ConnectRequest(c) ==
  /\ running /\ accepting /\ conn[c].pc = "none"
  /\ \E basic \in Headers, value \in Posts \cup {OfQuery(query) : query \in Queries} :
       conn' = [conn EXCEPT ![c] =
         [Absent EXCEPT !.kind = "request", !.basic = basic, !.pc = "select",
                        !.inbox = <<value>>, !.frames = 1]]
  /\ UNCHANGED <<Known, stop, bus, held, events>>

ClientSends(c) ==
  /\ conn[c].kind = "socket" /\ ~conn[c].left /\ conn[c].frames < MaxFrames
  /\ \E value \in Frames :
       conn' = [conn EXCEPT ![c].inbox = Append(@, value), ![c].frames = @ + 1]
  /\ UNCHANGED <<Known, stop, bus, held, events>>

ClientReads(c) ==
  /\ conn[c].read < Len(conn[c].sent) /\ ~conn[c].left
  /\ conn' = [conn EXCEPT ![c].read = @ + 1]
  /\ UNCHANGED <<Known, stop, bus, held, events>>

ClientLeaves(c) ==
  /\ conn[c].kind = "socket" /\ ~conn[c].left
  /\ conn' = [conn EXCEPT ![c].left = TRUE]
  /\ UNCHANGED <<Known, stop, bus, held, events>>

---------------------------------------------------------------------------
(* A connection's task. *)

TakeFrame(c) ==
  /\ running /\ conn[c].pc = "select" /\ conn[c].inbox # <<>>
  /\ LET value == Head(conn[c].inbox)
     IN conn' = [conn EXCEPT
          ![c].inbox = Tail(@), ![c].taken = Append(@, value), ![c].pc = "serve",
          ![c].item = 1, ![c].call = 0,
          ![c].reply = IF Whole(value) THEN <<>> ELSE <<Refused>>]
  /\ UNCHANGED <<Known, stop, bus, held, events>>

Value(c) == Last(conn[c].taken)
InWork(c) == conn[c].item <= Len(Items(Value(c)))
Current(c) == Items(Value(c))[conn[c].item]

\* Items of a batch that are no objects are passed over without an answer.
PassOver(c) ==
  /\ running /\ conn[c].pc = "serve" /\ ~conn[c].owed
  /\ InWork(c) /\ ~Current(c).object
  /\ conn' = [conn EXCEPT ![c].item = @ + 1]
  /\ UNCHANGED <<Known, stop, bus, held, events>>

ServeCall(c) ==
  /\ running /\ conn[c].pc = "serve" /\ ~conn[c].owed
  /\ InWork(c) /\ Current(c).object
  /\ LET x == conn[c]
         call == Call(Current(c), x.call, x.basic)
         more == x.call < Len(Current(c).calls)
     IN /\ conn' = [conn EXCEPT
             ![c].item = IF more THEN @ ELSE @ + 1,
             ![c].call = IF more THEN @ + 1 ELSE 0,
             ![c].reply = Answered(@, call), ![c].owed = Changes(call),
             ![c].changed = IF Changes(call) THEN @ \cup {<<Len(x.taken), x.item, x.call>>}
                            ELSE @]
        /\ stop' = (stop \/ (Succeeds(call) /\ call.method = "shutdown"))
  /\ UNCHANGED <<Known, bus, held, events>>

\* send_lifecycle, after the manager's critical section.
SendLifecycle(c) ==
  /\ running /\ conn[c].owed
  /\ bus' = Append(bus, [by |-> c, frame |-> Len(conn[c].taken)])
  /\ conn' = [conn EXCEPT ![c].owed = FALSE]
  /\ UNCHANGED <<Known, stop, held, events>>

\* A send waits for room, and fails when the client has gone.
Send(c, message, then) ==
  IF conn[c].left
  THEN conn' = [conn EXCEPT ![c].pc = "done"]
  ELSE /\ Len(conn[c].sent) - conn[c].read < Window
       /\ conn' = [conn EXCEPT ![c].sent = Append(@, message), ![c].pc = then,
                               ![c].hand = 0]

SendAnswer(c) ==
  /\ running /\ conn[c].pc = "serve" /\ ~InWork(c) /\ ~conn[c].owed
  /\ Send(c, [answer |-> TRUE, reply |-> conn[c].reply],
          IF conn[c].kind = "socket" THEN "select" ELSE "done")
  /\ UNCHANGED <<Known, stop, bus, held, events>>

SocketCloses(c) ==
  /\ running /\ conn[c].pc = "select" /\ conn[c].left /\ conn[c].inbox = <<>>
  /\ conn' = [conn EXCEPT ![c].pc = "done"]
  /\ UNCHANGED <<Known, stop, bus, held, events>>

\* The channel keeps the newest Capacity notifications.
Oldest == IF Len(bus) > Capacity THEN Len(bus) - Capacity + 1 ELSE 1

Take(c) == [conn EXCEPT ![c].pc = "note", ![c].next = @ + 1, ![c].hand = conn[c].next]

ReceiveNoteEndingOnOverrun(c) ==
  /\ running /\ conn[c].pc = "select" /\ conn[c].kind = "socket"
  /\ conn[c].next <= Len(bus)
  /\ conn' = IF conn[c].next < Oldest THEN [conn EXCEPT ![c].pc = "done"] ELSE Take(c)
  /\ UNCHANGED <<Known, stop, bus, held, events>>
\* Lagged moves the receiver to the oldest notification and is passed over.
Overrun(c) == conn[c].next < Oldest
AfterOverrunNewest(c) == [conn EXCEPT ![c].next = Len(bus)]
AfterOverrun(c) == [conn EXCEPT ![c].next = Oldest]
ReceiveNote(c) ==
  /\ running /\ conn[c].pc = "select" /\ conn[c].kind = "socket"
  /\ conn[c].next <= Len(bus)
  /\ conn' = IF Overrun(c) THEN AfterOverrun(c) ELSE Take(c)
  /\ UNCHANGED <<Known, stop, bus, held, events>>

SendNote(c) ==
  /\ running /\ conn[c].pc = "note"
  /\ Send(c, [answer |-> FALSE, index |-> conn[c].hand], "select")
  /\ UNCHANGED <<Known, stop, bus, held, events>>

---------------------------------------------------------------------------
(* The run and the server. *)

RecordEvent ==
  /\ running /\ ~held /\ events < MaxEvents
  /\ held' = TRUE /\ events' = events + 1
  /\ UNCHANGED <<Known, stop, bus, conn>>

SendProgress ==
  /\ running /\ held
  /\ bus' = Append(bus, [by |-> "run", frame |-> events])
  /\ held' = FALSE
  /\ UNCHANGED <<Known, stop, events, conn>>

StopAccepting ==
  /\ running /\ accepting /\ stop
  /\ accepting' = FALSE
  /\ UNCHANGED <<config, running, stop, bus, held, events, conn>>

\* Without TLS serve() ends when the HTTP requests are answered; with TLS it
\* returns at once.  Upgraded sockets are waited for by neither, and the process
\* ends with serve().
Exit ==
  /\ running /\ ~accepting
  /\ config.tls \/ \A c \in Conns : conn[c].kind = "request" => conn[c].pc = "done"
  /\ running' = FALSE
  /\ UNCHANGED <<config, accepting, stop, bus, held, events, conn>>

Task(c) ==
  \/ TakeFrame(c) \/ PassOver(c) \/ ServeCall(c) \/ SendLifecycle(c) \/ SendAnswer(c)
  \/ SocketCloses(c) \/ ReceiveNote(c) \/ SendNote(c)

Next ==
  \/ \E c \in Sockets : ConnectSocket(c) \/ ClientSends(c) \/ ClientReads(c) \/ ClientLeaves(c)
  \/ \E c \in Requests : ConnectRequest(c)
  \/ \E c \in Conns : Task(c)
  \/ RecordEvent \/ SendProgress \/ StopAccepting \/ Exit

\* The runtime polls every ready task; clients that stay read what they are sent.
Spec ==
  /\ Init /\ [][Next]_vars
  /\ \A c \in Conns : WF_vars(Task(c))
  /\ \A c \in Sockets : WF_vars(ClientReads(c))
  /\ WF_vars(StopAccepting) /\ WF_vars(Exit)

---------------------------------------------------------------------------
(* Properties. *)

\* The answers among the first n messages of a connection.
Answers(x, n) == Cardinality({m \in 1 .. n : x.sent[m].answer})
\* The objects among the first n items of a value: each has an answer.
Objects(value, n) == Cardinality({m \in 1 .. n : value.items[m].object})

\* Who may do what, said once for the whole request: public methods everyone;
\* the others need the secret in the call itself or, outside a multicall, the
\* password of the connection, unless the server has neither.
Permitted(r, basic) ==
  \/ r.method \in Public
  \/ r.method \in Methods /\ \/ config.secret /\ r.token = "right"
                             \/ config.basic /\ basic
                             \/ ~config.secret /\ ~config.basic

Due(r, basic) ==
  [id |-> r.id, ok |-> Permitted(r, basic),
   inner |-> [i \in DOMAIN r.calls |->
                r.calls[i].method # "multicall" /\ Permitted(r.calls[i], FALSE)]]

IsDue(reply, value, basic) ==
  IF Whole(value)
  THEN /\ Len(reply) = Objects(value, Len(value.items))
       /\ \A i \in DOMAIN value.items : value.items[i].object =>
            reply[Objects(value, i)] = Due(value.items[i], basic)
  ELSE reply = <<Refused>>

\* A reply says that call k of item i paused its download.
SaysPaused(reply, value, i, k) ==
  /\ value.items[i].object
  /\ LET answer == reply[Objects(value, i)]
     IN IF k = 0 THEN value.items[i].method = "pause" /\ answer.ok
        ELSE value.items[i].calls[k].method = "pause" /\ answer.inner[k]

\* A connection's frames are answered one by one and in order, a batch with one
\* answer for each of its objects, success meaning permission (process_request,
\* strip_auth, system_multicall); and downloads were changed by exactly the
\* calls that the answers call successful.
AnswersAreDue ==
  \A c \in Conns :
    LET x == conn[c]
    IN /\ \A n \in DOMAIN x.sent : x.sent[n].answer =>
            LET f == Answers(x, n)
                value == x.taken[f]
                reply == x.sent[n].reply
            IN /\ f \in DOMAIN x.taken
               /\ IsDue(reply, value, x.basic)
               /\ \A i \in DOMAIN Items(value) : \A k \in 0 .. Len(value.items[i].calls) :
                    <<f, i, k>> \in x.changed <=> SaysPaused(reply, value, i, k)
       /\ x.pc \in {"select", "note"} =>
            /\ Answers(x, Len(x.sent)) = Len(x.taken)
            /\ \A e \in x.changed :
                 /\ e[1] \in DOMAIN x.taken /\ e[2] \in DOMAIN Items(x.taken[e[1]])
                 /\ e[3] \in 0 .. Len(x.taken[e[1]].items[e[2]].calls)

\* A client never hears of what its own request did before the request's answer:
\* the select of handle_websocket serves a frame whole before it reads a
\* notification.
AnswerComesFirst ==
  \A c \in Conns : \A n \in DOMAIN conn[c].sent :
    LET message == conn[c].sent[n]
    IN (~message.answer /\ bus[message.index].by = c) =>
         Answers(conn[c], n) >= bus[message.index].frame

\* Answers come in turn, as due, and before what else a client hears of its requests.
AnsweredInTurn == AnswersAreDue /\ AnswerComesFirst

\* A socket's place in the notifications only moves on past one that its task takes to
\* send, or past ones that Capacity newer notifications have overwritten
\* (handle_websocket's `continue` after Lagged), and what was taken is sent next:
\* nothing is told twice, out of order or lost otherwise.
MissedByOverrunOnly ==
  [][\A c \in Sockets :
       LET x == conn[c]
           y == conn'[c]
       IN x.kind = "socket" =>
            /\ y.next >= x.next
            /\ \A n \in x.next .. (y.next - 1) : n = y.hand \/ n + Capacity <= Len(bus)
            /\ y.next > x.next => x.hand = 0
            /\ x.hand # 0 /\ y.hand # x.hand =>
                 y.hand = 0 /\ y.sent = Append(x.sent, [answer |-> FALSE, index |-> x.hand])]_vars

\* A client that stays connected is brought up to date however far it fell behind,
\* unless the process ends.
ClientsCatchUp ==
  \A c \in Sockets :
    (conn[c].kind = "socket") ~>
      (~running \/ conn[c].left \/ (conn[c].next > Len(bus) /\ conn[c].pc = "select"
                                      /\ conn[c].read = Len(conn[c].sent)))
=============================================================================
