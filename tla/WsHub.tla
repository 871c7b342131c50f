-------------------------------- MODULE WsHub --------------------------------
(***************************************************************************)
(* ws-server: the connection hub (internal/hub), the goroutines around a   *)
(* connection, the alert consumer's Hub.Send and the shutdown of main.     *)
(*                                                                         *)
(* Goroutines: the HTTP handler that upgrades a connection, its WritePump  *)
(* and ReadPump, the chat streams it opened, one Kafka worker calling Send *)
(* and the main goroutine with the helpers Shutdown starts.  A step is what *)
(* a goroutine does between two points where another one can see it.       *)
(***************************************************************************)
EXTENDS WsHubState, Sequences

vars == <<conns, shuttingDown, handler, write, read, queue, cancelled, done, socket,
          stream, sender, main, targets, closer, events>>
hub        == <<conns, shuttingDown>>
connection == <<queue, cancelled, done, socket>>
pumps      == <<write, read>>
shutdown   == <<main, targets, closer>>
traffic    == <<stream, sender, events>>

\* Alerts, chat chunks and error envelopes are all data to the hub.
Frames    == {"data", "shutdown", "close"}
PumpStage == {"off", "run", "unregister", "markDone", "forceClose", "ended"}

TypeOK ==
  /\ conns \subseteq Conns /\ shuttingDown \in BOOLEAN
  /\ handler \in [Conns -> {"none", "checked", "ended"}]
  /\ write \in [Conns -> PumpStage] /\ read \in [Conns -> PumpStage]
  /\ queue \in [Conns -> Seq(Frames)]
  /\ \A c \in Conns : Len(queue[c]) <= QueueSize
  /\ cancelled \subseteq Conns /\ done \subseteq Conns /\ socket \subseteq Conns
  /\ stream \subseteq Conns /\ sender \subseteq Conns
  /\ main \in {"serving", "notify", "wait", "exited", "failed"}
  /\ targets \subseteq Conns
  /\ closer \in [Conns -> {"none", "close", "wait", "ended"}]
  /\ events \in 0..MaxEvents

Init ==
  /\ conns = {} /\ shuttingDown = FALSE
  /\ handler = [c \in Conns |-> "none"]
  /\ write = [c \in Conns |-> "off"] /\ read = [c \in Conns |-> "off"]
  /\ queue = [c \in Conns |-> <<>>]
  /\ cancelled = {} /\ done = {} /\ socket = {}
  /\ stream = {} /\ sender = {}
  /\ main = "serving" /\ targets = {}
  /\ closer = [c \in Conns |-> "none"]
  /\ events = 0

Event == events < MaxEvents /\ events' = events + 1
Up    == main \notin {"exited", "failed"}

\* The select of Enqueue never blocks: with a closed done channel and room in the
\* queue Go picks one of the two ready cases.
Enqueue(c, f) ==
  \/ Len(queue[c]) < QueueSize /\ queue' = [queue EXCEPT ![c] = Append(@, f)]
  \/ (c \in done \/ Len(queue[c]) = QueueSize) /\ UNCHANGED queue

-----------------------------------------------------------------------------
(* WSHandler.ServeHTTP                                                      *)

\* Token and capacity checks, then the upgrade; the listener is closed once main
\* shuts down.
Upgrade(c) ==
  /\ main = "serving"
  /\ handler[c] = "none"
  /\ Cardinality(conns) < MaxConns
  /\ handler' = [handler EXCEPT ![c] = "checked"]
  /\ socket' = socket \cup {c}
  /\ UNCHANGED <<hub, pumps, queue, cancelled, done, traffic, shutdown>>

Accept(c) ==
  /\ conns' = conns \cup {c}
  /\ write' = [write EXCEPT ![c] = "run"]
  /\ read' = [read EXCEPT ![c] = "run"]
  /\ UNCHANGED socket

Refuse(c) == socket' = socket \ {c} /\ UNCHANGED <<conns, pumps>>

\* Mutated form: Register relies on the handler's capacity check.
RegisterUnchecked(c) ==
  /\ handler[c] = "checked"
  /\ handler' = [handler EXCEPT ![c] = "ended"]
  /\ IF shuttingDown THEN Refuse(c) ELSE Accept(c)
  /\ UNCHANGED <<shuttingDown, queue, cancelled, done, traffic, shutdown>>

\* Mutated form: Register does not look at shuttingDown.
RegisterLate(c) ==
  /\ handler[c] = "checked"
  /\ handler' = [handler EXCEPT ![c] = "ended"]
  /\ IF Cardinality(conns) >= MaxConns THEN Refuse(c) ELSE Accept(c)
  /\ UNCHANGED <<shuttingDown, queue, cancelled, done, traffic, shutdown>>

\* Hub.Register under the hub's lock, then the pumps are started.
Register(c) ==
  /\ handler[c] = "checked"
  /\ handler' = [handler EXCEPT ![c] = "ended"]
  /\ IF shuttingDown \/ Cardinality(conns) >= MaxConns THEN Refuse(c) ELSE Accept(c)
  /\ UNCHANGED <<shuttingDown, queue, cancelled, done, traffic, shutdown>>

-----------------------------------------------------------------------------
(* WritePump                                                                *)

EndWrite(c) == write' = [write EXCEPT ![c] = "unregister"]
WriteUnchanged == UNCHANGED <<hub, handler, read, cancelled, done, socket, traffic, shutdown>>

\* ctx.Done(): a close frame, whatever is still queued.
WriteClose(c) ==
  /\ write[c] = "run"
  /\ c \in cancelled
  /\ EndWrite(c)
  /\ UNCHANGED queue
  /\ WriteUnchanged

WriteFrame(c) ==
  /\ write[c] = "run"
  /\ queue[c] # <<>>
  /\ queue' = [queue EXCEPT ![c] = Tail(@)]
  /\ (c \in socket /\ UNCHANGED write) \/ EndWrite(c)
  /\ WriteUnchanged

\* The ticker: the connection has been idle too long, or the ping fails.
WriteTick(c) ==
  /\ write[c] = "run"
  /\ EndWrite(c)
  /\ UNCHANGED queue
  /\ WriteUnchanged

-----------------------------------------------------------------------------
(* ReadPump                                                                 *)

ReadUnchanged == UNCHANGED <<hub, handler, write, cancelled, done, socket, sender, shutdown>>

\* A frame that is no envelope, or of an unknown type.
ReadInvalid(c) ==
  /\ read[c] = "run"
  /\ c \in socket
  /\ Event
  /\ Enqueue(c, "data")
  /\ UNCHANGED <<read, stream>>
  /\ ReadUnchanged

\* A chat message: Dispatch starts a goroutine that streams the answer.
ReadChat(c) ==
  /\ read[c] = "run"
  /\ c \in socket
  /\ Event
  /\ stream' = stream \cup {c}
  /\ UNCHANGED <<read, queue>>
  /\ ReadUnchanged

\* ReadMessage fails: the client left, the deadline passed or the socket is closed.
ReadFails(c) ==
  /\ read[c] = "run"
  /\ read' = [read EXCEPT ![c] = "unregister"]
  /\ UNCHANGED <<queue, stream, events>>
  /\ ReadUnchanged

\* OpenChatStream: a chunk, or the mapped error that ends the stream.
StreamChunk(c) ==
  /\ c \in stream
  /\ Enqueue(c, "data")
  /\ stream' \in {stream, stream \ {c}}
  /\ UNCHANGED <<hub, handler, pumps, cancelled, done, socket, sender, events, shutdown>>

-----------------------------------------------------------------------------
(* What both pumps defer: Unregister, markDone, ForceClose                  *)

Advance(pump, c, from, to) == pump[c] = from /\ pump' = [pump EXCEPT ![c] = to]

\* One of the pumps of c goes from one stage of its teardown to the next.
Teardown(c, from, to) ==
  \/ Advance(write, c, from, to) /\ UNCHANGED read
  \/ Advance(read, c, from, to) /\ UNCHANGED write

Unregister(c) ==
  /\ Teardown(c, "unregister", "markDone")
  /\ conns' = conns \ {c}
  /\ UNCHANGED <<shuttingDown, connection, handler, traffic, shutdown>>

MarkDone(c) ==
  /\ Teardown(c, "markDone", "forceClose")
  /\ done' = done \cup {c}
  /\ UNCHANGED <<hub, queue, cancelled, socket, handler, traffic, shutdown>>

\* Mutated form: the pumps call Close, which leaves the socket open.
CloseOnly(c) ==
  /\ Teardown(c, "forceClose", "ended")
  /\ cancelled' = cancelled \cup {c}
  /\ UNCHANGED <<hub, queue, done, socket, handler, traffic, shutdown>>

ForceClose(c) ==
  /\ Teardown(c, "forceClose", "ended")
  /\ cancelled' = cancelled \cup {c}
  /\ socket' = socket \ {c}
  /\ UNCHANGED <<hub, queue, done, handler, traffic, shutdown>>

-----------------------------------------------------------------------------
(* kafka.Consumer.handleMessage: Hub.Send copies the user's connections     *)

SendAlert(u) ==
  /\ main = "serving"
  /\ sender = {}
  /\ Event
  /\ sender' = {c \in conns : User[c] = u}
  /\ UNCHANGED <<hub, handler, pumps, connection, stream, shutdown>>

SendNext(c) ==
  /\ c \in sender
  /\ sender' = sender \ {c}
  /\ Enqueue(c, "data")
  /\ UNCHANGED <<hub, handler, pumps, cancelled, done, socket, stream, events, shutdown>>

-----------------------------------------------------------------------------
(* main and Hub.Shutdown                                                    *)

ShutdownUnchanged == UNCHANGED <<handler, pumps, done, traffic>>

\* A signal: the flag and the snapshot are taken under one lock.
Shutdown ==
  /\ main = "serving"
  /\ main' = "notify"
  /\ shuttingDown' = TRUE
  /\ targets' = conns
  /\ UNCHANGED <<conns, queue, cancelled, socket, closer>>
  /\ ShutdownUnchanged

\* The HTTP server or the consumer failed: main returns without Hub.Shutdown.
Fail ==
  /\ main = "serving"
  /\ main' = "failed"
  /\ UNCHANGED <<hub, queue, cancelled, socket, targets, closer>>
  /\ ShutdownUnchanged

Notify(c) ==
  /\ main = "notify"
  /\ c \in targets
  /\ closer[c] = "none"
  /\ Enqueue(c, "shutdown")
  /\ closer' = [closer EXCEPT ![c] = "close"]
  /\ UNCHANGED <<hub, cancelled, socket, main, targets>>
  /\ ShutdownUnchanged

Notified ==
  /\ main = "notify"
  /\ \A c \in targets : closer[c] # "none"
  /\ main' = "wait"
  /\ UNCHANGED <<hub, queue, cancelled, socket, targets, closer>>
  /\ ShutdownUnchanged

\* The helper of c: Close, then wait for done, for the timeout at the longest.
CloserClose(c) ==
  /\ closer[c] = "close"
  /\ closer' = [closer EXCEPT ![c] = "wait"]
  /\ cancelled' = cancelled \cup {c}
  /\ UNCHANGED <<hub, queue, socket, main, targets>>
  /\ ShutdownUnchanged

CloserEnd(c) ==
  /\ closer[c] = "wait"
  /\ closer' = [closer EXCEPT ![c] = "ended"]
  /\ socket' \in IF c \in done THEN {socket, socket \ {c}} ELSE {socket \ {c}}
  /\ UNCHANGED <<hub, queue, cancelled, main, targets>>
  /\ ShutdownUnchanged

Drained == main = "wait" /\ \A c \in targets : closer[c] = "ended"

Exit ==
  /\ Drained
  /\ main' = "exited"
  /\ UNCHANGED <<hub, queue, cancelled, socket, targets, closer>>
  /\ ShutdownUnchanged

\* Mutated form: the timeout just returns.
ExitTimeoutPlain ==
  /\ main = "wait"
  /\ main' = "exited"
  /\ UNCHANGED <<hub, queue, cancelled, socket, targets, closer>>
  /\ ShutdownUnchanged

\* Shutdown's own timeout: every target is force-closed.
ExitTimeout ==
  /\ main = "wait"
  /\ main' = "exited"
  /\ cancelled' = cancelled \cup targets
  /\ socket' = socket \ targets
  /\ UNCHANGED <<hub, queue, targets, closer>>
  /\ ShutdownUnchanged

-----------------------------------------------------------------------------
ConnStep(c) ==
  \/ Upgrade(c) \/ Register(c)
  \/ WriteClose(c) \/ WriteFrame(c) \/ WriteTick(c)
  \/ ReadInvalid(c) \/ ReadChat(c) \/ ReadFails(c) \/ StreamChunk(c)
  \/ Unregister(c) \/ MarkDone(c) \/ ForceClose(c)
  \/ SendNext(c)
  \/ Notify(c) \/ CloserClose(c) \/ CloserEnd(c)

Next ==
  /\ Up
  /\ \/ \E c \in Conns : ConnStep(c)
     \/ \E u \in Users : SendAlert(u)
     \/ Shutdown \/ Fail \/ Notified \/ Exit \/ ExitTimeout

Spec == Init /\ [][Next]_vars

\* Goroutines that can run do run; a read from a closed socket fails.  Nothing is
\* assumed of clients, of timers or of signals.
Fairness ==
  \A c \in Conns :
    /\ WF_vars(Up /\ Register(c))
    /\ WF_vars(Up /\ (WriteClose(c) \/ WriteFrame(c)))
    /\ WF_vars(Up /\ c \notin socket /\ ReadFails(c))
    /\ WF_vars(Up /\ (Unregister(c) \/ MarkDone(c) \/ ForceClose(c)))

FairSpec == Spec /\ Fairness

-----------------------------------------------------------------------------
(* Properties                                                               *)

\* The pumps of a connection end together: when one of them ends, for whatever
\* reason, the other goroutine does not leak.
PumpsEndTogether ==
  \A c \in Conns : (write[c] = "ended" \/ read[c] = "ended") ~>
    (main \in {"exited", "failed"} \/ (write[c] = "ended" /\ read[c] = "ended"))

=============================================================================
