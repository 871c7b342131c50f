----------------------------- MODULE WsHubState -----------------------------
(***************************************************************************)
(* What a pod of ws-server is configured with, what it keeps, and what     *)
(* must hold of it in every state.  WsHub says what its goroutines do.     *)
(***************************************************************************)
EXTENDS Integers, FiniteSets

CONSTANTS
  Conns,      \* connection attempts
  Users,
  User,       \* User[c] is the authenticated user of connection c
  MaxConns,   \* cfg.MaxConnections
  QueueSize,  \* capacity of Connection.send (256 in the code)
  MaxEvents   \* bound of the model: alerts taken and client messages read

ASSUME UserAssumption  == User \in [Conns -> Users]
ASSUME SizesAssumption == MaxConns \in Nat \ {0} /\ QueueSize \in Nat \ {0} /\ MaxEvents \in Nat

VARIABLES
  conns,         \* connections in Hub.conns
  shuttingDown,  \* Hub.shuttingDown
  handler,       \* the HTTP handler of each attempt
  write, read,   \* the two pumps of each connection
  queue,         \* Connection.send
  cancelled,     \* connections whose ctx is cancelled (Close)
  done,          \* connections whose done channel is closed (markDone)
  socket,        \* connections whose websocket is open
  stream,        \* connections with a chat stream goroutine
  sender,        \* targets of Hub.Send that are still to be enqueued
  main,          \* the main goroutine
  targets,       \* Shutdown's snapshot of the connections
  closer,        \* the goroutine Shutdown starts for each target
  events         \* how many alerts and client messages there were

-----------------------------------------------------------------------------
\* The pod's connection limit holds although many handlers pass the first check
\* before any of them registers.
CapacityRespected == Cardinality(conns) <= MaxConns

\* When main returns from a graceful shutdown, every connection has left the hub or
\* has its socket closed, those included that were being upgraded while the
\* snapshot was taken.
NobodyLeftRunning == main = "exited" => conns \cap socket = {}

=============================================================================
