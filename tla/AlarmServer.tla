------------------------------ MODULE AlarmServer ------------------------------
(***************************************************************************)
(* The threads of the alarm server (alarm_server.cpp): one listener, and   *)
(* one thread for every connection.  A message is a unit here; how it is   *)
(* cut out of the bytes of the connection is the subject of AlarmText.     *)
(*                                                                         *)
(* The clients test the stop token of the listener, which they capture by  *)
(* value: one request stops them all.  Nothing removes the thread of a     *)
(* client that has left before the server stops.                           *)
(***************************************************************************)
EXTENDS Naturals, FiniteSets

CONSTANT MaxClients   \* bound: connections in the lifetime of the server

ASSUME ServerAssumption == MaxClients \in Nat

Clients == 1 .. MaxClients

VARIABLES
  listener,    \* where runListener is
  socket,      \* what its socket does: "none", "bound", "listening", "down"
  serverFd,    \* server_fd_ holds the socket
  loadedFd,    \* the value stop has loaded from it
  client,      \* where the thread of each connection is, "none" before it
  serverStop   \* the stop token of listener_thread_

serverVars == <<listener, socket, serverFd, loadedFd, client, serverStop>>

ServerTypeOK ==
  /\ listener \in {"socket", "bind", "test", "accept", "close", "exited"}
  /\ socket \in {"none", "open", "listening", "down"}
  /\ serverFd \in BOOLEAN /\ loadedFd \in BOOLEAN /\ serverStop \in BOOLEAN
  /\ client \in [Clients -> {"none", "test", "recv", "handle", "exited"}]

ServerInit ==
  /\ listener = "socket" /\ socket = "none"
  /\ serverFd = FALSE /\ loadedFd = FALSE /\ serverStop = FALSE
  /\ client = [c \in Clients |-> "none"]

-----------------------------------------------------------------------------
(* runListener                                                             *)

Listener(here, there) ==
  /\ listener = here /\ listener' = there
  /\ UNCHANGED <<loadedFd, serverStop>>

(* socket() may fail: the thread ends and start has returned true.         *)
OpenSocket ==
  /\ \/ Listener("socket", "bind") /\ socket' = "open" /\ serverFd' = TRUE
     \/ Listener("socket", "exited") /\ UNCHANGED <<socket, serverFd>>
  /\ UNCHANGED client

(* bind and listen; when one fails the socket is closed.                   *)
BindSocket ==
  /\ \/ Listener("bind", "test") /\ socket' = "listening" /\ UNCHANGED serverFd
     \/ Listener("bind", "exited") /\ socket' = "none" /\ serverFd' = FALSE
  /\ UNCHANGED client

TestListenerStop ==
  /\ Listener("test", IF serverStop THEN "close" ELSE "accept")
  /\ UNCHANGED <<socket, serverFd, client>>

(* A connection starts a client thread, with the token of the listener.    *)
Accept ==
  /\ Listener("accept", "test") /\ socket = "listening"
  /\ \E c \in Clients :
       /\ client[c] = "none"
       /\ \A d \in 1 .. c - 1 : client[d] # "none"
       /\ client' = [client EXCEPT ![c] = "test"]
  /\ UNCHANGED <<socket, serverFd>>

(* accept fails: EINTR, or a socket that has been shut down.  The token    *)
(* tells the two apart.                                                    *)
AcceptFails ==
  /\ Listener("accept", IF serverStop THEN "close" ELSE "test")
  /\ UNCHANGED <<socket, serverFd, client>>

CloseSocket ==
  /\ Listener("close", "exited")
  /\ socket' = "none" /\ serverFd' = FALSE
  /\ UNCHANGED client

-----------------------------------------------------------------------------
(* runClient                                                               *)

Client(c, here, there) ==
  /\ client[c] = here /\ client' = [client EXCEPT ![c] = there]
  /\ UNCHANGED <<listener, socket, serverFd, loadedFd, serverStop>>

TestClientStop(c) == Client(c, "test", IF serverStop THEN "exited" ELSE "recv")

(* recv returns bytes; nothing within 200 ms; the end or an error.         *)
Receive(c) == \E next \in {"handle", "test", "exited"} : Client(c, "recv", next)

(* processBuffer calls the callback for one message after another.         *)
HandleMessage(c) == Client(c, "handle", "handle")

HandleDone(c) == Client(c, "handle", "test")

-----------------------------------------------------------------------------
(* stop, a statement at a time                                             *)

RequestServerStop ==
  /\ serverStop' = TRUE
  /\ UNCHANGED <<listener, socket, serverFd, loadedFd, client>>

LoadFd ==
  /\ loadedFd' = serverFd
  /\ UNCHANGED <<listener, socket, serverFd, client, serverStop>>

(* Only a socket that listens is affected.                                 *)
ShutdownSocket ==
  /\ socket' = IF loadedFd /\ socket = "listening" THEN "down" ELSE socket
  /\ UNCHANGED <<listener, serverFd, loadedFd, client, serverStop>>

ListenerJoinable == listener = "exited"

ClientsJoinable == \A c \in Clients : client[c] \in {"none", "exited"}

=============================================================================
