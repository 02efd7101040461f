-------------------------- MODULE RuntimeInstance ---------------------------
(***************************************************************************)
(* The resident runtime and its clients (needle-app/src/runtime_instance.rs*)
(* and `run' in server.rs, product_resolver.rs).  One server per data      *)
(* directory holds the lock file, listens on a socket whose path depends   *)
(* on the directory alone, and publishes a descriptor with a fresh token.  *)
(* A caller that finds a live server sends its resolution there and        *)
(* otherwise resolves in its own process.                                  *)
(*                                                                         *)
(* A server is named by its token, a number that is never used twice; 0    *)
(* stands for no server.                                                   *)
(***************************************************************************)
EXTENDS Naturals, FiniteSets

CONSTANTS
  Hosts,        \* processes that may run the server
  Clients,      \* processes that resolve a need
  MaxStarts     \* bound on the server starts

VARIABLES
  host,         \* what each server process does
  lock,         \* the token of the holder of runtime.lock, or 0
  descriptor,   \* the token in runtime.json, or 0 when there is no file
  listener,     \* the token of the server behind the socket, or 0
  caller,       \* what each caller does
  starts        \* tokens handed out

instanceVars == <<host, lock, descriptor, listener, caller, starts>>

NoHost == [phase |-> "down", token |-> 0]

\* `runs' counts the times the caller's need was resolved, wherever.
IdleClient == [phase |-> "idle", token |-> 0, runs |-> 0, answer |-> "none"]

InstanceInit ==
  /\ host = [h \in Hosts |-> NoHost]
  /\ lock = 0
  /\ descriptor = 0
  /\ listener = 0
  /\ caller = [c \in Clients |-> IdleClient]
  /\ starts = 0

-----------------------------------------------------------------------------
(* The server.                                                             *)

\* InstanceGuard::acquire; a second server is refused while the lock is held.
Acquire(h) ==
  /\ host[h].phase = "down" /\ lock = 0 /\ starts < MaxStarts
  /\ starts' = starts + 1
  /\ lock' = starts + 1
  /\ host' = [host EXCEPT ![h] = [phase |-> "locked", token |-> starts + 1]]
  /\ UNCHANGED <<descriptor, listener, caller>>

\* serve_ipc: the socket file of an earlier server is removed and bound again.
Bind(h) ==
  /\ host[h].phase = "locked"
  /\ listener' = host[h].token
  /\ host' = [host EXCEPT ![h].phase = "bound"]
  /\ UNCHANGED <<lock, descriptor, caller, starts>>

\* wait_until_ready: the health request with the new token is answered.
Ready(h) == listener = host[h].token

\* publish renames the new descriptor over whatever is there.
Publish(h) ==
  /\ host[h].phase = "bound" /\ Ready(h)
  /\ descriptor' = host[h].token
  /\ host' = [host EXCEPT ![h].phase = "serving"]
  /\ UNCHANGED <<lock, listener, caller, starts>>

\* A failed start (the store, the recovery of changes, the handshake) or the end
\* of the server: the listener task is aborted before the guard is dropped.
Stop(h) ==
  /\ host[h].phase \in {"locked", "bound", "serving"}
  /\ listener' = IF listener = host[h].token THEN 0 ELSE listener
  /\ host' = [host EXCEPT ![h].phase = "stopping"]
  /\ UNCHANGED <<lock, descriptor, caller, starts>>

\* Fault: the lock is released before the descriptor is removed.
DropUnlocksFirst(h) ==
  \/ /\ host[h].phase = "stopping"
     /\ lock' = 0
     /\ host' = [host EXCEPT ![h].phase = "removed"]
     /\ UNCHANGED <<descriptor, listener, caller, starts>>
  \/ /\ host[h].phase = "removed"
     /\ descriptor' = 0
     /\ host' = [host EXCEPT ![h] = NoHost]
     /\ UNCHANGED <<lock, listener, caller, starts>>

\* Drop of InstanceGuard: runtime.json is removed, whoever wrote it, and then
\* the lock is released.
DropGuard(h) ==
  \/ /\ host[h].phase = "stopping"
     /\ descriptor' = 0
     /\ host' = [host EXCEPT ![h].phase = "removed"]
     /\ UNCHANGED <<lock, listener, caller, starts>>
  \/ /\ host[h].phase = "removed"
     /\ lock' = 0
     /\ host' = [host EXCEPT ![h] = NoHost]
     /\ UNCHANGED <<descriptor, listener, caller, starts>>

\* The process dies: the system releases the lock and closes the socket, and the
\* descriptor stays.
HostCrash(h) ==
  /\ host[h].phase # "down"
  /\ lock' = IF lock = host[h].token THEN 0 ELSE lock
  /\ listener' = IF listener = host[h].token THEN 0 ELSE listener
  /\ host' = [host EXCEPT ![h] = NoHost]
  /\ UNCHANGED <<descriptor, caller, starts>>

-----------------------------------------------------------------------------
(* A caller: ProductResolver::resolve and resolve_resident.                *)

\* The descriptor is read once; a missing one is Unavailable.
ReadDescriptor(c) ==
  /\ caller[c].phase = "idle"
  /\ caller' = [caller EXCEPT ![c].phase = IF descriptor = 0 THEN "unavailable" ELSE "health",
                              ![c].token = descriptor]
  /\ UNCHANGED <<host, lock, descriptor, listener, starts>>

\* The health request: nobody listens, another token is expected (handle_request
\* answers unauthorized), the answer is late, or the server is there.
CheckHealth(c) ==
  /\ caller[c].phase = "health"
  /\ \E phase \in IF listener = caller[c].token THEN {"healthy", "unavailable"} ELSE {"unavailable"} :
       caller' = [caller EXCEPT ![c].phase = phase]
  /\ UNCHANGED <<host, lock, descriptor, listener, starts>>

\* The resolve request goes out on a second connection: the server it meets
\* starts the resolution, or refuses a token that is not its own.
SendResolve(c) ==
  /\ caller[c].phase = "healthy"
  /\ caller' = IF listener = caller[c].token
               THEN [caller EXCEPT ![c].phase = "remote", ![c].runs = @ + 1]
               ELSE [caller EXCEPT ![c].phase = "done", ![c].answer = "error"]
  /\ UNCHANGED <<host, lock, descriptor, listener, starts>>

\* The server answers with an outcome or an error.
RemoteAnswer(c) ==
  /\ caller[c].phase = "remote" /\ \E h \in Hosts : host[h].token = caller[c].token
  /\ \E answer \in {"outcome", "error"} :
       caller' = [caller EXCEPT ![c].phase = "done", ![c].answer = answer]
  /\ UNCHANGED <<host, lock, descriptor, listener, starts>>

\* RESOLVE_TIMEOUT passes or the connection is lost: the resolution may go on in
\* the server, so the caller gives up with an error.
RemoteLost(c) ==
  /\ caller[c].phase = "remote"
  /\ caller' = [caller EXCEPT ![c].phase = "done", ![c].answer = "error"]
  /\ UNCHANGED <<host, lock, descriptor, listener, starts>>

\* The local engine.
ResolveLocally(c) ==
  /\ caller[c].phase = "unavailable"
  /\ \E answer \in {"outcome", "error"} :
       caller' = [caller EXCEPT ![c].phase = "done", ![c].answer = answer, ![c].runs = @ + 1]
  /\ UNCHANGED <<host, lock, descriptor, listener, starts>>

\* The next need of the same process.
NextNeed(c) ==
  /\ caller[c].phase = "done"
  /\ caller' = [caller EXCEPT ![c] = IdleClient]
  /\ UNCHANGED <<host, lock, descriptor, listener, starts>>

InstanceNext ==
  \/ \E h \in Hosts : Acquire(h) \/ Bind(h) \/ Publish(h) \/ Stop(h) \/ DropGuard(h) \/ HostCrash(h)
  \/ \E c \in Clients : \/ ReadDescriptor(c) \/ CheckHealth(c) \/ SendResolve(c)
                        \/ RemoteAnswer(c) \/ RemoteLost(c) \/ ResolveLocally(c) \/ NextNeed(c)

-----------------------------------------------------------------------------
(* Properties.                                                             *)

\* While a server serves, clients find it: nobody else holds the lock or the
\* socket, and no server that is going away removes its descriptor.
ServingIsFound ==
  \A h \in Hosts : host[h].phase = "serving" =>
    {lock, descriptor, listener} = {host[h].token}

\* One need costs at most one resolution, wherever the server dies, restarts or
\* answers late: only a failure before the resolve request is sent falls back to
\* the local engine (ResidentResolveError), and an outcome is never made up.
\* And a serving runtime is the one that clients find.
ResidentServesOnce ==
  /\ \A c \in Clients : /\ caller[c].runs <= 1
                        /\ caller[c].answer = "outcome" => caller[c].runs = 1
  /\ ServingIsFound
=============================================================================
