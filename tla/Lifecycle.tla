----------------------------- MODULE Lifecycle -----------------------------
(***************************************************************************)
(* cmd/main.go from the first connection to the end of the process: main   *)
(* starts one goroutine that serves HTTP and one that serves gRPC, waits   *)
(* for a signal, and shuts down the one and then the other before its      *)
(* deferred calls close Redis and PostgreSQL.                              *)
(***************************************************************************)
EXTENDS FiniteSets

CONSTANTS
    Request,    \* HTTP requests
    Call,       \* unary gRPC calls: their handlers end by themselves
    Stream,     \* gRPC streams: they end when their clients let them, see Streams
    Faults      \* what may go wrong, a set of the names in the actions below

VARIABLES
    main,       \* where main() stands
    http, grpc, \* where the two serving goroutines stand
    requests, calls, streams,   \* what is being served
    signalled,  \* a signal has been sent
    forced,     \* history: server.Shutdown gave up after its 5 seconds
    exited      \* "no", or how the process ended

vars == <<main, http, grpc, requests, calls, streams, signalled, forced, exited>>

TypeOK ==
    /\ main \in {"load", "connect", "notified", "httpSpawned", "listening", "waiting",
                 "shutdown", "gracefulStop", "closing"}
    /\ http \in {"none", "spawned", "serving", "closed"}
    /\ grpc \in {"none", "spawned", "serving", "closed"}
    /\ requests \subseteq Request
    /\ calls \subseteq Call
    /\ streams \subseteq Stream
    /\ signalled \in BOOLEAN
    /\ forced \in BOOLEAN
    /\ exited \in {"no", "clean", "panic", "killed"}

Init ==
    /\ main = "load"
    /\ http = "none"
    /\ grpc = "none"
    /\ requests = {}
    /\ calls = {}
    /\ streams = {}
    /\ signalled = FALSE
    /\ forced = FALSE
    /\ exited = "no"

-----------------------------------------------------------------------------
serving == <<requests, calls, streams>>
Running == exited = "no"

\* main() goes on from one point to the next.
Main(from, to) ==
    /\ Running
    /\ main = from
    /\ main' = to

Panic ==
    /\ exited' = "panic"
    /\ UNCHANGED <<main, http, grpc, serving, signalled, forced>>

\* config.Load finds DB_USER, DB_PASSWORD, JWT_SECRET and JWT_REFRESH_SECRET; every
\* other setting has a default.
Load ==
    /\ Main("load", "connect")
    /\ UNCHANGED <<http, grpc, serving, signalled, forced, exited>>

LoadFails ==
    /\ "unset" \in Faults
    /\ Running /\ main = "load"
    /\ Panic

\* PostgreSQL and Redis are there, and signals go to `quit' from now on.
Connect ==
    /\ Main("connect", "notified")
    /\ UNCHANGED <<http, grpc, serving, signalled, forced, exited>>

ConnectFails ==
    /\ "dependencyDown" \in Faults
    /\ Running /\ main = "connect"
    /\ Panic

SpawnHTTP ==
    /\ Main("notified", "httpSpawned")
    /\ http' = "spawned"
    /\ UNCHANGED <<grpc, serving, signalled, forced, exited>>

Listen ==
    /\ Main("httpSpawned", "listening")
    /\ UNCHANGED <<http, grpc, serving, signalled, forced, exited>>

ListenFails ==
    /\ "portTaken" \in Faults
    /\ Running /\ main = "httpSpawned"
    /\ Panic

\* Mutant: Serve is called where it stands, without `go', and main never waits.
SpawnGRPCInline ==
    /\ Main("listening", "serving")
    /\ grpc' = "serving"
    /\ UNCHANGED <<http, serving, signalled, forced, exited>>

SpawnGRPC ==
    /\ Main("listening", "waiting")
    /\ grpc' = "spawned"
    /\ UNCHANGED <<http, serving, signalled, forced, exited>>

\* <-quit, and server.Shutdown takes the listener away.
Quit ==
    /\ signalled
    /\ Main("waiting", "shutdown")
    /\ http' = IF http = "serving" THEN "closed" ELSE http
    /\ UNCHANGED <<grpc, serving, signalled, forced, exited>>

\* Mutant: server.Shutdown is given a context without timeout.
ShutdownReturnsIdle ==
    /\ Main("shutdown", "gracefulStop")
    /\ requests = {}
    /\ grpc' = IF grpc = "serving" THEN "closed" ELSE grpc
    /\ UNCHANGED <<http, serving, signalled, forced, exited>>

\* Shutdown returns when nothing is being served, or after 5 seconds; GracefulStop
\* takes the gRPC listener away.
ShutdownReturns ==
    /\ Main("shutdown", "gracefulStop")
    /\ forced' = (requests # {})
    /\ grpc' = IF grpc = "serving" THEN "closed" ELSE grpc
    /\ UNCHANGED <<http, serving, signalled, exited>>

\* Mutant: Stop for GracefulStop.
StopReturns ==
    /\ Main("gracefulStop", "closing")
    /\ UNCHANGED <<http, grpc, serving, signalled, forced, exited>>

\* GracefulStop waits for every call and stream, however long.
GracefulStopReturns ==
    /\ Main("gracefulStop", "closing")
    /\ calls = {} /\ streams = {}
    /\ UNCHANGED <<http, grpc, serving, signalled, forced, exited>>

\* The deferred Close calls run and the process ends with what is left in it.
Return ==
    /\ Main("closing", "closing")
    /\ exited' = "clean"
    /\ UNCHANGED <<http, grpc, serving, signalled, forced>>

-----------------------------------------------------------------------------
\* server.ListenAndServe: after Shutdown it is told ErrServerClosed, which is no
\* error to main.go.
ServeHTTP ==
    /\ Running
    /\ http = "spawned"
    /\ http' = IF main \in {"shutdown", "gracefulStop", "closing"} THEN "closed" ELSE "serving"
    /\ UNCHANGED <<main, grpc, serving, signalled, forced, exited>>

ServeHTTPFails ==
    /\ "portTaken" \in Faults
    /\ Running /\ http = "spawned"
    /\ Panic

\* grpcServer.Serve, when it comes before GracefulStop.
ServeGRPC ==
    /\ Running
    /\ grpc = "spawned"
    /\ main \notin {"gracefulStop", "closing"}
    /\ grpc' = "serving"
    /\ UNCHANGED <<main, http, serving, signalled, forced, exited>>

\* When it comes after, Serve returns ErrServerStopped.
ServeGRPCStopped ==
    /\ Running
    /\ grpc = "spawned"
    /\ main \in {"gracefulStop", "closing"}
    /\ Panic

\* Work comes in while its server accepts it, and ends.
AcceptRequest(r) ==
    /\ Running /\ http = "serving"
    /\ r \notin requests
    /\ requests' = requests \cup {r}
    /\ UNCHANGED <<main, http, grpc, calls, streams, signalled, forced, exited>>

AcceptCall(c) ==
    /\ Running /\ grpc = "serving"
    /\ c \notin calls
    /\ calls' = calls \cup {c}
    /\ UNCHANGED <<main, http, grpc, requests, streams, signalled, forced, exited>>

OpenStream(s) ==
    /\ Running /\ grpc = "serving"
    /\ s \notin streams
    /\ streams' = streams \cup {s}
    /\ UNCHANGED <<main, http, grpc, requests, calls, signalled, forced, exited>>

FinishRequest(r) ==
    /\ Running
    /\ r \in requests
    /\ requests' = requests \ {r}
    /\ UNCHANGED <<main, http, grpc, calls, streams, signalled, forced, exited>>

\* The handler has returned or panicked: RecoveryUnaryInterceptor answers either way.
FinishCall(c) ==
    /\ Running
    /\ c \in calls
    /\ calls' = calls \ {c}
    /\ UNCHANGED <<main, http, grpc, requests, streams, signalled, forced, exited>>

\* The handler of a stream returns, which Streams says more of.
CloseStream(s) ==
    /\ Running
    /\ s \in streams
    /\ streams' = streams \ {s}
    /\ UNCHANGED <<main, http, grpc, requests, calls, signalled, forced, exited>>

\* The handler of a stream panics: streams have no recovery interceptor, so the process
\* ends with all it was doing.
StreamPanics(s) ==
    /\ "panic" \in Faults
    /\ Running /\ s \in streams
    /\ Panic

\* SIGINT or SIGTERM: the default action before signal.Notify; `quit' holds one
\* signal and nothing takes a second one from it.
Signal ==
    /\ Running
    /\ ~signalled
    /\ signalled' = TRUE
    /\ exited' = IF main \in {"load", "connect"} THEN "killed" ELSE "no"
    /\ UNCHANGED <<main, http, grpc, serving, forced>>

MainStep ==
    \/ Load \/ LoadFails
    \/ Connect \/ ConnectFails
    \/ SpawnHTTP
    \/ Listen \/ ListenFails
    \/ SpawnGRPC
    \/ Quit \/ ShutdownReturns \/ GracefulStopReturns \/ Return

HTTPStep == ServeHTTP \/ ServeHTTPFails
GRPCStep == ServeGRPC \/ ServeGRPCStopped

\* All but the streams.
ProcessStep ==
    \/ MainStep \/ HTTPStep \/ GRPCStep
    \/ \E r \in Request : AcceptRequest(r) \/ FinishRequest(r)
    \/ \E c \in Call : AcceptCall(c) \/ FinishCall(c)
    \/ Signal

Next ==
    \/ ProcessStep
    \/ \E s \in Stream : OpenStream(s) \/ CloseStream(s) \/ StreamPanics(s)

Spec == Init /\ [][Next]_vars

\* The three goroutines and the handlers that end by themselves are scheduled; no
\* client has to close a stream.
Fairness ==
    /\ WF_vars(MainStep)
    /\ WF_vars(HTTPStep)
    /\ WF_vars(GRPCStep)
    /\ \A c \in Call : WF_vars(FinishCall(c))

FairSpec == Spec /\ Fairness

-----------------------------------------------------------------------------
(***************************************************************************)
(* Properties                                                              *)
(***************************************************************************)

\* Redis and PostgreSQL are closed behind the last request: nothing is being served
\* when main() returns, but HTTP requests that outlast the 5 seconds.
ClosedAfterUse ==
    main = "closing" =>
        /\ calls = {} /\ streams = {}
        /\ requests # {} => forced

\* A signal ends the process, unless a client keeps a stream open for ever.
SignalEndsProcess ==
    <>[](streams = {}) => (signalled ~> ~Running)

\* The last line of main(), "Server stopped gracefully": with every dependency there
\* and every port free, a signal does not make the process panic.
StopsGracefully == exited # "panic"
=============================================================================
