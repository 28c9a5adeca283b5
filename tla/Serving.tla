------------------------------- MODULE Serving -------------------------------
(***************************************************************************)
(* The controller's process as a server: the middleware that answers for a *)
(* handler (httpserver/server.go), the node-facing listener beside it      *)
(* (nodes/listener.go), and how main leaves: on a signal, on the failure   *)
(* of a listener, or by a panic (cmd/controller/main.go).  Time is not     *)
(* counted: a deadline may pass at any moment.                             *)
(***************************************************************************)
EXTENDS Naturals

CONSTANT SvRequests    \* bound: the requests of one life of the process

\* The public API, its event streams (StreamPathPrefixes), and the node listener.
RequestKinds == {"api", "stream", "node"}

VARIABLES
  svReq,      \* what became of each request
  svMain,     \* main's goroutine: "select", "drain", "gone"
  svExit,     \* how the process ended
  svSignal,   \* SIGTERM came: the process's context is canceled
  svNode      \* the node listener's goroutine: "serves", "drains", "returned"

servingVars == <<svReq, svMain, svExit, svSignal, svNode>>

\* run: the handler; ctx: its context; said: the answers written on the connection;
\* open: net/http still works on the request; gone: the client has hung up.
NoRequest == [kind |-> "none", run |-> "none", ctx |-> "live", said |-> {}, open |-> FALSE, gone |-> FALSE]

ServingInit ==
  /\ svReq = [r \in SvRequests |-> NoRequest]
  /\ svMain = "select" /\ svExit = "none" /\ svSignal = FALSE /\ svNode = "serves"

ServerUp == svMain # "gone"
Set(r, q) == svReq' = [svReq EXCEPT ![r] = q]
svProcess == <<svMain, svExit, svSignal, svNode>>

Listens(kind) == IF kind = "node" THEN svNode = "serves" ELSE svMain = "select"

\* A request is read and its handler started: in a goroutine of its own with a buffer for
\* an API route (withTimeout), in the connection's goroutine for the others.
AcceptRequest(r, kind) ==
  /\ ServerUp /\ svReq[r] = NoRequest /\ Listens(kind)
  /\ Set(r, [NoRequest EXCEPT !.kind = kind, !.run = "running", !.open = TRUE,
                              !.ctx = IF kind = "node" /\ svSignal THEN "canceled" ELSE "live"])
  /\ UNCHANGED svProcess

\* A stream returns only when its client is gone or a write fails (WriteTimeout); the
\* others return in their own time, also after their context was canceled.
HandlerReturns(r) ==
  LET q == svReq[r] IN
  /\ ServerUp /\ q.run = "running"
  /\ Set(r, IF q.kind = "api" THEN [q EXCEPT !.run = "returned"]
            ELSE [q EXCEPT !.run = "returned", !.said = @ \cup {"handler"}, !.open = FALSE])
  /\ UNCHANGED svProcess

\* The deadline of the request's context; only an API route has one.
RequestExpires(r) ==
  /\ ServerUp /\ svReq[r].kind = "api" /\ svReq[r].open /\ svReq[r].ctx = "live"
  /\ Set(r, [svReq[r] EXCEPT !.ctx = "deadline"])
  /\ UNCHANGED svProcess

\* net/http cancels the context of a request whose client hung up.
ClientLeaves(r) ==
  /\ ServerUp /\ svReq[r].open /\ ~svReq[r].gone
  /\ Set(r, [svReq[r] EXCEPT !.gone = TRUE, !.ctx = IF @ = "live" THEN "canceled" ELSE @])
  /\ UNCHANGED svProcess

\* withTimeout's select.  When both channels are ready either branch may be taken.
FlushBuffer(r) ==
  /\ ServerUp /\ svReq[r].kind = "api" /\ svReq[r].open /\ svReq[r].run = "returned"
  /\ Set(r, [svReq[r] EXCEPT !.said = @ \cup {"handler"}, !.open = FALSE,
                             !.ctx = IF @ = "live" THEN "canceled" ELSE @])
  /\ UNCHANGED svProcess

StopWaiting(r) ==
  /\ ServerUp /\ svReq[r].kind = "api" /\ svReq[r].open /\ svReq[r].ctx # "live"
  /\ Set(r, [svReq[r] EXCEPT !.said = IF svReq[r].ctx = "deadline" THEN @ \cup {"503"} ELSE @,
                             !.open = FALSE])
  /\ UNCHANGED svProcess

\* Everything the process was doing ends with it.
Exit(how) ==
  /\ svMain' = "gone" /\ svExit' = how
  /\ svReq' = [r \in SvRequests |->
       [svReq[r] EXCEPT !.run = IF @ = "running" THEN "killed" ELSE @,
                        !.said = IF svReq[r].open THEN @ \cup {"cut"} ELSE @,
                        !.open = FALSE]]
  /\ UNCHANGED <<svSignal, svNode>>

\* withRecovery is around the connection's goroutine: it answers 500 for a stream, and
\* net/http recovers a node's handler.  An API route's handler runs in the goroutine that
\* withTimeout started, where nothing recovers.
HandlerPanics(r) ==
  LET q == svReq[r] IN
  /\ ServerUp /\ q.run = "running"
  /\ IF q.kind = "api" THEN Exit("panic")
     ELSE /\ Set(r, [q EXCEPT !.run = "panicked", !.open = FALSE,
                              !.said = @ \cup {IF q.kind = "stream" THEN "500" ELSE "cut"}])
          /\ UNCHANGED svProcess

\* SIGTERM or SIGINT: the contexts of the node listener's requests derive from main's.
SignalArrives ==
  /\ ServerUp /\ ~svSignal /\ svSignal' = TRUE
  /\ svReq' = [r \in SvRequests |->
       [svReq[r] EXCEPT !.ctx = IF svReq[r].kind = "node" /\ @ = "live" THEN "canceled" ELSE @]]
  /\ UNCHANGED <<svMain, svExit, svNode>>

\* NodeListener.Serve: it waits for the context, then at most 15 s for its requests.
NodeDrains ==
  /\ ServerUp /\ svNode = "serves" /\ svSignal /\ svNode' = "drains"
  /\ UNCHANGED <<svReq, svMain, svExit, svSignal>>

\* It returns after its drain, after the 15 s, or at once when it cannot listen.
NodeReturns ==
  /\ ServerUp /\ svNode \in {"serves", "drains"}
  /\ svNode = "serves" => \A r \in SvRequests : svReq[r].kind # "node"
  /\ svNode' = "returned"
  /\ UNCHANGED <<svReq, svMain, svExit, svSignal>>

\* main's select: a listener's end is a failure, also the node listener's own return
\* after the signal when it is taken first.
NodeListenerEnds == svMain = "select" /\ svNode = "returned" /\ Exit("failed")
HTTPServerFails == svMain = "select" /\ Exit("failed")
DrainStarts ==
  /\ svMain = "select" /\ svSignal /\ svMain' = "drain"
  /\ UNCHANGED <<svReq, svExit, svSignal, svNode>>

\* Mutant of Quiescent: the listeners are closed and nothing is waited for.
ListenersClosed == svMain = "drain"

\* http.Server.Shutdown returns nil once the public server works on no request.
Quiescent == \A r \in SvRequests : svReq[r].open => svReq[r].kind = "node"

ShutdownComplete == svMain = "drain" /\ Quiescent /\ Exit("clean")
\* After shutdownTimeout main closes the connections that are left.
ShutdownTimesOut == svMain = "drain" /\ ~Quiescent /\ Exit("failed")

ServingNext ==
  \/ \E r \in SvRequests :
       \/ \E kind \in RequestKinds : AcceptRequest(r, kind)
       \/ HandlerReturns(r) \/ HandlerPanics(r) \/ RequestExpires(r) \/ ClientLeaves(r) \/ FlushBuffer(r) \/ StopWaiting(r)
  \/ SignalArrives \/ NodeDrains \/ NodeReturns \/ NodeListenerEnds \/ HTTPServerFails
  \/ DrainStarts \/ ShutdownComplete \/ ShutdownTimesOut

ServingSpec == ServingInit /\ [][ServingNext]_servingVars

-----------------------------------------------------------------------------
\* What a client is told is true, and a clean exit drops nothing (server.go:298-332,
\* main.go:274-284): a connection carries one answer; it is the handler's only when
\* the handler ran to its end, so a handler that outlives its deadline adds nothing
\* to the 503; a request that is over without an answer lost its client; and a
\* process that exits cleanly has answered every public request, and kills no
\* handler whose context had not told it to stop.
AnswersAreWhole ==
  \A r \in SvRequests : LET q == svReq[r] IN
    /\ \A one, other \in q.said : one = other
    /\ "handler" \in q.said => q.run = "returned"
    /\ q.kind = "api" /\ ~q.open /\ q.said = {} => q.gone
    /\ svExit = "clean" =>
         /\ q.kind # "node" => "cut" \notin q.said
         /\ q.run = "killed" => q.ctx # "live"

\* server.go:84-85: "a panicking handler must never kill the process".
PanicIsContained == svExit # "panic"
=============================================================================
