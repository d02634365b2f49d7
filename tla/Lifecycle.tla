----------------------------- MODULE Lifecycle -----------------------------
(***************************************************************************)
(* cmd/server/main.go, run: the server is put together, waits for a signal *)
(* or for the end of one of its listeners, and is taken apart again; with  *)
(* ListenAndServe and Shutdown of internal/tcp/crypto_server.go and, of    *)
(* every device connection, what Shutdown depends on.                      *)
(*                                                                         *)
(* main goes through Steps in order ("boot"; an error leads to "return"),  *)
(* waits ("select"), and then through                                      *)
(*   "draining"                  httpSrv.Shutdown                          *)
(*   "quit", "unlisten", "wait"  cryptoSrv.Shutdown                        *)
(*   "files", "channels"   frameLogs.CloseAll, close of both channels      *)
(*   "return"              the deferred calls, last one first              *)
(*   "exited"              which ends every other goroutine.               *)
(* A connection is "queued" when Accept returned it, "spawned" when it is  *)
(* counted and its goroutine started, then "running" (in ReadFrame),       *)
(* "handling" a frame, "querying" (handling it, in a database statement),  *)
(* "closing" (its deferred calls) and "closed" before wg.Done, and "done". *)
(* WebSockets are hijacked connections, which httpSrv.Shutdown neither     *)
(* waits for nor closes; the two ticker goroutines of main are never       *)
(* stopped.  Neither holds anything up and both are left out.              *)
(***************************************************************************)
EXTENDS Integers, Sequences, FiniteSets, SequencesExt

CONSTANTS Conn, Request

VARIABLES stage, step,     \* main
          defers, told,    \* calls deferred and not yet done; told to stop
          up,              \* what runs or is open
          http, reqs,      \* HTTP server; requests in a database statement
          acceptor, ln,    \* ListenAndServe and its listener (s.ln)
          quit, wg,
          conn, quiet,     \* connections; devices that send nothing any more
          files,           \* connections with a file session
          logOpen,         \* logChan and timeLogs are not closed
          crashed,         \* a send on a closed channel
          graceful,        \* history: main left select
          missed,          \* history: Shutdown found s.ln still nil
          late             \* history: counted after wg.Wait returned

mainVars == <<stage, step, defers, told, graceful, missed>>
connVars == <<acceptor, wg, conn, quiet, late>>
vars == <<mainVars, connVars, up, http, reqs, ln, quit, files, logOpen,
          crashed>>

\* Goroutines that are told to stop and waited for.
Awaited == {"measurements", "clock"}

Steps == <<"config", "connect", "migrate", "measurements", "bootstrap",
           "clock", "hub", "health", "crypto", "web", "http">>

\* Steps that return an error.
Fallible == {"config", "connect", "migrate", "bootstrap", "web"}

\* What a step starts and defers the end of.
Starts(s) == CASE s = "connect" -> <<"pool">>
               [] s \in {"measurements", "clock", "hub", "health"} -> <<s>>
               [] OTHER -> <<>>

Init ==
  /\ stage = "boot" /\ step = 1 /\ defers = <<>> /\ told = {} /\ up = {}
  /\ http = "off" /\ reqs = {}
  /\ acceptor = "off" /\ ln = "nil" /\ quit = FALSE /\ wg = 0
  /\ conn = [c \in Conn |-> "none"] /\ quiet = {}
  /\ files = {} /\ logOpen = TRUE /\ crashed = FALSE
  /\ graceful = FALSE /\ missed = FALSE /\ late = {}

----------------------------------------------------------------------------
(* main.                                                                   *)

\* defer
Defer(s) == defers \o Starts(s)

\* One step of run; the crypto server and the HTTP server are goroutines.
Boot ==
  LET s == Steps[step]
  IN  /\ stage = "boot"
      /\ step' = step + 1
      /\ stage' = IF step = Len(Steps) THEN "select" ELSE "boot"
      /\ defers' = Defer(s) /\ up' = up \union ToSet(Starts(s))
      /\ acceptor' = IF s = "crypto" THEN "listen" ELSE acceptor
      /\ http' = IF s = "http" THEN "open" ELSE http
      /\ UNCHANGED <<told, graceful, missed, wg, conn, quiet, late, reqs, ln,
                     quit, files, logOpen, crashed>>

BootFails ==
  /\ stage = "boot" /\ Steps[step] \in Fallible
  /\ stage' = "return"
  /\ UNCHANGED <<step, defers, told, graceful, missed, connVars, up, http,
                 reqs, ln, quit, files, logOpen, crashed>>

\* Leaves select on a signal, on cryptoErr or on httpErr; httpSrv.Shutdown
\* closes the HTTP listener.
Select ==
  /\ stage = "select"
  /\ stage' = "draining" /\ graceful' = TRUE
  /\ http' = "shut"
  /\ UNCHANGED <<step, defers, told, missed, connVars, up, reqs, ln, quit,
                 files, logOpen, crashed>>

MainStep(from, to) ==
  /\ stage = from /\ stage' = to
  /\ UNCHANGED <<step, defers, told, graceful, connVars, up, http, reqs,
                 crashed>>

\* The requests have ended, or ten seconds are over.
HttpDrained ==
  /\ MainStep("draining", "quit")
  /\ UNCHANGED <<missed, ln, quit, files, logOpen>>

\* Shutdown: close(s.quit)
CloseQuit ==
  /\ MainStep("quit", "unlisten")
  /\ quit' = TRUE
  /\ UNCHANGED <<missed, ln, files, logOpen>>

\* Mutation of the next definition: the listener stays open.
CloseListenerNot ==
  /\ MainStep("unlisten", "wait")
  /\ missed' = (ln = "nil")
  /\ UNCHANGED <<ln, quit, files, logOpen>>

\* Shutdown: s.ln.Close(), unless ListenAndServe has not set it yet.
CloseListener ==
  /\ MainStep("unlisten", "wait")
  /\ ln' = IF ln = "open" THEN "closed" ELSE ln
  /\ missed' = (ln = "nil")
  /\ UNCHANGED <<quit, files, logOpen>>

\* Mutation of the next definition: Shutdown does not wait.
WaitNot ==
  /\ MainStep("wait", "files")
  /\ UNCHANGED <<missed, ln, quit, files, logOpen>>

\* Shutdown: s.wg.Wait()
WaitDone ==
  /\ wg = 0
  /\ MainStep("wait", "files")
  /\ UNCHANGED <<missed, ln, quit, files, logOpen>>

\* frameLogs.CloseAll()
CloseAll ==
  /\ MainStep("files", "channels")
  /\ files' = {}
  /\ UNCHANGED <<missed, ln, quit, logOpen>>

\* close(logChan), close(timeLogs)
CloseChannels ==
  /\ MainStep("channels", "return")
  /\ logOpen' = FALSE
  /\ UNCHANGED <<missed, ln, quit, files>>

\* A deferred call closes a quit channel (health, hub, clock, measurements).
Tell ==
  /\ stage = "return" /\ defers # <<>> /\ Last(defers) \notin told
  /\ told' = told \union {Last(defers)}
  /\ UNCHANGED <<stage, step, defers, graceful, missed, connVars, up, http,
                 reqs, ln, quit, files, logOpen, crashed>>

\* The deferred call returns: measurements and clock have been waited for;
\* pool.Close waits for the statements of requests and connections.
Deferred ==
  LET r == Last(defers)
  IN  /\ stage = "return" /\ defers # <<>> /\ r \in told
      /\ r \in Awaited => r \notin up
      /\ r = "pool" => reqs = {} /\ \A c \in Conn : conn[c] # "querying"
      /\ defers' = Front(defers)
      /\ up' = up \ ({r} \intersect {"pool"})
      /\ UNCHANGED <<stage, step, told, graceful, missed, connVars, http, reqs,
                     ln, quit, files, logOpen, crashed>>

Exit ==
  /\ stage = "return" /\ defers = <<>>
  /\ stage' = "exited"
  /\ UNCHANGED <<step, defers, told, graceful, missed, connVars, up, http,
                 reqs, ln, quit, files, logOpen, crashed>>


\* A background goroutine sees that its quit channel is closed.
Stops(g) ==
  /\ g \in (up \intersect told) \ {"pool"}
  /\ up' = up \ {g}
  /\ UNCHANGED <<mainVars, connVars, http, reqs, ln, quit, files, logOpen,
                 crashed>>

----------------------------------------------------------------------------
(* The HTTP server: requests in a statement, and its failure.              *)

RequestBegin(r) ==
  /\ http = "open" /\ r \notin reqs
  /\ reqs' = reqs \union {r}
  /\ UNCHANGED <<mainVars, connVars, up, http, ln, quit, files, logOpen,
                 crashed>>

RequestEnd(r) ==
  /\ r \in reqs
  /\ reqs' = reqs \ {r}
  /\ UNCHANGED <<mainVars, connVars, up, http, ln, quit, files, logOpen,
                 crashed>>

----------------------------------------------------------------------------
(* ListenAndServe.                                                         *)

Listen ==
  /\ acceptor = "listen"
  /\ acceptor' = "accept" /\ ln' = "open"
  /\ UNCHANGED <<mainVars, wg, conn, quiet, late, up, http, reqs, quit, files,
                 logOpen, crashed>>

Accept(c) ==
  /\ acceptor = "accept" /\ ln = "open" /\ conn[c] = "none"
  /\ acceptor' = "counting"
  /\ conn' = [conn EXCEPT ![c] = "queued"]
  /\ UNCHANGED <<mainVars, wg, quiet, late, up, http, reqs, ln, quit, files,
                 logOpen, crashed>>

\* s.wg.Add(1), go s.handleConnection(conn)
Count(c) ==
  /\ acceptor = "counting" /\ conn[c] = "queued"
  /\ acceptor' = "accept"
  /\ wg' = wg + 1
  /\ conn' = [conn EXCEPT ![c] = "spawned"]
  /\ late' = IF stage \in {"files", "channels", "return"} /\ graceful
               THEN late \union {c} ELSE late
  /\ UNCHANGED <<mainVars, quiet, up, http, reqs, ln, quit, files, logOpen,
                 crashed>>

\* Listen or Accept returns an error: the listener is closed, or another one.
AcceptorEnds ==
  /\ acceptor \in {"listen", "accept"}
  /\ acceptor' = "ended"
  /\ UNCHANGED <<mainVars, wg, conn, quiet, late, up, http, reqs, ln, quit,
                 files, logOpen, crashed>>

----------------------------------------------------------------------------
(* handleConnection.                                                       *)

MovesTo(c, to) == conn' = [conn EXCEPT ![c] = to] /\ UNCHANGED crashed

\* logEvent or logRawFrame: the select with a default does not help against
\* a closed channel.
LogsTo(c, to) == IF logOpen THEN MovesTo(c, to)
                            ELSE crashed' = TRUE /\ UNCHANGED conn

Start(c) ==
  /\ conn[c] = "spawned"
  /\ LogsTo(c, "running")
  /\ UNCHANGED <<mainVars, acceptor, wg, quiet, late, up, http, reqs, ln, quit,
                 files, logOpen>>

\* ReadFrame returns a frame.
Frame(c) ==
  /\ conn[c] = "running" /\ c \notin quiet
  /\ LogsTo(c, "handling")
  /\ UNCHANGED <<mainVars, acceptor, wg, quiet, late, up, http, reqs, ln, quit,
                 files, logOpen>>

\* UpdateLastSeen and the queries of the 0x65 handler.  Once pool.Close has
\* begun they get an error.
Query(c) ==
  /\ conn[c] = "handling" /\ "pool" \in up \ told
  /\ MovesTo(c, "querying")
  /\ UNCHANGED <<mainVars, acceptor, wg, quiet, late, up, http, reqs, ln, quit,
                 files, logOpen>>

QueryEnds(c) ==
  /\ conn[c] = "querying"
  /\ MovesTo(c, "handling")
  /\ UNCHANGED <<mainVars, acceptor, wg, quiet, late, up, http, reqs, ln, quit,
                 files, logOpen>>

\* A frame of an authorized device opens its file session.
OpenLogs(c) ==
  /\ conn[c] = "handling" /\ c \notin files
  /\ files' = files \union {c}
  /\ UNCHANGED <<mainVars, connVars, up, http, reqs, ln, quit, logOpen,
                 crashed>>

\* The frame is handled: logged, answered, sent to the hub.  An error of the
\* handler ends a connection that is not authorized.
Answered(c) ==
  /\ conn[c] = "handling"
  /\ \E to \in {"running", "closing"} : MovesTo(c, to) \/ LogsTo(c, to)
  /\ UNCHANGED <<mainVars, acceptor, wg, quiet, late, up, http, reqs, ln, quit,
                 files, logOpen>>

\* The device closes the connection or sends nothing for five minutes.
Quiet(c) ==
  /\ conn[c] \in {"queued", "spawned", "running", "handling", "querying"}
  /\ c \notin quiet
  /\ quiet' = quiet \union {c}
  /\ UNCHANGED <<mainVars, acceptor, wg, conn, late, up, http, reqs, ln, quit,
                 files, logOpen, crashed>>

\* ReadFrame fails and the loop returns.
ReadError(c) ==
  /\ conn[c] = "running" /\ c \in quiet
  /\ LogsTo(c, "closing")
  /\ UNCHANGED <<mainVars, acceptor, wg, quiet, late, up, http, reqs, ln, quit,
                 files, logOpen>>

\* Deferred: s.logs.Close, close(connDone), conn.Close
CloseLogs(c) ==
  /\ conn[c] = "closing"
  /\ conn' = [conn EXCEPT ![c] = "closed"]
  /\ files' = files \ {c}
  /\ UNCHANGED <<mainVars, acceptor, wg, quiet, late, up, http, reqs, ln, quit,
                 logOpen, crashed>>

\* Deferred first and done last: s.wg.Done
Done(c) ==
  /\ conn[c] = "closed"
  /\ conn' = [conn EXCEPT ![c] = "done"]
  /\ wg' = wg - 1
  /\ UNCHANGED <<mainVars, acceptor, quiet, late, up, http, reqs, ln, quit,
                 files, logOpen, crashed>>

----------------------------------------------------------------------------
Shutdown == \/ HttpDrained \/ CloseQuit \/ CloseListener \/ WaitDone
            \/ CloseAll \/ CloseChannels \/ Tell \/ Deferred \/ Exit

Connection(c) == \/ Start(c) \/ ReadError(c) \/ CloseLogs(c) \/ Done(c)

Handling(c) == \/ Frame(c) \/ Query(c) \/ QueryEnds(c) \/ OpenLogs(c)
               \/ Answered(c)

Running == stage # "exited" /\ ~crashed

Next == /\ Running
        /\ \/ Boot \/ BootFails \/ Select \/ Shutdown
           \/ \E g \in up : Stops(g)
           \/ \E r \in Request : RequestBegin(r) \/ RequestEnd(r)
           \/ Listen \/ AcceptorEnds
           \/ \E c \in Conn : \/ Accept(c) \/ Count(c) \/ Connection(c)
                              \/ Handling(c) \/ Quiet(c)

\* The goroutines run.  Nothing makes a device quiet, a listener fail or a
\* signal come.  Nor does anything end the handling of a frame, which may
\* hang in a write to a device that does not read (only reads have a
\* deadline) or in a statement (without a timeout), or a request's statement.
Fairness ==
  /\ WF_vars(Running /\ Shutdown)
  /\ \A g \in {"measurements", "clock", "hub", "health"} :
       WF_vars(Running /\ Stops(g))
  /\ \A c \in Conn : WF_vars(Running /\ (Count(c) \/ Connection(c)))

Spec == Init /\ [][Next]_vars /\ Fairness

----------------------------------------------------------------------------
(* Properties.                                                             *)

\* When the file logs, the log channels, the hub and the database are closed
\* on the way through the graceful shutdown, every connection that was
\* counted in time has done its last deferred call and has no file open.
\* After a failed start the deferred calls may meet connections, but only if
\* it was web.NewServer that failed.  The pool is closed last in either case:
\* no statement of a request or of a connection and no goroutine of the
\* measurement store is left.
OrderlyTeardown ==
  /\ graceful /\ stage \in {"files", "channels", "return", "exited"} =>
       \A c \in Conn \ late : conn[c] \in {"none", "queued", "done"}
                                /\ c \notin files
  /\ ~graceful /\ stage \in {"return", "exited"} =>
       Steps[step] = "web" \/ \A c \in Conn : conn[c] = "none"
  /\ "pool" \notin up =>
       /\ "measurements" \notin up /\ reqs = {}
       /\ \A c \in Conn : conn[c] # "querying"

\* wg.Add comes after Accept: the connection ListenAndServe has just got may
\* be counted after wg.Wait returned.  It is the only one, unless Shutdown
\* came before the listener existed.
AtMostOneLate == ~missed => Cardinality(late) <= 1

\* What Shutdown waits for without a limit of time: the devices, ...
DevicesGetQuiet ==
  \A c \in Conn :
    []<>(conn[c] \in {"spawned", "running", "handling", "querying"}
           => c \in quiet)

\* ... the handling of the frame each connection has in hand, ...
FramesGetHandled ==
  \A c \in Conn : []<>(conn[c] \notin {"handling", "querying"})

\* ... and the statements of the web requests.
RequestsEnd == \A r \in Request : []<>(r \notin reqs)

=============================================================================
