------------------------------ MODULE Lifecycle ------------------------------
(***************************************************************************)
(* The module in the processes of a PHP server: MINIT, RINIT, RSHUTDOWN    *)
(* and MSHUTDOWN with the hook chain, the exporter's thread and what the   *)
(* buffer holds (php_trace.cpp, loki_exporter.cpp).  One PHP thread per    *)
(* process, as in an NTS build.                                            *)
(*                                                                         *)
(* A process forks between requests (a prefork server) or inside one       *)
(* (pcntl_fork): the child has a copy of the memory, std::thread object    *)
(* included, and none of the other threads.  Another extension may hook    *)
(* the same pointers before this module does, or after it.                 *)
(***************************************************************************)
EXTENDS Naturals, FiniteSets

CONSTANTS
  Process,   \* the processes there can be
  First,     \* the one that loads the module
  MaxReloads \* bound: how often the server loads its modules anew, as Apache does once

ASSUME LifecycleAssumption == First \in Process /\ MaxReloads \in Nat

VARIABLES
  conf,      \* enabled, trace_internal on PHP < 8.3, and when the other extension hooks
  status,    \* how far each process is in its life
  reloads,   \* reloads so far
  g          \* each process's copy of the globals and of the exporter's fields

vars == <<conf, status, reloads, g>>

Null == "null"
Hook == {"zend", "php_trace", "other", Null}
Conf == [enabled : BOOLEAN, hook_internal : BOOLEAN, other : {"none", "before", "after"}]

\* "copied": the std::thread is joinable, but its thread is one of another process.
Globals == [
  zend_execute_ex : Hook \ {Null}, original_execute_ex : Hook, other_ex : Hook,
  zend_execute_internal : Hook, original_execute_internal : Hook, other_internal : Hook,
  hook_installed : BOOLEAN, buffer : BOOLEAN, exporter : BOOLEAN,
  running : BOOLEAN, stop_requested : BOOLEAN, worker : {"none", "live", "ended", "copied"},
  held : BOOLEAN,         \* the buffer holds spans
  terminated : BOOLEAN]   \* a joinable std::thread was assigned to or destroyed (history)

\* What another extension does to the two pointers, and how it undoes it.
OtherHooks(r) ==
  [r EXCEPT !.other_ex = r.zend_execute_ex, !.zend_execute_ex = "other",
            !.other_internal = r.zend_execute_internal, !.zend_execute_internal = "other"]
OtherUnhooks(r) ==
  [r EXCEPT !.zend_execute_ex = r.other_ex, !.other_ex = Null,
            !.zend_execute_internal = r.other_internal, !.other_internal = Null]

\* The engine before MINIT: no hook, or the other extension's.
Loaded(r) ==
  LET fresh == [r EXCEPT !.zend_execute_ex = "zend", !.zend_execute_internal = Null,
                         !.other_ex = Null, !.other_internal = Null]
  IN  IF conf.other = "before" THEN OtherHooks(fresh) ELSE fresh

Unloaded == [
  zend_execute_ex |-> "zend", original_execute_ex |-> Null, other_ex |-> Null,
  zend_execute_internal |-> Null, original_execute_internal |-> Null, other_internal |-> Null,
  hook_installed |-> FALSE, buffer |-> FALSE, exporter |-> FALSE,
  running |-> FALSE, stop_requested |-> FALSE, worker |-> "none", held |-> FALSE,
  terminated |-> FALSE]

Init ==
  /\ conf \in Conf
  /\ status = [p \in Process |-> IF p = First THEN "loaded" ELSE "none"]
  /\ reloads = 0
  /\ g = [p \in Process |-> Loaded(Unloaded)]

(***************************************************************************)
(* install_hook, remove_hook and start.                                    *)
(***************************************************************************)
InstallAgain(r) ==
  [r EXCEPT !.original_execute_ex = r.zend_execute_ex, !.zend_execute_ex = "php_trace",
            !.hook_installed = TRUE]

InstallHook(r) ==
  IF r.hook_installed THEN r
  ELSE LET user == [r EXCEPT !.original_execute_ex = r.zend_execute_ex,
                             !.zend_execute_ex = "php_trace", !.hook_installed = TRUE]
       IN  IF conf.hook_internal
             THEN [user EXCEPT !.original_execute_internal = r.zend_execute_internal,
                               !.zend_execute_internal = "php_trace"]
             ELSE user

RemoveUnguarded(r) ==
  LET user == [r EXCEPT !.zend_execute_ex = r.original_execute_ex,
                        !.original_execute_ex = Null, !.hook_installed = FALSE]
  IN  IF r.original_execute_internal = Null THEN user
      ELSE [user EXCEPT !.zend_execute_internal = r.original_execute_internal,
                        !.original_execute_internal = Null]
RemoveHook(r) == IF r.hook_installed THEN RemoveUnguarded(r) ELSE r

NeverRunning(r) == FALSE
IsRunning(r) == r.running

\* A std::thread that is neither joined nor empty; std::terminate() is what comes of
\* assigning to it or of destroying it.
Joinable(r) == r.worker # "none"

\* The outcomes of start(): the thread is made, or it is not and nothing says so.
Start(r) ==
  IF IsRunning(r) THEN {r}
  ELSE LET ready == [r EXCEPT !.stop_requested = FALSE]
       IN  {ready, [ready EXCEPT !.worker = "live", !.running = TRUE,
                                 !.terminated = @ \/ Joinable(r)]}

(***************************************************************************)
(* The module's four callbacks.                                            *)
(***************************************************************************)
\* p's status and globals change, and nothing else.
Goes(p, from, to, r) ==
  /\ status[p] = from
  /\ status' = [status EXCEPT ![p] = to]
  /\ g' = [g EXCEPT ![p] = r]
  /\ UNCHANGED <<conf, reloads>>

MINIT(p) ==
  LET made == [g[p] EXCEPT !.buffer = TRUE, !.held = FALSE, !.exporter = TRUE,
                           !.running = FALSE, !.stop_requested = FALSE]
  IN  \E r \in IF conf.enabled THEN Start(InstallHook(made)) ELSE {made} :
        Goes(p, "loaded", "minit", r)

\* An extension that was loaded later initialises itself.
ModulesUp(p) == Goes(p, "minit", "up", IF conf.other = "after" THEN OtherHooks(g[p]) ELSE g[p])

RINIT(p) ==
  LET r == IF conf.enabled THEN InstallHook(g[p]) ELSE g[p]
  IN  \E s \in IF r.exporter THEN Start(r) ELSE {r} : Goes(p, "up", "serving", s)

RSHUTDOWN(p) == Goes(p, "serving", "up", g[p])

\* Modules shut down in reverse order, so the one loaded later comes first.
ModulesDown(p) ==
  Goes(p, "up", "down", IF conf.other = "after" THEN OtherUnhooks(g[p]) ELSE g[p])

\* MSHUTDOWN calls stop(), which first of all asks the worker to stop.
BufferDeletedFirst(r) == [r EXCEPT !.stop_requested = @ \/ r.running, !.buffer = FALSE]
RequestStop(r) == [r EXCEPT !.stop_requested = @ \/ r.running]

StopWorker(p) == Goes(p, "down", "stopping", RequestStop(g[p]))

\* join() waits for the worker; what it does with a copied thread is undefined, so that it
\* may return, or not be seen to.
DetachInstead(r) == TRUE
CanJoin(r) == r.worker # "live"

JoinWorker(p) ==
  /\ CanJoin(g[p])
  /\ Goes(p, "stopping", "joined",
          IF g[p].running THEN [g[p] EXCEPT !.worker = "none", !.running = FALSE] ELSE g[p])

\* The exporter is deleted with its std::thread; the stop() of its destructor, after another,
\* returns at once.
DeleteExporter(r) == [r EXCEPT !.exporter = FALSE, !.terminated = @ \/ Joinable(r)]

\* Then the hooks are removed and the buffer is deleted.
Cleanup(p) ==
  Goes(p, "joined", "unloaded",
       [RemoveHook(DeleteExporter(g[p])) EXCEPT !.buffer = FALSE, !.held = FALSE])

\* The server starts the engine anew in the same process; the library was not unmapped.
Reload ==
  /\ status[First] = "unloaded"
  /\ reloads < MaxReloads
  /\ reloads' = reloads + 1
  /\ status' = [status EXCEPT ![First] = "loaded"]
  /\ g' = [g EXCEPT ![First] = Loaded(@)]
  /\ UNCHANGED conf

(***************************************************************************)
(* Spans, the worker, and the fate of processes.                           *)
(***************************************************************************)
Push(p) ==
  /\ status[p] = "serving" /\ g[p].buffer
  /\ g' = [g EXCEPT ![p].held = TRUE]
  /\ UNCHANGED <<conf, status, reloads>>

WorkerDrains(p) ==
  /\ g[p].worker = "live" /\ g[p].held
  /\ g' = [g EXCEPT ![p].held = FALSE]
  /\ UNCHANGED <<conf, status, reloads>>

\* The worker leaves its loop and drains what is left.
WorkerEnds(p) ==
  /\ g[p].worker = "live" /\ g[p].stop_requested
  /\ g' = [g EXCEPT ![p].worker = "ended", ![p].held = FALSE]
  /\ UNCHANGED <<conf, status, reloads>>

Fork(p, q) ==
  /\ status[p] \in {"up", "serving"} /\ status[q] = "none"
  /\ status' = [status EXCEPT ![q] = status[p]]
  /\ g' = [g EXCEPT ![q] = [g[p] EXCEPT !.worker = IF @ = "none" THEN @ ELSE "copied"]]
  /\ UNCHANGED <<conf, reloads>>

\* A process ends without MSHUTDOWN: a signal, _exit, std::terminate.
Kill(p) ==
  /\ status[p] \notin {"none", "gone"}
  /\ status' = [status EXCEPT ![p] = "gone"]
  /\ g' = [g EXCEPT ![p] = Unloaded]
  /\ UNCHANGED <<conf, reloads>>

Callbacks(p) == MINIT(p) \/ RINIT(p) \/ RSHUTDOWN(p) \/ StopWorker(p) \/ JoinWorker(p) \/ Cleanup(p)

Next ==
  \/ Reload
  \/ \E p \in Process :
    \/ Callbacks(p) \/ ModulesUp(p) \/ ModulesDown(p)
    \/ Push(p) \/ WorkerDrains(p) \/ WorkerEnds(p) \/ Kill(p)
    \/ \E q \in Process : Fork(p, q)

Spec == Init /\ [][Next]_vars

-----------------------------------------------------------------------------
(***************************************************************************)
(* Properties.                                                             *)
(***************************************************************************)
Status == {"none", "loaded", "minit", "up", "serving", "down", "stopping", "joined", "unloaded",
           "gone"}

\* Types: zend_execute_ex, which the engine calls without a test, is never null.
TypeOK ==
  /\ conf \in Conf /\ status \in [Process -> Status]
  /\ reloads \in 0 .. MaxReloads /\ g \in [Process -> Globals]

\* The functions a call of user code passes through, beginning with the one zend_execute_ex
\* points to; three are enough for as many hooks as there can be.
After(r) == [zend |-> "zend", php_trace |-> r.original_execute_ex, other |-> r.other_ex,
             null |-> Null]
UserPath(r) ==
  LET f == r.zend_execute_ex IN <<f, After(r)[f], After(r)[After(r)[f]]>>

\* Each call of user code reaches the engine, through our hook exactly when it should: no
\* order of loading, forking, reloading and requests makes the hook its own original, or
\* leaves it behind in a process whose module has shut down.
UserCallsReachZend ==
  \A p \in Process :
    LET path == UserPath(g[p]) IN
    /\ path[3] = "zend"
    /\ status[p] \in {"minit", "up", "serving"} =>
         (conf.enabled <=> \E i \in 1 .. 3 : path[i] = "php_trace")
    /\ status[p] = "unloaded" => \A i \in 1 .. 3 : path[i] # "php_trace"

\* The worker never runs without the exporter and the buffer it works on: MSHUTDOWN deletes
\* them only when the thread has ended.
WorkerHasBuffer ==
  \A p \in Process : g[p].worker = "live" => g[p].exporter /\ g[p].buffer

\* No joinable std::thread is assigned to or destroyed, which terminates the process: start(),
\* called by MINIT and by every RINIT, finds no thread of its own running, none copied by a
\* fork, and none that ended before a reload, and MSHUTDOWN deletes the exporter without one.
ThreadNeverOverwritten ==
  \A p \in Process : ~g[p].terminated

\* When stop() has waited for the worker of its own process the buffer is empty: the buffer
\* is not deleted with spans a worker was there to export.
FlushedBeforeFreed ==
  [][\A p \in Process :
       g[p].worker \in {"live", "ended"} /\ g'[p].worker = "none" =>
         ~g[p].held \/ status'[p] = "gone"]_vars

\* "Whether the exporter is currently running." (loki_exporter.h:76): is_running() says so
\* only where the worker's thread exists.
RunningMeansAlive ==
  \A p \in Process :
    conf.enabled /\ status[p] = "serving" /\ g[p].running => g[p].worker = "live"

\* "Trace built-in/internal functions" (php_trace.ini:81): a call of an internal function is
\* executed.  The engine does so when zend_execute_internal is null, and so does another
\* extension that found it null.  Our hook does nothing then.
InternalCallsRun ==
  \A p \in Process :
    LET r == g[p]
        engine(f) == IF f = Null THEN "zend" ELSE f
        next == [zend |-> "zend", null |-> Null, php_trace |-> r.original_execute_internal,
                 other |-> engine(r.other_internal)]
    IN  status[p] = "serving" => next[next[engine(r.zend_execute_internal)]] = "zend"
=============================================================================
