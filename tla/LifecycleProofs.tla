-------------------------- MODULE LifecycleProofs --------------------------
(***************************************************************************)
(* Proofs about Lifecycle, for every set of processes, every number of     *)
(* reloads and every configuration.  What holds of a process's globals     *)
(* depends on how far the process is, so that the inductive invariant is a *)
(* predicate on a status and a record; each callback is shown to lead from *)
(* one to the next.                                                        *)
(***************************************************************************)
EXTENDS Lifecycle, TLAPS

Working == {"minit", "up", "serving", "down", "stopping"}
Built == Working \cup {"joined"}

\* The exporter's thread, its flags, and what it works on.
ThreadState(st, r) ==
  /\ r.running <=> r.worker # "none"
  /\ r.running => st \in Working
  /\ r.stop_requested => st \in {"stopping", "joined", "unloaded", "loaded"}
  /\ r.worker = "ended" => st = "stopping" /\ ~r.held
  /\ ~r.terminated
  /\ st \in Built => r.buffer /\ r.exporter

\* Whose hooks are installed, and in which order they point at each other.
OursIsOn(st) == conf.enabled /\ st \in Built
Before == conf.other = "before"
AfterIsOn(st) == conf.other = "after" /\ st \in {"up", "serving"}

ChainState(st, r) ==
  /\ r.hook_installed <=> OursIsOn(st)
  /\ r.original_execute_ex =
       IF ~OursIsOn(st) THEN Null ELSE IF Before THEN "other" ELSE "zend"
  /\ r.other_ex = IF AfterIsOn(st) /\ OursIsOn(st) THEN "php_trace"
                  ELSE IF AfterIsOn(st) \/ Before THEN "zend" ELSE Null
  /\ r.zend_execute_ex = IF AfterIsOn(st) THEN "other"
                         ELSE IF OursIsOn(st) THEN "php_trace"
                         ELSE IF Before THEN "other" ELSE "zend"

SameHooks(q, r) ==
  /\ r.hook_installed = q.hook_installed
  /\ r.original_execute_ex = q.original_execute_ex
  /\ r.other_ex = q.other_ex /\ r.zend_execute_ex = q.zend_execute_ex

SameThread(q, r) ==
  /\ r.running = q.running /\ r.stop_requested = q.stop_requested
  /\ r.worker = q.worker /\ r.held = q.held /\ r.terminated = q.terminated
  /\ r.buffer = q.buffer /\ r.exporter = q.exporter

ProcessInv(st, r) ==
  /\ r \in Globals
  /\ ThreadState(st, r)
  /\ IF st = "gone" THEN r = Unloaded ELSE ChainState(st, r)

IInv == TypeOK /\ \A p \in Process : ProcessInv(status[p], g[p])

(***************************************************************************)
(* One step of one process.                                                *)
(***************************************************************************)
\* The hooks there are; only the engine's pointer to user code is never null.
LEMMA Hooks ==
  /\ {"zend", "php_trace", "other"} \subseteq Hook \ {Null} /\ Null \in Hook
  /\ \A r \in Globals : /\ r.zend_execute_ex \in Hook \ {Null} /\ r.other_ex \in Hook
                        /\ r.zend_execute_internal \in Hook /\ r.other_internal \in Hook
                        /\ r.original_execute_internal \in Hook /\ r.original_execute_ex \in Hook
  BY DEF Hook, Null, Globals

\* start() leaves the hooks alone and makes a thread only when there is none.
LEMMA StartKeeps ==
  ASSUME NEW st \in {"minit", "serving"}, NEW r \in Globals, NEW s \in Start(r),
         ThreadState(st, r), ChainState(st, r)
  PROVE  s \in Globals /\ ThreadState(st, s) /\ ChainState(st, s)
<1> DEFINE ready == [r EXCEPT !.stop_requested = FALSE]
           made == [ready EXCEPT !.worker = "live", !.running = TRUE,
                                 !.terminated = @ \/ Joinable(r)]
<1>1. CASE s = r
  BY <1>1
<1>2. CASE s = ready
  <2>1. /\ s \in Globals /\ SameHooks(r, s) /\ ~s.stop_requested
        /\ s.running = r.running /\ s.worker = r.worker /\ s.held = r.held
        /\ s.terminated = r.terminated /\ s.buffer = r.buffer /\ s.exporter = r.exporter
    BY <1>2 DEF Globals, SameHooks
  <2>2. ThreadState(st, s)
    BY <2>1 DEF ThreadState
  <2> QED
    BY <2>1, <2>2 DEF ChainState, SameHooks
<1>3. CASE s = made /\ ~r.running
  <2>1. /\ s \in Globals /\ SameHooks(r, s) /\ ~s.stop_requested /\ s.running
        /\ s.worker = "live" /\ s.terminated = (r.terminated \/ Joinable(r))
        /\ s.buffer = r.buffer /\ s.exporter = r.exporter
    BY <1>3 DEF Globals, SameHooks
  <2>2. ~Joinable(r) /\ ~r.terminated
    BY <1>3 DEF ThreadState, Joinable
  <2>3. ~s.terminated
    BY <2>1, <2>2
  <2>4. ThreadState(st, s)
    BY <2>1, <2>3 DEF ThreadState, Working, Built
  <2> QED
    BY <2>1, <2>4 DEF ChainState, SameHooks
<1> QED
  BY <1>1, <1>2, <1>3 DEF Start, IsRunning

\* install_hook() and remove_hook() leave everything but the hooks alone.
LEMMA InstallSame ==
  ASSUME NEW q \in Globals
  PROVE  InstallHook(q) \in Globals /\ SameThread(q, InstallHook(q))
<1> DEFINE user == [q EXCEPT !.original_execute_ex = q.zend_execute_ex,
                             !.zend_execute_ex = "php_trace", !.hook_installed = TRUE]
           both == [user EXCEPT !.original_execute_internal = user.zend_execute_internal,
                                !.zend_execute_internal = "php_trace"]
<1>1. user \in Globals /\ SameThread(q, user)
  <2>1. q.zend_execute_ex \in Hook /\ "php_trace" \in Hook \ {Null}
    BY DEF Globals, Hook, Null
  <2>2. user \in Globals
    BY <2>1 DEF Globals
  <2> QED
    BY <2>2 DEF Globals, SameThread
<1>2. InstallHook(q) = IF q.hook_installed THEN q ELSE IF conf.hook_internal THEN both ELSE user
  BY DEF InstallHook, Globals
<1> HIDE DEF user
<1>3. both \in Globals /\ SameThread(user, both)
  BY <1>1, Hooks DEF Globals, SameThread
<1> HIDE DEF both
<1> QED
  BY <1>1, <1>2, <1>3 DEF SameThread

\* What remove_hook() does when it does something; the original it restores is a function.
LEMMA RemoveSame ==
  ASSUME NEW q \in Globals, q.original_execute_ex \in Hook \ {Null}
  PROVE  RemoveUnguarded(q) \in Globals /\ SameThread(q, RemoveUnguarded(q))
<1> DEFINE user == [q EXCEPT !.zend_execute_ex = q.original_execute_ex,
                             !.original_execute_ex = Null, !.hook_installed = FALSE]
           both == [user EXCEPT !.zend_execute_internal = q.original_execute_internal,
                                !.original_execute_internal = Null]
<1>1. user \in Globals /\ SameThread(q, user)
  <2>1. Null \in Hook
    BY DEF Hook
  <2>2. user \in Globals
    BY <2>1 DEF Globals
  <2> QED
    BY <2>2 DEF Globals, SameThread
<1>2. RemoveUnguarded(q) = IF q.original_execute_internal = Null THEN user ELSE both
  BY DEF RemoveUnguarded
<1> HIDE DEF user
<1>3. both \in Globals /\ SameThread(user, both)
  BY <1>1, Hooks DEF Globals, SameThread
<1> HIDE DEF both
<1> QED
  BY <1>1, <1>2, <1>3 DEF SameThread

\* MINIT, for a process whose thread, if it ever had one, is gone.
LEMMA InitialiseKeeps ==
  ASSUME conf \in Conf, NEW q \in Globals, ProcessInv("loaded", q),
         NEW made, made = [q EXCEPT !.buffer = TRUE, !.held = FALSE, !.exporter = TRUE,
                                    !.running = FALSE, !.stop_requested = FALSE],
         NEW s, s \in IF conf.enabled THEN Start(InstallHook(made)) ELSE {made}
  PROVE  ProcessInv("minit", s)
<1>1. made \in Globals /\ ThreadState("minit", made)
  BY DEF ProcessInv, ThreadState, Globals, Working, Built
<1>2. CASE ~conf.enabled
  <2>1. s = made
    BY <1>2
  <2>2. ChainState("minit", made)
    <3>1. SameHooks(q, made)
      BY DEF SameHooks, Globals
    <3>2. ~OursIsOn("loaded") /\ ~OursIsOn("minit") /\ ~AfterIsOn("loaded") /\ ~AfterIsOn("minit")
      BY <1>2 DEF OursIsOn, AfterIsOn
    <3> QED
      BY <3>1, <3>2 DEF SameHooks, ProcessInv, ChainState
  <2> QED
    BY <1>1, <2>1, <2>2 DEF ProcessInv
<1>3. CASE conf.enabled
  <2>1. InstallHook(made) \in Globals /\ ThreadState("minit", InstallHook(made))
    BY <1>1, InstallSame DEF ThreadState, SameThread
  <2>2. ChainState("minit", InstallHook(made))
    BY <1>1, <1>3 DEF InstallHook, ProcessInv, ChainState, OursIsOn, AfterIsOn, Before, Globals,
                      Conf, Hook, Null, Built, Working
  <2> QED
    BY <1>3, <2>1, <2>2, StartKeeps DEF ProcessInv
<1> QED
  BY <1>2, <1>3

\* RINIT finds the hooks as MINIT left them.
LEMMA RequestKeeps ==
  ASSUME conf \in Conf, NEW q \in Globals, ProcessInv("up", q),
         NEW s \in Start(IF conf.enabled THEN InstallHook(q) ELSE q)
  PROVE  ProcessInv("serving", s)
<1>1. (IF conf.enabled THEN InstallHook(q) ELSE q) = q
  BY DEF InstallHook, ProcessInv, ChainState, OursIsOn, Built, Working
<1>2. ThreadState("serving", q) /\ ChainState("serving", q)
  BY DEF ProcessInv, ThreadState, ChainState, OursIsOn, AfterIsOn, Before, Built, Working
<1> QED
  BY <1>1, <1>2, StartKeeps DEF ProcessInv

\* The other extension's MINIT and MSHUTDOWN, when it was loaded after this module.
LEMMA OtherKeeps ==
  ASSUME conf \in Conf, NEW q \in Globals
  PROVE  /\ ProcessInv("minit", q) =>
              ProcessInv("up", IF conf.other = "after" THEN OtherHooks(q) ELSE q)
         /\ ProcessInv("up", q) =>
              ProcessInv("down", IF conf.other = "after" THEN OtherUnhooks(q) ELSE q)
<1>1. ASSUME ProcessInv("minit", q)
      PROVE  ProcessInv("up", IF conf.other = "after" THEN OtherHooks(q) ELSE q)
  <2>1. CASE conf.other = "after"
    <3> DEFINE r == OtherHooks(q)
    <3>0. r \in Globals
      BY Hooks DEF OtherHooks, Globals
    <3>1. SameThread(q, r)
      BY DEF OtherHooks, Globals, SameThread
    <3>2. /\ r.hook_installed = q.hook_installed /\ r.original_execute_ex = q.original_execute_ex
          /\ r.zend_execute_ex = "other" /\ r.other_ex = q.zend_execute_ex
      BY DEF OtherHooks, Globals
    <3> HIDE DEF r
    <3>3. ThreadState("up", r)
      BY <1>1, <3>1 DEF ProcessInv, ThreadState, SameThread, Built, Working
    <3>4. ChainState("up", r)
      BY <1>1, <2>1, <3>2 DEF ProcessInv, ChainState, OursIsOn, AfterIsOn, Before, Built, Working
    <3> QED
      BY <2>1, <3>0, <3>3, <3>4 DEF ProcessInv, r
  <2>2. CASE conf.other # "after"
    BY <1>1, <2>2 DEF ProcessInv, ThreadState, ChainState, OursIsOn, AfterIsOn, Before, Built,
                      Working
  <2> QED
    BY <2>1, <2>2
<1>2. ASSUME ProcessInv("up", q)
      PROVE  ProcessInv("down", IF conf.other = "after" THEN OtherUnhooks(q) ELSE q)
  <2>1. CASE conf.other = "after"
    <3> DEFINE r == OtherUnhooks(q)
    <3>0. q.other_ex \in Hook \ {Null}
      BY <1>2, <2>1 DEF ProcessInv, ChainState, AfterIsOn, Hook, Null
    <3>1. r \in Globals /\ SameThread(q, r)
      BY <3>0 DEF OtherUnhooks, Globals, Hook, SameThread
    <3>2. /\ r.hook_installed = q.hook_installed /\ r.original_execute_ex = q.original_execute_ex
          /\ r.zend_execute_ex = q.other_ex /\ r.other_ex = Null
      BY DEF OtherUnhooks, Globals
    <3> HIDE DEF r
    <3>3. ThreadState("down", r)
      BY <1>2, <3>1 DEF ProcessInv, ThreadState, SameThread, Built, Working
    <3>4. ChainState("down", r)
      BY <1>2, <2>1, <3>2 DEF ProcessInv, ChainState, OursIsOn, AfterIsOn, Before, Built, Working
    <3> QED
      BY <2>1, <3>1, <3>3, <3>4 DEF ProcessInv, r
  <2>2. CASE conf.other # "after"
    BY <1>2, <2>2 DEF ProcessInv, ThreadState, ChainState, OursIsOn, AfterIsOn, Before, Built,
                      Working
  <2> QED
    BY <2>1, <2>2
<1> QED
  BY <1>1, <1>2

\* MSHUTDOWN: the request to stop, the join, and the clean-up.
LEMMA ShutdownKeeps ==
  ASSUME conf \in Conf, NEW q \in Globals
  PROVE  /\ ProcessInv("down", q) => ProcessInv("stopping", RequestStop(q))
         /\ ProcessInv("stopping", q) /\ CanJoin(q) =>
              ProcessInv("joined", IF q.running THEN [q EXCEPT !.worker = "none", !.running = FALSE]
                                   ELSE q)
         /\ ProcessInv("joined", q) =>
              ProcessInv("unloaded", [RemoveHook(DeleteExporter(q))
                                        EXCEPT !.buffer = FALSE, !.held = FALSE])
<1>1. ASSUME ProcessInv("down", q) PROVE ProcessInv("stopping", RequestStop(q))
  BY <1>1 DEF RequestStop, ProcessInv, ThreadState, ChainState, OursIsOn, AfterIsOn, Before,
              Globals, Built, Working
<1>2. ASSUME ProcessInv("stopping", q), CanJoin(q)
      PROVE  ProcessInv("joined", IF q.running THEN [q EXCEPT !.worker = "none", !.running = FALSE]
                                  ELSE q)
  BY <1>2 DEF CanJoin, ProcessInv, ThreadState, ChainState, OursIsOn, AfterIsOn, Before,
              Globals, Built, Working
<1>3. ASSUME ProcessInv("joined", q)
      PROVE  ProcessInv("unloaded", [RemoveHook(DeleteExporter(q))
                                       EXCEPT !.buffer = FALSE, !.held = FALSE])
  <2> DEFINE deleted == DeleteExporter(q)
             removed == RemoveHook(deleted)
             r == [removed EXCEPT !.buffer = FALSE, !.held = FALSE]
  <2>2. ~q.running /\ q.worker = "none" /\ ~q.terminated
    BY <1>3 DEF ProcessInv, ThreadState, Globals, Working
  <2>1. deleted \in Globals /\ SameHooks(q, deleted) /\ deleted.running = q.running
        /\ deleted.worker = q.worker /\ ~deleted.terminated
    BY <2>2 DEF DeleteExporter, Joinable, Globals, SameHooks
  <2>3. removed \in Globals /\ removed.running = q.running /\ removed.worker = q.worker
        /\ ~removed.terminated
        /\ ChainState("unloaded", removed)
    <3>1. CASE ~q.hook_installed
      <4>1. removed = deleted
        BY <2>1, <3>1 DEF RemoveHook, SameHooks
      <4> QED
        BY <1>3, <2>1, <3>1, <4>1 DEF ProcessInv, ChainState, SameHooks, OursIsOn, AfterIsOn,
                                      Before, Built, Working
    <3>2. CASE q.hook_installed
      <4>1. removed = RemoveUnguarded(deleted)
        BY <2>1, <3>2 DEF RemoveHook, SameHooks
      <4>2. deleted.original_execute_ex = IF Before THEN "other" ELSE "zend"
        BY <1>3, <2>1, <3>2 DEF ProcessInv, ChainState, SameHooks
      <4> HIDE DEF deleted
      <4>3. removed \in Globals
        BY <2>1, <4>1, <4>2, Hooks, RemoveSame
      <4>4. /\ removed.running = deleted.running /\ removed.worker = deleted.worker
            /\ removed.terminated = deleted.terminated
            /\ ~removed.hook_installed /\ removed.original_execute_ex = Null
            /\ removed.zend_execute_ex = deleted.original_execute_ex
            /\ removed.other_ex = deleted.other_ex
        BY <2>1, <4>1 DEF RemoveUnguarded, Globals
      <4> HIDE DEF removed
      <4>5. ChainState("unloaded", removed)
        BY <1>3, <2>1, <4>2, <4>4 DEF ProcessInv, ChainState, SameHooks, OursIsOn, AfterIsOn,
                                      Before, Built, Working
      <4> QED
        BY <2>1, <4>3, <4>4, <4>5
    <3> QED
      BY <3>1, <3>2
  <2> HIDE DEF removed
  <2>4. r \in Globals /\ SameHooks(removed, r) /\ r.running = q.running /\ r.worker = q.worker
        /\ ~r.terminated
    BY <2>3 DEF Globals, SameHooks
  <2>5. r.stop_requested \in BOOLEAN
    BY <2>4 DEF Globals
  <2>6. ThreadState("unloaded", r) /\ ChainState("unloaded", r)
    BY <2>2, <2>3, <2>4, <2>5 DEF ThreadState, ChainState, SameHooks, Built, Working
  <2> QED
    BY <2>4, <2>6 DEF ProcessInv, removed
<1> QED
  BY <1>1, <1>2, <1>3

\* The engine starts, for the first time or again.
LEMMA LoadedIsFresh ==
  ASSUME conf \in Conf, NEW st \in {"loaded", "none"}, NEW q \in Globals,
         \/ q = Unloaded
         \/ ProcessInv("unloaded", q) /\ st = "loaded"
  PROVE  ProcessInv(st, Loaded(q))
<1> DEFINE fresh == [q EXCEPT !.zend_execute_ex = "zend", !.zend_execute_internal = Null,
                              !.other_ex = Null, !.other_internal = Null]
<1>1. /\ ~q.hook_installed /\ q.original_execute_ex = Null
      /\ ThreadState(st, q)
  <2>1. CASE q = Unloaded
    BY <2>1 DEF Unloaded, ThreadState, Built, Working
  <2>2. CASE ProcessInv("unloaded", q) /\ st = "loaded"
    BY <2>2 DEF ProcessInv, ThreadState, ChainState, OursIsOn, Built, Working
  <2> QED
    BY <2>1, <2>2
<1>2. fresh \in Globals
  BY ZenonT(30) DEF Globals, Hook, Null
<1>21. /\ SameThread(q, fresh)
      /\ fresh.hook_installed = q.hook_installed
      /\ fresh.original_execute_ex = q.original_execute_ex
      /\ fresh.zend_execute_ex = "zend" /\ fresh.other_ex = Null
  BY DEF Globals, SameThread
<1>3. Loaded(q) = IF Before THEN OtherHooks(fresh) ELSE fresh
  BY DEF Loaded, Before
<1> HIDE DEF fresh
<1>4. CASE Before
  <2> DEFINE r == OtherHooks(fresh)
  <2>0. r \in Globals
    BY <1>2, Hooks DEF OtherHooks, Globals
  <2>1. /\ SameThread(fresh, r)
        /\ r.hook_installed = fresh.hook_installed
        /\ r.original_execute_ex = fresh.original_execute_ex
        /\ r.zend_execute_ex = "other" /\ r.other_ex = fresh.zend_execute_ex
    BY <1>2 DEF OtherHooks, Globals, SameThread
  <2> HIDE DEF r
  <2>2. ThreadState(st, r)
    BY <1>1, <1>2, <1>21, <2>1 DEF ThreadState, SameThread
  <2>3. ChainState(st, r)
    BY <1>1, <1>21, <1>4, <2>1 DEF ChainState, OursIsOn, AfterIsOn, Before, Built, Working
  <2> QED
    BY <1>3, <1>4, <2>0, <2>2, <2>3 DEF ProcessInv, r
<1>5. CASE ~Before
  <2>1. ThreadState(st, fresh)
    BY <1>1, <1>21 DEF ThreadState, SameThread
  <2>2. ChainState(st, fresh)
    BY <1>1, <1>21, <1>5 DEF ChainState, OursIsOn, AfterIsOn, Built, Working
  <2> QED
    BY <1>2, <1>3, <1>5, <2>1, <2>2 DEF ProcessInv
<1> QED
  BY <1>4, <1>5

\* Spans and the worker: a thread that ends has been asked to, and has drained.
LEMMA WorkerKeeps ==
  ASSUME NEW st \in Status, NEW q \in Globals, ProcessInv(st, q)
  PROVE  /\ st = "serving" => ProcessInv(st, [q EXCEPT !.held = TRUE])
         /\ q.worker = "live" => ProcessInv(st, [q EXCEPT !.held = FALSE])
         /\ q.worker = "live" /\ q.stop_requested =>
              ProcessInv(st, [q EXCEPT !.worker = "ended", !.held = FALSE])
<1>1. st = "gone" => q.worker = "none"
  BY DEF ProcessInv, Unloaded
<1>0. ASSUME NEW h \in BOOLEAN, st # "gone", q.worker = "ended" => ~h
      PROVE  ProcessInv(st, [q EXCEPT !.held = h])
  <2> DEFINE r == [q EXCEPT !.held = h]
  <2>1. /\ r \in Globals /\ SameHooks(q, r) /\ r.held = h
        /\ r.running = q.running /\ r.stop_requested = q.stop_requested
        /\ r.worker = q.worker /\ r.terminated = q.terminated
        /\ r.buffer = q.buffer /\ r.exporter = q.exporter
    BY DEF Globals, SameHooks
  <2> HIDE DEF r
  <2>2. ThreadState(st, q) /\ ChainState(st, q)
    BY <1>0 DEF ProcessInv
  <2>3. ThreadState(st, r)
    BY <1>0, <2>1, <2>2 DEF ThreadState
  <2>4. ChainState(st, r)
    BY <2>1, <2>2 DEF ChainState, SameHooks
  <2>5. ProcessInv(st, r)
    BY <1>0, <2>1, <2>3, <2>4 DEF ProcessInv
  <2> QED
    BY <2>5 DEF r
<1>2. ASSUME st = "serving" PROVE ProcessInv(st, [q EXCEPT !.held = TRUE])
  <2>1. q.worker # "ended"
    BY <1>2 DEF ProcessInv, ThreadState
  <2> QED
    BY <1>0, <1>2, <2>1
<1>3. ASSUME q.worker = "live" PROVE ProcessInv(st, [q EXCEPT !.held = FALSE])
  BY <1>0, <1>1, <1>3
<1>4. ASSUME q.worker = "live", q.stop_requested
      PROVE  ProcessInv(st, [q EXCEPT !.worker = "ended", !.held = FALSE])
  <2> DEFINE r == [q EXCEPT !.worker = "ended", !.held = FALSE]
  <2>1. st = "stopping"
    BY <1>4 DEF ProcessInv, ThreadState, Working
  <2>2. r \in Globals /\ SameHooks(q, r)
    BY DEF Globals, SameHooks
  <2>3. /\ r.worker = "ended" /\ ~r.held /\ r.running = q.running
        /\ r.stop_requested = q.stop_requested /\ r.terminated = q.terminated
        /\ r.buffer = q.buffer /\ r.exporter = q.exporter
    BY DEF Globals
  <2> HIDE DEF r
  <2>4. ThreadState(st, r)
    BY <1>4, <2>1, <2>3 DEF ProcessInv, ThreadState, Working, Built
  <2>5. ChainState(st, r)
    BY <2>1, <2>2 DEF ProcessInv, ChainState, SameHooks
  <2> QED
    BY <2>1, <2>2, <2>4, <2>5 DEF ProcessInv, r
<1> QED
  BY <1>2, <1>3, <1>4

\* A child has its parent's memory, a std::thread without its thread included.
LEMMA CopyKeeps ==
  ASSUME NEW st \in {"up", "serving"}, NEW q \in Globals, ProcessInv(st, q),
         NEW r, r = [q EXCEPT !.worker = IF @ = "none" THEN @ ELSE "copied"]
  PROVE  ProcessInv(st, r)
<1>1. r \in Globals /\ SameHooks(q, r)
  BY DEF Globals, SameHooks
<1>2. /\ r.running = q.running /\ r.stop_requested = q.stop_requested
      /\ r.buffer = q.buffer /\ r.exporter = q.exporter /\ r.terminated = q.terminated
      /\ r.worker # "ended" /\ (r.worker = "none" <=> q.worker = "none")
  BY DEF Globals
<1>3. ThreadState(st, r)
  BY <1>2 DEF ProcessInv, ThreadState, Working, Built
<1>4. ChainState(st, r)
  BY <1>1 DEF ProcessInv, ChainState, SameHooks
<1> QED
  BY <1>1, <1>3, <1>4 DEF ProcessInv

(***************************************************************************)
(* A step of the system.                                                   *)
(***************************************************************************)
\* When one process moves, the others and the configuration are as they were.
LEMMA OneMoves ==
  ASSUME IInv, NEW p \in Process, NEW to \in Status, NEW r, ProcessInv(to, r),
         status' = [status EXCEPT ![p] = to], g' = [g EXCEPT ![p] = r],
         conf' = conf, reloads' \in 0 .. MaxReloads
  PROVE  IInv'
<1>1. r \in Globals
  BY DEF ProcessInv
<1>2. TypeOK'
  BY <1>1 DEF IInv, TypeOK
<1>3. ASSUME NEW x \in Process PROVE ProcessInv(status[x], g[x])'
  <2>1. CASE x = p
    <3>1. status'[x] = to /\ g'[x] = r
      BY <2>1 DEF IInv, TypeOK
    <3> QED
      BY <3>1 DEF ProcessInv, ThreadState, ChainState, OursIsOn, AfterIsOn, Before
  <2>2. CASE x # p
    <3>1. status'[x] = status[x] /\ g'[x] = g[x]
      BY <2>2 DEF IInv, TypeOK
    <3>2. ProcessInv(status[x], g[x])
      BY DEF IInv
    <3> QED
      BY <3>1, <3>2 DEF ProcessInv, ThreadState, ChainState, OursIsOn, AfterIsOn, Before
  <2> QED
    BY <2>1, <2>2
<1> QED
  BY <1>2, <1>3 DEF IInv

\* The invariant holds when the server has loaded its modules for the first time.
LEMMA InvInit == Init => IInv
<1> SUFFICES ASSUME Init PROVE IInv
  OBVIOUS
<1>1. Unloaded \in Globals
  BY Hooks DEF Unloaded, Globals
<1>2. conf \in Conf
  BY DEF Init
<1>3. ASSUME NEW p \in Process PROVE ProcessInv(status[p], g[p])
  <2>1. status[p] \in {"loaded", "none"} /\ g[p] = Loaded(Unloaded)
    BY DEF Init
  <2> QED
    BY <1>1, <1>2, <2>1, LoadedIsFresh
<1>4. TypeOK
  <2>1. \A p \in Process : g[p] \in Globals
    BY <1>3 DEF ProcessInv
  <2>2. g \in [Process -> Globals]
    BY <2>1 DEF Init
  <2>3. status \in [Process -> Status]
    BY DEF Init, Status
  <2> QED
    BY <1>2, <2>2, <2>3, LifecycleAssumption DEF Init, TypeOK
<1> QED
  BY <1>3, <1>4 DEF IInv

\* A callback that leads from one status to another preserves the invariant when what it
\* leaves fits the new status.
LEMMA InvGoes ==
  ASSUME IInv, NEW p \in Process, NEW from \in Status, NEW to \in Status, NEW r,
         Goes(p, from, to, r),
         conf \in Conf /\ g[p] \in Globals /\ ProcessInv(from, g[p]) => ProcessInv(to, r)
  PROVE  IInv'
<1>1. conf \in Conf /\ g[p] \in Globals /\ ProcessInv(from, g[p])
  BY DEF IInv, TypeOK, Goes
<1>2. reloads' \in 0 .. MaxReloads
  BY DEF IInv, TypeOK, Goes
<1> QED
  BY <1>1, <1>2, OneMoves DEF Goes

\* The module's callbacks, the other extension's, and a process's end.
LEMMA InvCallbacks ==
  ASSUME IInv, NEW p \in Process,
         Callbacks(p) \/ ModulesUp(p) \/ ModulesDown(p) \/ Kill(p)
  PROVE  IInv'
<1>0. /\ conf \in Conf /\ g[p] \in Globals /\ ProcessInv(status[p], g[p])
      /\ {"loaded", "minit", "up", "serving", "down", "stopping", "joined", "unloaded", "gone"}
           \subseteq Status
  BY DEF IInv, TypeOK, Status
<1>1. CASE MINIT(p)
  <2> DEFINE made == [g[p] EXCEPT !.buffer = TRUE, !.held = FALSE, !.exporter = TRUE,
                                  !.running = FALSE, !.stop_requested = FALSE]
  <2>1. PICK s \in IF conf.enabled THEN Start(InstallHook(made)) ELSE {made} :
          Goes(p, "loaded", "minit", s)
    BY <1>1 DEF MINIT
  <2>2. ProcessInv("loaded", g[p])
    BY <1>0, <2>1 DEF Goes
  <2>3. ProcessInv("minit", s)
    BY <1>0, <2>2, InitialiseKeeps
  <2> QED
    BY <1>0, <2>1, <2>3, InvGoes
<1>2. CASE RINIT(p)
  <2>1. ProcessInv("up", g[p])
    BY <1>0, <1>2 DEF RINIT, Goes
  <2>2. (IF conf.enabled THEN InstallHook(g[p]) ELSE g[p]).exporter
    BY <2>1 DEF InstallHook, ProcessInv, ThreadState, ChainState, OursIsOn, Built, Working
  <2>3. PICK s \in Start(IF conf.enabled THEN InstallHook(g[p]) ELSE g[p]) :
          Goes(p, "up", "serving", s)
    BY <1>2, <2>2 DEF RINIT
  <2>4. ProcessInv("serving", s)
    BY <1>0, <2>1, RequestKeeps
  <2> QED
    BY <1>0, <2>3, <2>4, InvGoes
<1>3. CASE RSHUTDOWN(p)
  <2>1. Goes(p, "serving", "up", g[p])
    BY <1>3 DEF RSHUTDOWN
  <2>2. ProcessInv("serving", g[p]) => ProcessInv("up", g[p])
    BY DEF ProcessInv, ThreadState, ChainState, OursIsOn, AfterIsOn, Built, Working
  <2> QED
    BY <1>0, <2>1, <2>2, InvGoes
<1>4. CASE ModulesUp(p)
  BY <1>0, <1>4, OtherKeeps, InvGoes DEF ModulesUp
<1>5. CASE ModulesDown(p)
  BY <1>0, <1>5, OtherKeeps, InvGoes DEF ModulesDown
<1>6. CASE StopWorker(p)
  BY <1>0, <1>6, ShutdownKeeps, InvGoes DEF StopWorker
<1>7. CASE JoinWorker(p)
  BY <1>0, <1>7, ShutdownKeeps, InvGoes DEF JoinWorker
<1>8. CASE Cleanup(p)
  BY <1>0, <1>8, ShutdownKeeps, InvGoes DEF Cleanup
<1>9. CASE Kill(p)
  <2>1. ProcessInv("gone", Unloaded)
    BY Hooks DEF ProcessInv, ThreadState, Unloaded, Globals, Built, Working
  <2>2. reloads' \in 0 .. MaxReloads
    BY <1>9 DEF Kill, IInv, TypeOK
  <2> QED
    BY <1>0, <1>9, <2>1, <2>2, OneMoves DEF Kill
<1> QED
  BY <1>1, <1>2, <1>3, <1>4, <1>5, <1>6, <1>7, <1>8, <1>9 DEF Callbacks

\* Spans, the worker, forks and reloads.
LEMMA InvOthers ==
  ASSUME IInv, NEW p \in Process, NEW q \in Process,
         Push(p) \/ WorkerDrains(p) \/ WorkerEnds(p) \/ Fork(p, q) \/ Reload
  PROVE  IInv'
<1>0. /\ conf \in Conf /\ g[p] \in Globals /\ ProcessInv(status[p], g[p])
      /\ status[p] \in Status /\ reloads \in 0 .. MaxReloads
      /\ status = [status EXCEPT ![p] = status[p]]
  BY DEF IInv, TypeOK
<1>1. CASE Push(p)
  BY <1>0, <1>1, WorkerKeeps, OneMoves DEF Push
<1>2. CASE WorkerDrains(p)
  BY <1>0, <1>2, WorkerKeeps, OneMoves DEF WorkerDrains
<1>3. CASE WorkerEnds(p)
  <2> DEFINE r == [g[p] EXCEPT !.worker = "ended", !.held = FALSE]
  <2>1. g' = [g EXCEPT ![p] = r]
    BY <1>3 DEF WorkerEnds, IInv, TypeOK
  <2>2. ProcessInv(status[p], r)
    BY <1>0, <1>3, WorkerKeeps DEF WorkerEnds
  <2> HIDE DEF r
  <2>3. /\ status' = [status EXCEPT ![p] = status[p]] /\ conf' = conf
        /\ reloads' \in 0 .. MaxReloads
    BY <1>0, <1>3 DEF WorkerEnds
  <2> QED
    BY <1>0, <2>1, <2>2, <2>3, OneMoves
<1>4. CASE Fork(p, q)
  <2> DEFINE r == [g[p] EXCEPT !.worker = IF @ = "none" THEN @ ELSE "copied"]
  <2>1. ProcessInv(status[p], r)
    BY <1>0, <1>4, CopyKeeps DEF Fork
  <2> HIDE DEF r
  <2> QED
    BY <1>0, <1>4, <2>1, OneMoves DEF Fork, r
<1>5. CASE Reload
  <2>1. /\ First \in Process /\ "loaded" \in Status /\ g[First] \in Globals
        /\ ProcessInv("unloaded", g[First])
    BY <1>5, LifecycleAssumption DEF Reload, IInv, TypeOK, Status
  <2>2. ProcessInv("loaded", Loaded(g[First]))
    BY <1>0, <2>1, LoadedIsFresh
  <2>3. reloads' \in 0 .. MaxReloads /\ conf' = conf
    BY <1>0, <1>5, LifecycleAssumption DEF Reload
  <2>4. status' = [status EXCEPT ![First] = "loaded"] /\ g' = [g EXCEPT ![First] = Loaded(g[First])]
    BY <1>5 DEF Reload
  <2> QED
    BY <2>1, <2>2, <2>3, <2>4, OneMoves
<1> QED
  BY <1>1, <1>2, <1>3, <1>4, <1>5

\* Every step preserves the invariant.
LEMMA InvStep == IInv /\ [Next]_vars => IInv'
<1> SUFFICES ASSUME IInv, [Next]_vars PROVE IInv'
  OBVIOUS
<1>1. CASE Next
  BY <1>1, InvCallbacks, InvOthers, LifecycleAssumption DEF Next
<1>2. CASE UNCHANGED vars
  BY <1>2 DEF vars, IInv, TypeOK, ProcessInv, ThreadState, ChainState, OursIsOn, AfterIsOn, Before
<1> QED
  BY <1>1, <1>2

\* In every reachable state each process's globals are what its status calls for.
LEMMA Invariance == Spec => []IInv
  BY InvInit, InvStep, PTL DEF Spec

(***************************************************************************)
(* What follows from it.                                                   *)
(***************************************************************************)
\* Types, and with them that the engine's pointer to the executor of user code is never null
\* whatever is loaded, forked, served and shut down (php_trace.cpp:671-709).
THEOREM TypeCorrectness == Spec => []TypeOK
  BY Invariance, PTL DEF IInv

\* A live worker has its exporter and its buffer: MSHUTDOWN deletes them after the join,
\* and a reload makes new ones before a new thread (php_trace.cpp:722-776).
THEOREM WorkerSafety == Spec => []WorkerHasBuffer
<1>1. IInv => WorkerHasBuffer
  BY DEF IInv, WorkerHasBuffer, ProcessInv, ThreadState, Built
<1> QED
  BY <1>1, Invariance, PTL

\* A call of user code reaches the engine in every process, through this module's hook
\* between MINIT and MSHUTDOWN and not after it (php_trace.cpp:671-709).
THEOREM HookChain == Spec => []UserCallsReachZend
<1>1. ASSUME IInv, NEW p \in Process
      PROVE  LET path == UserPath(g[p]) IN
               /\ path[3] = "zend"
               /\ status[p] \in {"minit", "up", "serving"} =>
                    (conf.enabled <=> \E i \in 1 .. 3 : path[i] = "php_trace")
               /\ status[p] = "unloaded" => \A i \in 1 .. 3 : path[i] # "php_trace"
  <2> DEFINE r == g[p]
             path == UserPath(r)
  <2>1. /\ conf \in Conf /\ status[p] \in Status /\ ProcessInv(status[p], r)
    BY <1>1 DEF IInv, TypeOK
  <2>2. CASE status[p] = "gone"
    <3>1. path = <<"zend", "zend", "zend">>
      BY <2>1, <2>2 DEF ProcessInv, Unloaded, UserPath, After
    <3> QED
      BY <2>2, <3>1
  <2>3. CASE status[p] # "gone"
    <3>1. ChainState(status[p], r)
      BY <2>1, <2>3 DEF ProcessInv
    <3> HIDE DEF r
    <3>2. CASE OursIsOn(status[p])
      <4>1. path = IF Before THEN <<"php_trace", "other", "zend">>
                   ELSE IF AfterIsOn(status[p]) THEN <<"other", "php_trace", "zend">>
                   ELSE <<"php_trace", "zend", "zend">>
        BY <3>1, <3>2 DEF ChainState, UserPath, After, Before, AfterIsOn
      <4>2. path[3] = "zend" /\ \E i \in 1 .. 3 : path[i] = "php_trace"
        BY <4>1
      <4> QED
        BY <3>2, <4>2 DEF OursIsOn, Built, Working, r
    <3>3. CASE ~OursIsOn(status[p])
      <4>1. path = IF Before \/ AfterIsOn(status[p]) THEN <<"other", "zend", "zend">>
                   ELSE <<"zend", "zend", "zend">>
        BY <3>1, <3>3 DEF ChainState, UserPath, After, Before, AfterIsOn
      <4>2. path[3] = "zend" /\ \A i \in 1 .. 3 : path[i] # "php_trace"
        BY <4>1
      <4> QED
        BY <3>3, <4>2 DEF OursIsOn, Built, Working, r
    <3> QED
      BY <3>2, <3>3
  <2> QED
    BY <2>2, <2>3
<1>2. IInv => UserCallsReachZend
  BY <1>1 DEF UserCallsReachZend
<1> QED
  BY <1>2, Invariance, PTL

\* start() makes a thread only where the exporter is not running.
LEMMA StartWorker ==
  ASSUME NEW r \in Globals
  PROVE  \A s \in Start(r) \cup {r} : s.worker = r.worker \/ (~r.running /\ s.worker = "live")
<1> DEFINE ready == [r EXCEPT !.stop_requested = FALSE]
           begun == [ready EXCEPT !.worker = "live", !.running = TRUE,
                                  !.terminated = @ \/ Joinable(r)]
<1>1. ready.worker = r.worker
  BY DEF Globals
<1>2. "worker" \in DOMAIN ready
  BY DEF Globals
<1>3. begun.worker = "live"
  BY <1>2
<1>4. Start(r) = IF r.running THEN {r} ELSE {ready, begun}
  BY DEF Start, IsRunning
<1> HIDE DEF begun, ready
<1> QED
  BY <1>1, <1>3, <1>4

\* The steps that give a process a thread, or take it away.
LEMMA ThreadSteps ==
  ASSUME IInv, Next, NEW p \in Process
  PROVE  \/ g'[p].worker = g[p].worker
         \/ g[p].worker = "none" /\ g'[p].worker = "live"
         \/ WorkerEnds(p) /\ g'[p].worker = "ended"
         \/ CanJoin(g[p]) /\ g'[p].worker = "none"
         \/ status[p] # "none" /\ status'[p] = "gone" /\ g'[p].worker = "none"
         \/ status[p] = "none"
<1> DEFINE Goal == \/ g'[p].worker = g[p].worker
                   \/ g[p].worker = "none" /\ g'[p].worker = "live"
                   \/ WorkerEnds(p) /\ g'[p].worker = "ended"
                   \/ CanJoin(g[p]) /\ g'[p].worker = "none"
                   \/ status[p] # "none" /\ status'[p] = "gone" /\ g'[p].worker = "none"
                   \/ status[p] = "none"
<1>0. /\ g \in [Process -> Globals] /\ status \in [Process -> Status]
      /\ g[p] \in Globals /\ ProcessInv(status[p], g[p])
  BY DEF IInv, TypeOK
<1>1. ASSUME NEW q \in Process, NEW from, NEW to, NEW r, Goes(q, from, to, r)
      PROVE  IF p = q THEN g'[p] = r /\ status[p] = from ELSE g'[p] = g[p]
  BY <1>0, <1>1 DEF Goes
<1>2. CASE Reload
  <2>1. g'[p] = IF p = First THEN Loaded(g[p]) ELSE g[p]
    BY <1>0, <1>2, LifecycleAssumption DEF Reload
  <2>2. Loaded(g[p]).worker = g[p].worker
    BY <1>0 DEF Loaded, OtherHooks, Globals
  <2> QED
    BY <2>1, <2>2
<1>3. ASSUME NEW q \in Process, MINIT(q) PROVE Goal
  <2> DEFINE made == [g[q] EXCEPT !.buffer = TRUE, !.held = FALSE, !.exporter = TRUE,
                                  !.running = FALSE, !.stop_requested = FALSE]
  <2>1. PICK s \in IF conf.enabled THEN Start(InstallHook(made)) ELSE {made} :
          Goes(q, "loaded", "minit", s)
    BY <1>3 DEF MINIT
  <2>2. g[q] \in Globals /\ made \in Globals /\ made.worker = g[q].worker
    BY <1>0 DEF Globals
  <2>3. InstallHook(made) \in Globals /\ InstallHook(made).worker = made.worker
    BY <2>2, InstallSame DEF SameThread
  <2>4. s.worker = g[q].worker \/ s.worker = "live"
    BY <2>1, <2>2, <2>3 DEF Start, Globals
  <2>5. p = q => g[p].worker = "none"
    BY <1>0, <1>1, <2>1 DEF ProcessInv, ThreadState, Working
  <2> QED
    BY <1>1, <2>1, <2>4, <2>5
<1>4. ASSUME NEW q \in Process, RINIT(q) PROVE Goal
  <2> DEFINE r == IF conf.enabled THEN InstallHook(g[q]) ELSE g[q]
  <2>1. PICK s \in IF r.exporter THEN Start(r) ELSE {r} : Goes(q, "up", "serving", s)
    BY <1>4 DEF RINIT
  <2>2. r \in Globals /\ r.worker = g[q].worker /\ r.running = g[q].running
    BY <1>0, InstallSame DEF SameThread
  <2> HIDE DEF r
  <2>3. s.worker = g[q].worker \/ (~g[q].running /\ s.worker = "live")
    BY <2>1, <2>2, StartWorker
  <2>4. g[p].running \/ g[p].worker = "none"
    BY <1>0 DEF ProcessInv, ThreadState, Unloaded
  <2> QED
    BY <1>1, <2>1, <2>3, <2>4
<1>5. ASSUME NEW q \in Process, RSHUTDOWN(q) \/ ModulesUp(q) \/ ModulesDown(q) PROVE Goal
  <2>1. g[q] \in Globals
    BY <1>0
  <2>2. OtherHooks(g[q]).worker = g[q].worker /\ OtherUnhooks(g[q]).worker = g[q].worker
    BY <2>1 DEF OtherHooks, OtherUnhooks, Globals
  <2> QED
    BY <1>1, <1>5, <2>2 DEF RSHUTDOWN, ModulesUp, ModulesDown
<1>6. ASSUME NEW q \in Process, StopWorker(q) PROVE Goal
  <2>1. RequestStop(g[q]).worker = g[q].worker
    BY <1>0 DEF RequestStop, Globals
  <2> QED
    BY <1>1, <1>6, <2>1 DEF StopWorker
<1>7. ASSUME NEW q \in Process, JoinWorker(q) PROVE Goal
  <2>1. [g[q] EXCEPT !.worker = "none", !.running = FALSE].worker = "none"
    BY <1>0 DEF Globals
  <2> QED
    BY <1>1, <1>7, <2>1 DEF JoinWorker
<1>8. ASSUME NEW q \in Process, Cleanup(q) PROVE Goal
  <2> DEFINE deleted == DeleteExporter(g[q])
             removed == RemoveHook(deleted)
  <2>1. g[q] \in Globals /\ deleted.worker = g[q].worker
    BY <1>0 DEF DeleteExporter, Globals
  <2>2. removed.worker = deleted.worker
    BY DEF RemoveHook, RemoveUnguarded
  <2> HIDE DEF removed
  <2>3. [removed EXCEPT !.buffer = FALSE, !.held = FALSE].worker = removed.worker
    OBVIOUS
  <2> QED
    BY <1>1, <1>8, <2>1, <2>2, <2>3 DEF Cleanup, removed
<1>9. ASSUME NEW q \in Process, Push(q) \/ WorkerDrains(q) PROVE Goal
  BY <1>0, <1>9 DEF Push, WorkerDrains, Globals
<1>10. ASSUME NEW q \in Process, WorkerEnds(q) PROVE Goal
  BY <1>0, <1>10 DEF WorkerEnds, Globals
<1>11. ASSUME NEW q \in Process, Kill(q) PROVE Goal
  BY <1>0, <1>11 DEF Kill, Unloaded
<1>12. ASSUME NEW q \in Process, NEW c \in Process, Fork(q, c) PROVE Goal
  BY <1>0, <1>12 DEF Fork
<1> QED
  BY <1>2, <1>3, <1>4, <1>5, <1>6, <1>7, <1>8, <1>9, <1>10, <1>11, <1>12 DEF Next, Callbacks

\* stop() joins the worker of its process only after the worker has emptied the buffer
\* (loki_exporter.cpp:124-133, 153-178).
THEOREM FlushBeforeFree == Spec => FlushedBeforeFreed
<1>1. ASSUME IInv, Next, NEW p \in Process,
             g[p].worker \in {"live", "ended"}, g'[p].worker = "none"
      PROVE  ~g[p].held \/ status'[p] = "gone"
  <2>1. ProcessInv(status[p], g[p])
    BY <1>1 DEF IInv
  <2>2. status[p] # "none"
    BY <1>1, <2>1 DEF ProcessInv, ThreadState, Working
  <2>3. CanJoin(g[p]) \/ status'[p] = "gone"
    BY <1>1, <2>2, ThreadSteps
  <2>4. g[p].worker = "ended" => ~g[p].held
    BY <2>1 DEF ProcessInv, ThreadState, Unloaded
  <2> QED
    BY <1>1, <2>3, <2>4 DEF CanJoin
<1>2. IInv /\ [Next]_vars =>
        [\A p \in Process :
           g[p].worker \in {"live", "ended"} /\ g'[p].worker = "none" =>
             ~g[p].held \/ status'[p] = "gone"]_vars
  BY <1>1
<1> QED
  BY <1>2, Invariance, PTL DEF Spec, FlushedBeforeFreed

\* In every process start() assigns a thread only to a std::thread that has none, and the
\* exporter is deleted only without one (loki_exporter.cpp:108-142, php_trace.cpp:722-776).
THEOREM ThreadAssignment == Spec => []ThreadNeverOverwritten
<1>1. IInv => ThreadNeverOverwritten
  BY DEF IInv, ProcessInv, ThreadState, ThreadNeverOverwritten
<1> QED
  BY <1>1, Invariance, PTL
=============================================================================
