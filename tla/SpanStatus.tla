----------------------------- MODULE SpanStatus -----------------------------
(***************************************************************************)
(* php_trace_status() beside the producers and the exporter: a PHP thread, *)
(* which pushes nothing meanwhile, loads the buffer's counters one after   *)
(* another, while the others go on.                                        *)
(***************************************************************************)
EXTENDS SpanBuffer

VARIABLES
  loads,   \* for each producer: what it has loaded of the status so far
  status   \* what it has found, and two numbers it does not know (history)

status_vars == <<loads, status>>

NothingLoaded == [pushed |-> 0, dropped |-> 0, drained |-> 0, ended |-> 0, begun |-> 0]
StatusInit ==
  Init /\ loads = [p \in Producers |-> "none"] /\ status = [p \in Producers |-> NothingLoaded]

\* Push calls that have not returned.
Running == {p \in Producers : ppc[p] # "idle"}

\* p goes on to the next load, with what it found in this one.
StatusGoes(p, from, to, found) ==
  /\ loads[p] = from
  /\ loads' = [loads EXCEPT ![p] = to]
  /\ status' = [status EXCEPT ![p] = found]
  /\ UNCHANGED vars

\* The call of php_trace_status(), down to total_pushed(); `ended': the push calls that have
\* returned by now.
LoadPushed(p) ==
  /\ ppc[p] = "idle"
  /\ StatusGoes(p, "none", "pushed",
                [NothingLoaded EXCEPT !.pushed = total_pushed, !.ended = made - Cardinality(Running)])

LoadDropped(p) ==
  StatusGoes(p, "pushed", "dropped", [status[p] EXCEPT !.dropped = total_dropped])

\* `begun': the push calls that have begun by now.
LoadDrained(p) ==
  StatusGoes(p, "dropped", "all",
             [status[p] EXCEPT !.drained = total_drained, !.begun = made])

StatusReturn(p) == StatusGoes(p, "all", "none", NothingLoaded)

\* The buffer's threads go on, except those that are in php_trace_status().
OthersGo ==
  /\ Next
  /\ \A p \in Producers : loads[p] # "none" => ppc'[p] = ppc[p]
  /\ UNCHANGED status_vars

StatusNext ==
  \/ OthersGo
  \/ \E p \in Producers : LoadPushed(p) \/ LoadDropped(p) \/ LoadDrained(p) \/ StatusReturn(p)

StatusSpec == StatusInit /\ [][StatusNext]_<<vars, status_vars>>

-----------------------------------------------------------------------------
\* The counters a reader gets were never true together, and still they make sense.  A push
\* that had returned when it began to read is in one of pushed and dropped, and no call is in
\* both.  More spans can be drained than pushed, but only by as many as there were push calls
\* of other threads under way at some time while it read: none in a process that has one PHP
\* thread, although that thread is preempted between two loads and the exporter is not.
StatusMakesSense ==
  \A p \in Producers :
    LET s == status[p] IN
    loads[p] = "all" =>
      /\ s.ended <= s.pushed + s.dropped /\ s.pushed + s.dropped <= s.begun
      /\ s.drained <= s.pushed + (s.begun - s.ended)
=============================================================================
