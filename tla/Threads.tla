------------------------------ MODULE Threads ------------------------------
(***************************************************************************)
(* The life of LoomPar threads (src/loompar/threading.cpp and the thread   *)
(* part of src/loompar/runtime.cpp).  A thread has a record on the host    *)
(* that created it (its home) and runs there or on another host.  Three    *)
(* messages tie a remote execution to its record: CREATE_REQ, CREATE_ACK   *)
(* and COMPLETE_NOTIFY.  They wait in outgoing_, which a full ring         *)
(* rotates, so that they may overtake each other.                          *)
(*                                                                         *)
(* A step is a region under one mutex or one update of an atomic counter;  *)
(* the poller of a host, a single thread, handles one message at a time.   *)
(* Creates of a host are serialised by api_mutex_.                         *)
(***************************************************************************)
EXTENDS Integers, FiniteSets

CONSTANTS
  Hosts,
  Threads,       \* the calls of CreateThread
  Home,          \* Home[t]: the host that makes call t
  Unregistered,  \* threads whose function only their home has registered
  Detachable,    \* threads whose creator may detach them
  Joinable,      \* threads whose creator may join them
  MaxRunning,    \* max_running_threads_per_host; 0: no limit
  MaxPending,    \* max_pending_creates_per_host; 0: no limit
  None

ASSUME HomeAssumption == Home \in [Threads -> Hosts]
ASSUME LimitsAssumption == MaxRunning \in Nat /\ MaxPending \in Nat
ASSUME ThreadsAssumption ==
  Unregistered \subseteq Threads /\ Detachable \subseteq Threads /\ Joinable \subseteq Threads

VARIABLES
  state,     \* record.state at home; "gone" once the record is erased
  place,     \* record.execution_host
  code,      \* record.exit_code, None until it is set
  joining,
  detached,
  exec,      \* the execution of a thread: its fiber, then its entry
  exitCode,  \* entry->exit_code of the execution
  listed,    \* remote_executions_ of all hosts
  running,   \* local_running_ of each host
  pending,   \* local_pending_ of each host
  handling,  \* what the poller of each host is in the middle of, or None
  net,       \* messages sent and not yet popped
  outcome,   \* specification only: how the thread really ended
  joined     \* specification only: what Join returned

record == <<state, place, code, joining, detached>>
execution == <<exec, exitCode, listed>>
tvars == <<record, execution, running, pending, handling, net, outcome, joined>>

Succeeded == 0
Failed == -1
AtLimit == -2
Codes == {Succeeded, Failed, AtLimit}

Message == [kind : {"create", "ack", "complete"}, thread : Threads, code : Codes \cup {None}]
ASSUME NoneAssumption == None \notin Hosts \cup Codes \cup Message

Msg(kind, t, c) == [kind |-> kind, thread |-> t, code |-> c]

\* A message goes to the execution host (create) or back home.
Target(m) == IF m.kind = "create" THEN place[m.thread] ELSE Home[m.thread]

Below(count, limit) == limit = 0 \/ count < limit

TInit ==
  /\ state = [t \in Threads |-> "none"]
  /\ place = [t \in Threads |-> None]
  /\ code = [t \in Threads |-> None]
  /\ joining = [t \in Threads |-> FALSE]
  /\ detached = [t \in Threads |-> FALSE]
  /\ exec = [t \in Threads |-> "none"]
  /\ exitCode = [t \in Threads |-> None]
  /\ listed = {}
  /\ running = [h \in Hosts |-> 0]
  /\ pending = [h \in Hosts |-> 0]
  /\ handling = [h \in Hosts |-> None]
  /\ net = {}
  /\ outcome = [t \in Threads |-> None]
  /\ joined = [t \in Threads |-> None]

-----------------------------------------------------------------------------
(* LaunchThread, on the home host.                                         *)

CreateLocal(t) ==
  LET h == Home[t] IN
  /\ state[t] = "none"
  /\ Below(running[h], MaxRunning)
  /\ running' = [running EXCEPT ![h] = @ + 1]
  /\ state' = [state EXCEPT ![t] = "running"]
  /\ place' = [place EXCEPT ![t] = h]
  /\ exec' = [exec EXCEPT ![t] = "ready"]
  /\ UNCHANGED <<code, joining, detached, exitCode, listed, pending, handling, net, outcome, joined>>

CreateRemote(t, h) ==
  LET home == Home[t] IN
  /\ state[t] = "none"
  /\ h # home
  /\ Below(pending[home], MaxPending)
  /\ pending' = [pending EXCEPT ![home] = @ + 1]
  /\ state' = [state EXCEPT ![t] = "launching"]
  /\ place' = [place EXCEPT ![t] = h]
  /\ net' = net \cup {Msg("create", t, None)}
  /\ UNCHANGED <<code, joining, detached, execution, running, handling, outcome, joined>>

\* A limit is reached, or Launch cannot build the fiber: a reservation is
\* released, and the record completed and joined before anyone knows the id.
CreateFails(t) ==
  /\ state[t] = "none"
  /\ state' = [state EXCEPT ![t] = "gone"]
  /\ UNCHANGED <<place, code, joining, detached, execution, running, pending, handling, net,
                 outcome, joined>>

-----------------------------------------------------------------------------
(* WorkerLoop, on the execution host.                                      *)

\* The callback returns or throws, or a memory boundary of it fails.
Finish(t, c) ==
  /\ exec[t] = "ready"
  /\ exec' = [exec EXCEPT ![t] = "done"]
  /\ exitCode' = [exitCode EXCEPT ![t] = c]
  /\ outcome' = [outcome EXCEPT ![t] = c]
  /\ UNCHANGED <<record, listed, running, pending, handling, net, joined>>

\* MarkCompleted of a thread's record at home.
MarkCompleted(t, c) ==
  /\ state' = [state EXCEPT ![t] = IF detached[t] THEN "gone" ELSE "completed"]
  /\ code' = [code EXCEPT ![t] = c]
  /\ UNCHANGED <<place, joining, detached>>

\* on_complete of a local thread releases its place among the running ones.
OnComplete(t) ==
  /\ exec[t] = "done" /\ place[t] = Home[t]
  /\ exec' = [exec EXCEPT ![t] = "released"]
  /\ running' = [running EXCEPT ![Home[t]] = @ - 1]
  /\ UNCHANGED <<record, exitCode, listed, pending, handling, net, outcome, joined>>

CompleteLocal(t) ==
  /\ exec[t] = "released"
  /\ exec' = [exec EXCEPT ![t] = "reaped"]
  /\ MarkCompleted(t, exitCode[t])
  /\ UNCHANGED <<exitCode, listed, running, pending, handling, net, outcome, joined>>

\* MarkCompleted of the entry in executions_, for a remote thread.
CompleteRemote(t) ==
  /\ exec[t] = "done" /\ place[t] # Home[t]
  /\ exec' = [exec EXCEPT ![t] = "completed"]
  /\ UNCHANGED <<record, exitCode, listed, running, pending, handling, net, outcome, joined>>

-----------------------------------------------------------------------------
(* Progress, on the execution host.                                        *)

\* Mutant of Reap: a listed execution is taken for a completed one.
ReapEarly(t) ==
  /\ t \in listed
  /\ exec' = [exec EXCEPT ![t] = "reaped"]
  /\ listed' = listed \ {t}
  /\ running' = [running EXCEPT ![place[t]] = @ - 1]
  /\ net' = net \cup {Msg("complete", t, Succeeded)}
  /\ UNCHANGED <<record, exitCode, pending, handling, outcome, joined>>

\* A completed execution is joined, released and reported home.
Reap(t) ==
  /\ t \in listed /\ exec[t] = "completed"
  /\ exec' = [exec EXCEPT ![t] = "reaped"]
  /\ listed' = listed \ {t}
  /\ running' = [running EXCEPT ![place[t]] = @ - 1]
  /\ net' = net \cup {Msg("complete", t, exitCode[t])}
  /\ UNCHANGED <<record, exitCode, pending, handling, outcome, joined>>

-----------------------------------------------------------------------------
(* HandleMessage, on the poller of the target.                             *)

Popping(m) == m \in net /\ handling[Target(m)] = None

\* CREATE_REQ of a function that is unknown here, or at the running limit.
Refuse(m) ==
  LET t == m.thread
      c == IF t \in Unregistered THEN Failed ELSE AtLimit
  IN
  /\ Popping(m) /\ m.kind = "create"
  /\ t \in Unregistered \/ ~Below(running[place[t]], MaxRunning)
  /\ net' = (net \ {m}) \cup {Msg("complete", t, c)}
  /\ outcome' = [outcome EXCEPT ![t] = c]
  /\ UNCHANGED <<record, execution, running, pending, handling, joined>>

\* CREATE_REQ reserves and launches.  The fiber may run to its end before
\* the handler lists it.  Launch may fail: ok says whether it did not.
Start(m, ok) ==
  LET t == m.thread
      h == place[t]
  IN
  /\ Popping(m) /\ m.kind = "create"
  /\ t \notin Unregistered /\ Below(running[h], MaxRunning)
  /\ running' = [running EXCEPT ![h] = @ + 1]
  /\ exec' = [exec EXCEPT ![t] = IF ok THEN "ready" ELSE "completed"]
  /\ exitCode' = [exitCode EXCEPT ![t] = IF ok THEN None ELSE Failed]
  /\ outcome' = [outcome EXCEPT ![t] = IF ok THEN None ELSE Failed]
  /\ handling' = [handling EXCEPT ![h] = Msg("create", t, IF ok THEN Succeeded ELSE Failed)]
  /\ net' = net \ {m}
  /\ UNCHANGED <<record, listed, pending, joined>>

\* Mutant of List: an execution that could not be launched is forgotten.
ListLaunched(h) ==
  LET m == handling[h] IN
  /\ m # None /\ m.kind = "create"
  /\ listed' = IF m.code = Succeeded THEN listed \cup {m.thread} ELSE listed
  /\ net' = IF m.code = Succeeded THEN net \cup {Msg("ack", m.thread, None)} ELSE net
  /\ handling' = [handling EXCEPT ![h] = None]
  /\ UNCHANGED <<record, exec, exitCode, running, pending, outcome, joined>>

\* The handler lists the execution and, if it was launched, acknowledges it.
List(h) ==
  LET m == handling[h] IN
  /\ m # None /\ m.kind = "create"
  /\ listed' = listed \cup {m.thread}
  /\ net' = IF m.code = Succeeded THEN net \cup {Msg("ack", m.thread, None)} ELSE net
  /\ handling' = [handling EXCEPT ![h] = None]
  /\ UNCHANGED <<record, exec, exitCode, running, pending, outcome, joined>>

\* An acknowledgement that comes after the completion changes nothing.
HandleLate(m) ==
  /\ Popping(m) /\ m.kind # "create"
  /\ state[m.thread] \in {"completed", "gone"}
  /\ net' = net \ {m}
  /\ UNCHANGED <<record, execution, running, pending, handling, outcome, joined>>

\* Mutant of HandleAck: the acknowledgement ends the pending create.
HandleAckCounting(m) ==
  /\ Popping(m) /\ m.kind = "ack"
  /\ state[m.thread] \in {"launching", "running"}
  /\ state' = [state EXCEPT ![m.thread] = "running"]
  /\ pending' = [pending EXCEPT ![Home[m.thread]] = @ - 1]
  /\ net' = net \ {m}
  /\ UNCHANGED <<place, code, joining, detached, execution, running, handling, outcome, joined>>

\* CREATE_ACK: MarkRunning.
HandleAck(m) ==
  /\ Popping(m) /\ m.kind = "ack"
  /\ state[m.thread] \in {"launching", "running"}
  /\ state' = [state EXCEPT ![m.thread] = "running"]
  /\ net' = net \ {m}
  /\ UNCHANGED <<place, code, joining, detached, execution, running, pending, handling, outcome,
                 joined>>

\* COMPLETE_NOTIFY first ends the pending create,
HandleComplete(m) ==
  LET h == Home[m.thread] IN
  /\ Popping(m) /\ m.kind = "complete"
  /\ state[m.thread] \in {"launching", "running"}
  /\ pending' = [pending EXCEPT ![h] = @ - 1]
  /\ handling' = [handling EXCEPT ![h] = m]
  /\ net' = net \ {m}
  /\ UNCHANGED <<record, execution, running, outcome, joined>>

\* then completes the record.
EndComplete(h) ==
  LET m == handling[h] IN
  /\ m # None /\ m.kind = "complete"
  /\ MarkCompleted(m.thread, m.code)
  /\ handling' = [handling EXCEPT ![h] = None]
  /\ UNCHANGED <<execution, running, pending, net, outcome, joined>>

-----------------------------------------------------------------------------
(* Join and Detach, on the home host.                                      *)

Claimable(t) == state[t] \in {"launching", "running", "completed"} /\ ~joining[t] /\ ~detached[t]

JoinBegin(t) ==
  /\ t \in Joinable /\ Claimable(t)
  /\ joining' = [joining EXCEPT ![t] = TRUE]
  /\ UNCHANGED <<state, place, code, detached, execution, running, pending, handling, net, outcome,
                 joined>>

\* The joiner wakes up, acquires, and erases the record.
JoinEnd(t) ==
  /\ joining[t] /\ state[t] = "completed"
  /\ state' = [state EXCEPT ![t] = "gone"]
  /\ joined' = [joined EXCEPT ![t] = code[t]]
  /\ UNCHANGED <<place, code, joining, detached, execution, running, pending, handling, net,
                 outcome>>

Detach(t) ==
  /\ t \in Detachable /\ Claimable(t)
  /\ detached' = [detached EXCEPT ![t] = TRUE]
  /\ state' = [state EXCEPT ![t] = IF @ = "completed" THEN "gone" ELSE @]
  /\ UNCHANGED <<place, code, joining, execution, running, pending, handling, net, outcome, joined>>

-----------------------------------------------------------------------------

\* What the application does on its own.
Call(t) ==
  \/ CreateLocal(t)
  \/ \E h \in Hosts : CreateRemote(t, h)
  \/ CreateFails(t)
  \/ JoinBegin(t)
  \/ Detach(t)

\* What workers, pollers, the progress thread and waiting joiners do.
Work ==
  \/ \E t \in Threads : \E c \in {Succeeded, Failed} : Finish(t, c)
  \/ \E t \in Threads : OnComplete(t)
  \/ \E t \in Threads : CompleteLocal(t)
  \/ \E t \in Threads : CompleteRemote(t)
  \/ \E t \in Threads : Reap(t)
  \/ \E m \in net : Refuse(m)
  \/ \E m \in net : \E ok \in BOOLEAN : Start(m, ok)
  \/ \E h \in Hosts : List(h)
  \/ \E m \in net : HandleLate(m)
  \/ \E m \in net : HandleAck(m)
  \/ \E m \in net : HandleComplete(m)
  \/ \E h \in Hosts : EndComplete(h)
  \/ \E t \in Threads : JoinEnd(t)

TNext == (\E t \in Threads : Call(t)) \/ Work

\* Callbacks return, and every system thread keeps running.
TSpec == TInit /\ [][TNext]_tvars /\ WF_tvars(Work)

-----------------------------------------------------------------------------
(* Properties.                                                             *)

\* The type invariant of ThreadRecord, Entry, RemoteExecution and the two
\* unsigned counters of LoomParRuntime, which never fall below zero.
TTypeOK ==
  /\ state \in [Threads -> {"none", "launching", "running", "completed", "gone"}]
  /\ place \in [Threads -> Hosts \cup {None}]
  /\ code \in [Threads -> Codes \cup {None}]
  /\ joining \in [Threads -> BOOLEAN] /\ detached \in [Threads -> BOOLEAN]
  /\ exec \in [Threads -> {"none", "ready", "done", "released", "completed", "reaped"}]
  /\ exitCode \in [Threads -> Codes \cup {None}]
  /\ listed \subseteq Threads
  /\ running \in [Hosts -> Nat] /\ pending \in [Hosts -> Nat]
  /\ handling \in [Hosts -> Message \cup {None}]
  /\ net \subseteq Message
  /\ outcome \in [Threads -> Codes \cup {None}] /\ joined \in [Threads -> Codes \cup {None}]

\* The two counters that enforce the thread limits are exact and respect them,
\* however creates, workers, Progress and the poller interleave: local_running_
\* counts the executions of a host that have not been released, local_pending_
\* the remote threads of a home that are not complete, apart from the one whose
\* completion is being handled.
CountersExact ==
  /\ TTypeOK
  /\ \A h \in Hosts :
       /\ running[h] = Cardinality({t \in Threads : /\ place[t] = h
                                                    /\ exec[t] \in {"ready", "done", "completed"}})
       /\ MaxRunning = 0 \/ running[h] <= MaxRunning
       /\ pending[h] =
            Cardinality({t \in Threads :
              /\ Home[t] = h /\ place[t] \notin {h, None}
              /\ state[t] \in {"launching", "running"}
              /\ ~(handling[h] # None /\ handling[h].thread = t /\ handling[h].kind = "complete")})
       /\ MaxPending = 0 \/ pending[h] <= MaxPending

\* A record is completed only when the thread has really ended, with the code
\* it ended with, and that is what Join returns.
ResultDelivered ==
  \A t \in Threads :
    /\ state[t] = "completed" => outcome[t] # None /\ code[t] = outcome[t]
    /\ joined[t] # None => joined[t] = outcome[t]

\* A thread that is joined or detached is reclaimed in the end: Join returns,
\* whatever failed or was refused on the execution host.
Reclaimed == \A t \in Threads : (joining[t] \/ detached[t]) ~> (state[t] = "gone")

=============================================================================
