----------------------------- MODULE ShardGuard ------------------------------
(***************************************************************************)
(* One shard of the DashMap of positions, the tasks that enter it and the  *)
(* worker threads that poll them.  get_signal takes the guard of its entry *)
(* and keeps it while it awaits latest_real_atr: the await frees its       *)
(* thread, not the shard.  Whoever else enters the shard meanwhile does    *)
(* not await: the lock of a shard blocks the thread.                       *)
(***************************************************************************)
CONSTANTS
    Workers,    \* worker threads of the runtime
    Signals,    \* get_signal requests
    Visits      \* scans and other handlers that enter the same shard

VARIABLES
    task,       \* what each task waits for
    polls,      \* the task each worker is polling, or none
    guard       \* the task that holds the shard, or none

vars == <<task, polls, guard>>

Tasks == Signals \cup Visits

None == "none"

TypeOK ==
    /\ task \in [Tasks -> {"idle", "entering", "reading", "read"}]
    /\ polls \in [Workers -> Tasks \cup {None}]
    /\ guard \in Signals \cup {None}

Init ==
    /\ task = [t \in Tasks |-> "idle"]
    /\ polls = [w \in Workers |-> None]
    /\ guard = None

(* A request or a scan, with its quote.                                     *)
Arrive(t) ==
    /\ task[t] = "idle"
    /\ task' = [task EXCEPT ![t] = "entering"]
    /\ UNCHANGED <<polls, guard>>

(* A worker takes a task that is ready.                                     *)
Poll(w) ==
    /\ polls[w] = None
    /\ \E t \in Tasks :
          /\ task[t] \in {"entering", "read"}
          /\ \A v \in Workers : polls[v] # t
          /\ polls' = [polls EXCEPT ![w] = t]
    /\ UNCHANGED <<task, guard>>

Blocked(w) == polls[w] # None /\ task[polls[w]] = "entering" /\ guard # None

(* get_mut on a free shard.  A scan or a full-signal request clones the     *)
(* position and lets go in the same poll, and so does whoever finds no      *)
(* position; get_signal goes on to its await with the guard.                *)
Enter(w) ==
    /\ polls[w] # None /\ guard = None
    /\ LET t == polls[w]
       IN  /\ task[t] = "entering"
           /\ \/ task' = [task EXCEPT ![t] = "idle"] /\ UNCHANGED guard
              \/ /\ t \in Signals
                 /\ task' = [task EXCEPT ![t] = "reading"]
                 /\ guard' = t
    /\ polls' = [polls EXCEPT ![w] = None]

(* The bars are read on a thread of the blocking pool, and wake the task.   *)
ReadBars(t) ==
    /\ task[t] = "reading"
    /\ task' = [task EXCEPT ![t] = "read"]
    /\ UNCHANGED <<polls, guard>>

(* Polled again, the handler evaluates, answers and drops the guard.        *)
Answer(w) ==
    /\ polls[w] # None
    /\ LET t == polls[w]
       IN  /\ task[t] = "read"
           /\ task' = [task EXCEPT ![t] = "idle"]
    /\ polls' = [polls EXCEPT ![w] = None]
    /\ guard' = None

Next ==
    \/ \E t \in Tasks : Arrive(t) \/ ReadBars(t)
    \/ \E w \in Workers : Poll(w) \/ Enter(w) \/ Answer(w)

(* Threads run what they can, the lock is handed on sooner or later, SQLite *)
(* answers.  Nobody has to arrive.                                          *)
Fairness ==
    /\ \A w \in Workers : SF_vars(Poll(w)) /\ SF_vars(Enter(w)) /\ WF_vars(Answer(w))
    /\ \A t \in Tasks : WF_vars(ReadBars(t))

Spec == Init /\ [][Next]_vars /\ Fairness

(* README.md:236-242, a guard is "held only long enough to update and clone *)
(* the position, then dropped before the await", so that two tasks on one   *)
(* key cannot deadlock: a thread that waits for the shard gets it.          *)
ThreadsAreFreed == \A w \in Workers : Blocked(w) ~> ~Blocked(w)
=============================================================================
