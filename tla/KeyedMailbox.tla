---------------------------- MODULE KeyedMailbox ----------------------------
(***************************************************************************)
(* application/runtime/keyed_mailbox.py: the in-process executor behind    *)
(* the IngressRouter.  Coroutines of one event loop share it: callers that *)
(* submit work, worker tasks that take the head of a ready mailbox from a  *)
(* heap and run it, a reaper, and callers that shut it down.  Control only *)
(* moves at an await, so what lies between two awaits is one step.  A      *)
(* worker that finishes and takes its next item does so in one go in the   *)
(* code and in two steps here: others may come between.                    *)
(***************************************************************************)
EXTENDS Integers, FiniteSets, Sequences

CONSTANTS Keys,           \* aggregate keys
          Items,          \* pieces of work, those of a key numbered as accepted
          KeyOf,          \* the key of each item
          Priority,       \* WorkPriority of each item, lower runs first
          Workers,        \* worker tasks, max_concurrency of them
          Callers,        \* coroutines that may call shutdown
          NoItem,         \* what a worker runs between two items
          GlobalCapacity,
          PerKeyCapacity

ASSUME MailboxAssumption ==
  /\ Items \subseteq Nat
  /\ IsFiniteSet(Items)
  /\ IsFiniteSet(Workers)
  /\ KeyOf \in [Items -> Keys]
  /\ Priority \in [Items -> Nat]
  /\ NoItem \notin Items
  /\ GlobalCapacity \in Nat \ {0}
  /\ PerKeyCapacity \in Nat \ {0}

VARIABLES
  state,        \* RuntimeState
  mailboxes,    \* keys of the _mailboxes dictionary
  queue,        \* mailbox.queue of each key
  running,      \* keys with mailbox.running
  ready,        \* keys with mailbox.ready
  idle_since,   \* keys with mailbox.idle_since set
  ready_heap,   \* heap entries; an item stands for its priority and sequence
  sequence,     \* sequence number of each accepted item
  pending,      \* _pending_count
  idle_event,   \* _idle_event.is_set()
  completion,   \* the future behind each ticket; "cancelled" is by shutdown
  worker,       \* where each worker task is
  job,          \* the item each worker runs
  interrupted,  \* worker tasks with an undelivered cancellation
  caller        \* where each shutdown caller is

mailbox == <<mailboxes, queue, running, ready, idle_since, ready_heap>>
tasks   == <<worker, job, interrupted>>
vars    == <<state, mailbox, sequence, pending, idle_event, completion, tasks, caller>>

RuntimeStates == {"new", "running", "draining", "cancelling", "closed"}

Init ==
  /\ state = "new"
  /\ mailboxes = {}
  /\ queue = [k \in Keys |-> <<>>]
  /\ running = {}
  /\ ready = {}
  /\ idle_since = {}
  /\ ready_heap = {}
  /\ sequence = [i \in Items |-> 0]
  /\ pending = 0
  /\ idle_event = TRUE
  /\ completion = [i \in Items |-> "none"]
  /\ worker = [w \in Workers |-> "gone"]
  /\ job = [w \in Workers |-> NoItem]
  /\ interrupted = {}
  /\ caller = [c \in Callers |-> "outside"]

(* Mutant of Woken: nobody is told. *)
WokenNobody(where) == where

(* _wake_event.set() releases every task that waits for the event; a task  *)
(* clears the event before it waits, so the flag itself decides nothing.   *)
Woken(where) == [w \in Workers |-> IF where[w] = "waiting" THEN "runnable" ELSE where[w]]

Start ==
  /\ state = "new"
  /\ state' = "running"
  /\ worker' = [w \in Workers |-> "runnable"]
  /\ UNCHANGED <<mailbox, sequence, pending, idle_event, completion, job, interrupted, caller>>

----------------------------------------------------------------------------
(* Submission *)

PendingOf(k) == Len(queue[k]) + (IF k \in running THEN 1 ELSE 0)

(* Mutant of MarkReady: the flag without the heap entry. *)
MarkReadyWithoutEntry(k, head) ==
  /\ ready' = ready \cup {k}
  /\ UNCHANGED ready_heap

(* _mark_ready, without the wake-up. *)
MarkReady(k, head) ==
  /\ ready' = ready \cup {k}
  /\ ready_heap' = ready_heap \cup {head}

(* A refused submission, Overloaded or RuntimeUnavailable, changes nothing *)
(* and leaves its number to the next one.                                  *)
Submit(i) ==
  LET k == KeyOf[i] IN
  /\ state = "running"
  /\ completion[i] = "none"
  /\ \A j \in Items : (KeyOf[j] = k /\ j < i) => completion[j] # "none"
  /\ PendingOf(k) < PerKeyCapacity
  /\ pending < GlobalCapacity
  /\ mailboxes' = mailboxes \cup {k}
  /\ idle_since' = idle_since \ {k}
  /\ sequence' = [sequence EXCEPT ![i] = Cardinality({j \in Items : sequence[j] > 0}) + 1]
  /\ queue' = [queue EXCEPT ![k] = Append(@, i)]
  /\ pending' = pending + 1
  /\ idle_event' = FALSE
  /\ completion' = [completion EXCEPT ![i] = "pending"]
  /\ IF k \notin running /\ k \notin ready
       THEN MarkReady(k, Head(queue'[k])) /\ worker' = Woken(worker)
       ELSE UNCHANGED <<ready, ready_heap, worker>>
  /\ UNCHANGED <<state, running, job, interrupted, caller>>

----------------------------------------------------------------------------
(* Workers *)

Earlier(i, j) ==
  \/ Priority[i] < Priority[j]
  \/ Priority[i] = Priority[j] /\ sequence[i] < sequence[j]

(* The entries that _take_next does not skip. *)
Takeable ==
  {i \in ready_heap :
     /\ KeyOf[i] \in mailboxes
     /\ KeyOf[i] \in ready
     /\ KeyOf[i] \notin running
     /\ queue[KeyOf[i]] # <<>>}

(* The smallest entry worth taking; the ones before it are dropped. *)
TakeNext(w) ==
  /\ worker[w] = "runnable"
  /\ w \notin interrupted
  /\ \E i \in Takeable :
       /\ \A j \in Takeable \ {i} : Earlier(i, j)
       /\ LET k == KeyOf[i] IN
            /\ ready_heap' = {j \in ready_heap \ {i} : Earlier(i, j)}
            /\ ready' = ready \ {k}
            /\ running' = running \cup {k}
            /\ job' = [job EXCEPT ![w] = Head(queue[k])]
            /\ queue' = [queue EXCEPT ![k] = Tail(@)]
  /\ worker' = [worker EXCEPT ![w] = "busy"]
  /\ UNCHANGED <<state, mailboxes, idle_since, sequence, pending, idle_event, completion,
                 interrupted, caller>>

(* With nothing to take, a worker returns once the runtime stops and all   *)
(* is done, or once it cancels; otherwise it waits for the event.          *)
TakeNothing(w) ==
  /\ worker[w] = "runnable"
  /\ w \notin interrupted
  /\ Takeable = {}
  /\ ready_heap' = {}
  /\ worker' = [worker EXCEPT ![w] =
                  IF (state # "running" /\ pending = 0) \/ state = "cancelling"
                    THEN "gone" ELSE "waiting"]
  /\ UNCHANGED <<state, mailboxes, queue, running, ready, idle_since, sequence, pending,
                 idle_event, completion, job, interrupted, caller>>

(* Mutant of IdleAfter: nobody tells that the work is done. *)
IdleUntold(left) == idle_event

(* The idle event after a step that leaves so many items unfinished. *)
IdleAfter(left) == idle_event \/ left = 0

(* The operation returned, raised, or cancelled itself, which settles its  *)
(* ticket unless a shutdown did before.  A worker whose operation lets the *)
(* shutdown's cancellation through returns; an operation may swallow it.   *)
FinishItem(w) ==
  LET i == job[w]
      k == KeyOf[i]
  IN
  /\ worker[w] = "busy"
  /\ completion' = [completion EXCEPT ![i] = IF @ = "pending" THEN "finished" ELSE @]
  /\ running' = running \ {k}
  /\ pending' = pending - 1
  /\ IF queue[k] # <<>> /\ state # "cancelling"
       THEN MarkReady(k, Head(queue[k])) /\ UNCHANGED idle_since
       ELSE idle_since' = idle_since \cup {k} /\ UNCHANGED <<ready, ready_heap>>
  /\ idle_event' = IdleAfter(pending')
  /\ \E where \in {"runnable"} \cup (IF state = "cancelling" THEN {"gone"} ELSE {}) :
       worker' = Woken([worker EXCEPT ![w] = where])
  /\ job' = [job EXCEPT ![w] = NoItem]
  /\ interrupted' = interrupted \ {w}
  /\ UNCHANGED <<state, mailboxes, queue, sequence, caller>>

(* A cancellation that meets a worker between two items ends its task.     *)
Interrupt(w) ==
  /\ w \in interrupted
  /\ worker[w] \in {"runnable", "waiting"}
  /\ worker' = [worker EXCEPT ![w] = "gone"]
  /\ interrupted' = interrupted \ {w}
  /\ UNCHANGED <<state, mailbox, sequence, pending, idle_event, completion, job, caller>>

----------------------------------------------------------------------------
(* The reaper *)

Locked == \E c \in Callers : caller[c] = "closing"

(* Mutant of ReapIdle: a running mailbox is reaped as well. *)
ReapEmpty(k) ==
  /\ state \in {"running", "draining"}
  /\ ~Locked
  /\ k \in mailboxes
  /\ queue[k] = <<>>
  /\ mailboxes' = mailboxes \ {k}
  /\ idle_since' = idle_since \ {k}
  /\ UNCHANGED <<state, queue, running, ready, ready_heap, sequence, pending, idle_event,
                 completion, tasks, caller>>

(* A mailbox that has been idle for idle_ttl is forgotten, until shutdown  *)
(* stops the reaper.                                                       *)
ReapIdle(k) ==
  /\ state \in {"running", "draining"}
  /\ ~Locked
  /\ k \in mailboxes
  /\ k \notin running
  /\ queue[k] = <<>>
  /\ k \notin ready
  /\ k \in idle_since
  /\ mailboxes' = mailboxes \ {k}
  /\ idle_since' = idle_since \ {k}
  /\ UNCHANGED <<state, queue, running, ready, ready_heap, sequence, pending, idle_event,
                 completion, tasks, caller>>

----------------------------------------------------------------------------
(* Shutdown: a caller inside _close_task_group_locked holds the lock *)

Go(c, where) == caller' = [caller EXCEPT ![c] = where]

(* shutdown(DRAIN) up to its wait for the idle event. *)
ShutdownDrain(c) ==
  /\ caller[c] = "outside"
  /\ ~Locked
  /\ CASE state \in {"new", "closed"} ->
            state' = "closed" /\ Go(c, "returned") /\ UNCHANGED worker
       [] state = "running" ->
            state' = "draining" /\ Go(c, "draining") /\ worker' = Woken(worker)
       [] OTHER ->
            Go(c, "draining") /\ UNCHANGED <<state, worker>>
  /\ UNCHANGED <<mailbox, sequence, pending, idle_event, completion, job, interrupted>>

(* The drained caller closes the task group, unless someone else has.      *)
CloseDrained(c) ==
  /\ caller[c] = "draining"
  /\ idle_event
  /\ ~Locked
  /\ IF state = "closed" THEN Go(c, "returned") /\ UNCHANGED worker
                         ELSE Go(c, "closing") /\ worker' = Woken(worker)
  /\ UNCHANGED <<state, mailbox, sequence, pending, idle_event, completion, job, interrupted>>

Active == {job[w] : w \in {v \in Workers : worker[v] = "busy"}}

(* Mutant of Queued: running items are taken off the count twice. *)
QueuedAndActive ==
  {i \in Items : i \in Active \/ \E k \in mailboxes : \E n \in DOMAIN queue[k] : queue[k][n] = i}

Queued == {i \in Items : \E k \in mailboxes : \E n \in DOMAIN queue[k] : queue[k][n] = i}

(* Mutant of Dropped: the tickets of running items are left open. *)
DroppedQueued == Queued

(* The work whose tickets a cancelling shutdown cancels. *)
Dropped == Queued \cup Active

(* _cancel_all_locked, up to its wait for the task group. *)
CancelAll(c) ==
  /\ state' = "cancelling"
  /\ ready_heap' = {}
  /\ ready' = {}
  /\ queue' = [k \in Keys |-> <<>>]
  /\ idle_since' = idle_since \cup (mailboxes \ running)
  /\ pending' = pending - Cardinality(Queued)
  /\ idle_event' = IdleAfter(pending')
  /\ completion' = [i \in Items |-> IF i \in Dropped /\ completion[i] = "pending"
                                      THEN "cancelled" ELSE completion[i]]
  /\ interrupted' = {w \in Workers : worker[w] # "gone"}
  /\ worker' = Woken(worker)
  /\ Go(c, "closing")
  /\ UNCHANGED <<mailboxes, running, sequence, job>>

(* shutdown(CANCEL), or the cancellation of a caller that waits in         *)
(* shutdown(DRAIN).                                                        *)
ShutdownCancel(c) ==
  /\ caller[c] \in {"outside", "draining"}
  /\ ~Locked
  /\ \/ /\ state \in {"new", "closed"}
        /\ state' = "closed"
        /\ Go(c, "returned")
        /\ UNCHANGED <<mailbox, sequence, pending, idle_event, completion, tasks>>
     \/ /\ state \notin {"new", "closed"}
        /\ CancelAll(c)

(* The task group has no task left: everything is cleared.                 *)
Close(c) ==
  /\ caller[c] = "closing"
  /\ \A w \in Workers : worker[w] = "gone"
  /\ state' = "closed"
  /\ mailboxes' = {}
  /\ queue' = [k \in Keys |-> <<>>]
  /\ running' = {}
  /\ ready' = {}
  /\ idle_since' = {}
  /\ ready_heap' = {}
  /\ pending' = 0
  /\ idle_event' = TRUE
  /\ Go(c, "returned")
  /\ UNCHANGED <<sequence, completion, tasks>>

----------------------------------------------------------------------------
Work(w) ==
  \/ TakeNext(w)
  \/ TakeNothing(w)
  \/ FinishItem(w)
  \/ Interrupt(w)

Next ==
  \/ Start
  \/ \E i \in Items : Submit(i)
  \/ \E w \in Workers : Work(w)
  \/ \E k \in Keys : ReapIdle(k)
  \/ \E c \in Callers : ShutdownDrain(c) \/ CloseDrained(c) \/ ShutdownCancel(c) \/ Close(c)

Spec == Init /\ [][Next]_vars

(* The event loop runs every task that can run, and every operation ends.  *)
(* Nobody has to submit, to shut down or to be cancelled.                  *)
Fairness ==
  /\ \A w \in Workers : WF_vars(Work(w))
  /\ \A c \in Callers : WF_vars(CloseDrained(c) \/ Close(c))

FairSpec == Spec /\ Fairness

----------------------------------------------------------------------------
TypeOK ==
  /\ state \in RuntimeStates
  /\ mailboxes \in SUBSET Keys
  /\ queue \in [Keys -> Seq(Items)]
  /\ running \in SUBSET mailboxes
  /\ ready \in SUBSET mailboxes
  /\ idle_since \in SUBSET mailboxes
  /\ ready_heap \in SUBSET Items
  /\ sequence \in [Items -> Nat]
  /\ pending \in Nat
  /\ idle_event \in BOOLEAN
  /\ completion \in [Items -> {"none", "pending", "finished", "cancelled"}]
  /\ worker \in [Workers -> {"gone", "runnable", "waiting", "busy"}]
  /\ job \in [Workers -> Items \cup {NoItem}]
  /\ interrupted \in SUBSET Workers
  /\ caller \in [Callers -> {"outside", "draining", "closing", "returned"}]

(* The count that admission and drain rely on is the work that is          *)
(* unfinished, the idle event says when it is zero, both capacities hold.  *)
CountsAgree ==
  /\ pending = Cardinality({i \in Items : \E k \in Keys : \E n \in DOMAIN queue[k] : queue[k][n] = i})
               + Cardinality({w \in Workers : worker[w] = "busy"})
  /\ idle_event <=> pending = 0
  /\ pending <= GlobalCapacity
  /\ \A k \in Keys : Len(queue[k]) + Cardinality({w \in Workers : job[w] # NoItem /\ KeyOf[job[w]] = k})
                       <= PerKeyCapacity

(* No mailbox with work is forgotten and no wake-up is lost: a mailbox is  *)
(* ready exactly when it has work and none runs, the heap holds the head   *)
(* of each ready mailbox and nothing else, and no worker waits meanwhile.  *)
NothingForgotten ==
  /\ \A k \in Keys : k \in ready <=> (queue[k] # <<>> /\ k \notin running)
  /\ ready_heap = {Head(queue[k]) : k \in ready}
  /\ ready_heap # {} => \A w \in Workers : worker[w] # "waiting"

(* The RuntimeErrors of _mark_ready and _finish_item are never raised:     *)
(* whoever runs an item still has its mailbox, marked running by nobody    *)
(* else, and not ready.                                                    *)
NoRuntimeError ==
  \A w \in Workers : worker[w] = "busy" =>
    LET k == KeyOf[job[w]] IN
    /\ k \in mailboxes
    /\ k \in running
    /\ k \notin ready
    /\ \A v \in Workers \ {w} : worker[v] = "busy" => KeyOf[job[v]] # k

(* What is accepted is one serial mailbox per key.                         *)
Promise == INSTANCE SerialMailboxes WITH
  Concurrency <- Cardinality(Workers),
  phase  <- state,
  line   <- queue,
  active <- {job[w] : w \in {v \in Workers : worker[v] = "busy"}},
  ticket <- completion

Serial == Promise!Spec

(* Every accepted piece of work ends, whatever shutdown comes meanwhile.   *)
AcceptedWorkEnds ==
  \A i \in Items : (completion[i] = "pending") ~> (completion[i] \in {"finished", "cancelled"})

(* A shutdown that began closes the runtime and lets its caller go.        *)
ShutdownEnds ==
  \A c \in Callers : (caller[c] # "outside") ~> (caller[c] = "returned" /\ state = "closed")
=============================================================================
