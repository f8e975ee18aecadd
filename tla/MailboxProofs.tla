---------------------------- MODULE MailboxProofs ---------------------------
(***************************************************************************)
(* Machine-checked proofs about KeyedMailbox, for any keys, items,         *)
(* priorities, worker tasks, callers and capacities.                       *)
(*                                                                         *)
(* Each layer of the inductive invariant rests on the ones before it: the  *)
(* shape of the mailboxes and of who runs what; the heap and the wake-ups; *)
(* the counts; the tickets and the phases of a shutdown; and then the      *)
(* refinement of SerialMailboxes.                                          *)
(***************************************************************************)
EXTENDS KeyedMailbox, FiniteSetTheorems, TLAPS

----------------------------------------------------------------------------
(* The shape of the mailboxes *)

(* The types of the variables other than the count.                        *)
Types ==
  /\ state \in RuntimeStates
  /\ mailboxes \in SUBSET Keys
  /\ queue \in [Keys -> Seq(Items)]
  /\ running \in SUBSET mailboxes
  /\ ready \in SUBSET mailboxes
  /\ idle_since \in SUBSET mailboxes
  /\ ready_heap \in SUBSET Items
  /\ sequence \in [Items -> Nat]
  /\ idle_event \in BOOLEAN
  /\ completion \in [Items -> {"none", "pending", "finished", "cancelled"}]
  /\ worker \in [Workers -> {"gone", "runnable", "waiting", "busy"}]
  /\ job \in [Workers -> Items \cup {NoItem}]
  /\ interrupted \in SUBSET Workers
  /\ caller \in [Callers -> {"outside", "draining", "closing", "returned"}]

(* A queue belongs to a known mailbox, and holds unfinished items of its   *)
(* key, each once.                                                         *)
Lined ==
  \A k \in Keys :
    /\ queue[k] # <<>> => k \in mailboxes
    /\ \A n \in DOMAIN queue[k] :
         /\ KeyOf[queue[k][n]] = k
         /\ completion[queue[k][n]] = "pending"
         /\ \A m \in DOMAIN queue[k] : queue[k][m] = queue[k][n] => m = n

(* A worker has a job while it is busy; its key is running, for it alone.  *)
Manned ==
  /\ \A w \in Workers :
       /\ worker[w] = "busy" <=> job[w] # NoItem
       /\ worker[w] = "busy" => KeyOf[job[w]] \in running
       /\ \A v \in Workers : (worker[w] = "busy" /\ worker[v] = "busy"
                               /\ KeyOf[job[v]] = KeyOf[job[w]]) => v = w
  /\ \A k \in running : \E w \in Workers : worker[w] = "busy" /\ KeyOf[job[w]] = k

(* What runs was accepted and has left its queue.                          *)
Underway ==
  \A w \in Workers : worker[w] = "busy" =>
    /\ completion[job[w]] # "none"
    /\ \A k \in Keys : \A n \in DOMAIN queue[k] : queue[k][n] # job[w]

ReadyKeys == \A k \in Keys : k \in ready <=> (queue[k] # <<>> /\ k \notin running)

(* Nothing waits before the start, under a cancellation or after the end.  *)
Quiet ==
  /\ state \in {"new", "cancelling", "closed"} => \A k \in Keys : queue[k] = <<>>
  /\ state = "new" => \A w \in Workers : worker[w] = "gone"

Shape == Types /\ Lined /\ Manned /\ Underway /\ ReadyKeys /\ Quiet

(* What the head and the tail of a queue that is not empty hold.           *)
LEMMA QueueEnds ==
  ASSUME NEW q \in Seq(Items), q # <<>>
  PROVE  /\ Head(q) \in Items
         /\ Tail(q) \in Seq(Items)
         /\ 1 \in DOMAIN q
         /\ Head(q) = q[1]
         /\ Len(Tail(q)) = Len(q) - 1
         /\ \A n \in DOMAIN Tail(q) : n \in Nat /\ n + 1 \in DOMAIN q /\ Tail(q)[n] = q[n + 1]
         /\ \A n \in DOMAIN q : n = 1 \/ (n - 1 \in DOMAIN Tail(q) /\ Tail(q)[n - 1] = q[n])
OBVIOUS

(* What a queue holds once an item was appended.                           *)
LEMMA QueueGrows ==
  ASSUME NEW q \in Seq(Items), NEW i \in Items
  PROVE  /\ Append(q, i) \in Seq(Items)
         /\ Append(q, i) # <<>>
         /\ Len(Append(q, i)) = Len(q) + 1
         /\ Len(q) + 1 \in DOMAIN Append(q, i)
         /\ Append(q, i)[Len(q) + 1] = i
         /\ \A n \in DOMAIN Append(q, i) : n \in DOMAIN q \/ n = Len(q) + 1
         /\ \A n \in DOMAIN q : n \in DOMAIN Append(q, i) /\ n # Len(q) + 1 /\ Append(q, i)[n] = q[n]
         /\ q # <<>> => Head(Append(q, i)) = Head(q)
         /\ q = <<>> => Head(Append(q, i)) = i
OBVIOUS

(* The wake-up changes who waits, and nothing else.                        *)
LEMMA WokenFacts ==
  ASSUME NEW where \in [Workers -> {"gone", "runnable", "waiting", "busy"}]
  PROVE  /\ Woken(where) \in [Workers -> {"gone", "runnable", "waiting", "busy"}]
         /\ \A w \in Workers : Woken(where)[w] # "waiting"
         /\ \A w \in Workers : Woken(where)[w] = "busy" <=> where[w] = "busy"
         /\ \A w \in Workers : Woken(where)[w] = "gone" <=> where[w] = "gone"
BY DEF Woken

LEMMA KeysOfItems == \A i \in Items : KeyOf[i] \in Keys /\ i # NoItem
BY MailboxAssumption

LEMMA ShapeInit == Init => Shape
<1> SUFFICES ASSUME Init PROVE Shape
  OBVIOUS
<1>1. \A k \in Keys : queue[k] = <<>>
  BY DEF Init
<1>2. Types
  BY DEF Init, Types, RuntimeStates
<1>3. Lined /\ Manned /\ Underway /\ ReadyKeys /\ Quiet
  BY <1>1 DEF Init, Lined, Manned, Underway, ReadyKeys, Quiet
<1> QED
  BY <1>2, <1>3 DEF Shape

LEMMA ShapeSubmit ==
  ASSUME Shape, NEW i \in Items, Submit(i)
  PROVE  Shape'
<1> DEFINE k == KeyOf[i]
<1> DEFINE q == queue[k]
<1> DEFINE grown == Append(q, i)
<1>1. k \in Keys /\ i # NoItem /\ q \in Seq(Items)
  BY KeysOfItems DEF Shape, Types
<1>2. queue' = [queue EXCEPT ![k] = grown] /\ queue \in [Keys -> Seq(Items)]
  BY DEF Submit, Shape, Types
<1>3. queue'[k] = grown /\ \A l \in Keys \ {k} : queue'[l] = queue[l]
  BY <1>1, <1>2
<1>4. /\ state = "running" /\ completion[i] = "none"
      /\ mailboxes' = mailboxes \cup {k}
      /\ completion' = [completion EXCEPT ![i] = "pending"]
      /\ UNCHANGED <<state, running, job, interrupted, caller>>
  BY DEF Submit
<1>5. \/ k \notin running /\ k \notin ready /\ ready' = ready \cup {k}
         /\ ready_heap' = ready_heap \cup {Head(queue'[k])} /\ worker' = Woken(worker)
      \/ (k \in running \/ k \in ready) /\ UNCHANGED <<ready, ready_heap, worker>>
  BY DEF Submit, MarkReady
<1>6. /\ worker' \in [Workers -> {"gone", "runnable", "waiting", "busy"}]
      /\ \A w \in Workers : worker'[w] = "busy" <=> worker[w] = "busy"
  BY <1>5, WokenFacts DEF Shape, Types
<1>7. \A j \in Items : completion'[j] = IF j = i THEN "pending" ELSE completion[j]
  BY <1>4 DEF Shape, Types
<1>8. \A l \in Keys : \A n \in DOMAIN queue[l] : queue[l][n] # i
  BY <1>4 DEF Shape, Lined
<1>9. /\ grown \in Seq(Items) /\ grown # <<>>
      /\ grown[Len(q) + 1] = i
      /\ \A n \in DOMAIN grown : n \in DOMAIN q \/ n = Len(q) + 1
      /\ \A n \in DOMAIN q : n \in DOMAIN grown /\ n # Len(q) + 1 /\ grown[n] = q[n]
  BY <1>1, QueueGrows
<1>a. Types'
  <2>1. Head(queue'[k]) \in Items
    BY <1>3, <1>9, QueueEnds
  <2>2. Cardinality({j \in Items : sequence[j] > 0}) \in Nat
    BY MailboxAssumption, FS_Subset, FS_CardinalityType
  <2>3. sequence' \in [Items -> Nat]
    BY <2>2 DEF Submit, Shape, Types
  <2>4. queue' \in [Keys -> Seq(Items)]
    BY <1>1, <1>2, <1>9
  <2>5. idle_since' \in SUBSET mailboxes' /\ idle_event' \in BOOLEAN
    BY <1>4 DEF Submit, Shape, Types
  <2>6. completion' \in [Items -> {"none", "pending", "finished", "cancelled"}]
    BY <1>4 DEF Shape, Types
  <2>7. ready' \in SUBSET mailboxes' /\ ready_heap' \in SUBSET Items
    BY <2>1, <1>4, <1>5 DEF Shape, Types
  <2> QED
    BY <1>1, <1>4, <1>6, <2>3, <2>4, <2>5, <2>6, <2>7 DEF Shape, Types
<1>b. Lined'
  <2>1. \A l \in Keys : queue'[l] # <<>> => l \in mailboxes'
    BY <1>3, <1>4 DEF Shape, Lined
  <2>2. ASSUME NEW l \in Keys, NEW n \in DOMAIN queue'[l]
        PROVE  /\ KeyOf[queue'[l][n]] = l
               /\ completion'[queue'[l][n]] = "pending"
               /\ \A m \in DOMAIN queue'[l] : queue'[l][m] = queue'[l][n] => m = n
    <3>1. CASE l # k
      <4>1. queue'[l] = queue[l] /\ queue[l] \in Seq(Items)
        BY <3>1, <1>3 DEF Shape, Types
      <4>2. n \in DOMAIN queue[l] /\ queue[l][n] \in Items
        BY <4>1, <2>2
      <4> QED
        BY <4>1, <4>2, <1>7 DEF Shape, Lined
    <3>2. CASE l = k
      <4>1. queue'[l] = grown
        BY <3>2, <1>3
      <4>2. \A m \in DOMAIN q : q[m] \in Items /\ q[m] # i /\ KeyOf[q[m]] = k /\ completion[q[m]] = "pending"
              /\ \A o \in DOMAIN q : q[o] = q[m] => o = m
        BY <1>1, <1>8 DEF Shape, Lined
      <4>3. n \in DOMAIN grown
        BY <4>1, <2>2
      <4>4. KeyOf[grown[n]] = k /\ completion'[grown[n]] = "pending"
        BY <4>2, <4>3, <1>9, <1>7
      <4>5. \A m \in DOMAIN grown : grown[m] = grown[n] => m = n
        BY <4>2, <4>3, <1>9
      <4> QED
        BY <4>1, <4>4, <4>5, <3>2
    <3> QED
      BY <3>1, <3>2
  <2> QED
    BY <2>1, <2>2 DEF Lined
<1>c. Manned'
  BY <1>4, <1>6 DEF Shape, Manned
<1>d. Underway'
  <2> SUFFICES ASSUME NEW w \in Workers, worker'[w] = "busy"
               PROVE  /\ completion'[job[w]] # "none"
                      /\ \A l \in Keys : \A n \in DOMAIN queue'[l] : queue'[l][n] # job[w]
    BY <1>4 DEF Underway
  <2>1. worker[w] = "busy" /\ completion[job[w]] # "none" /\ job[w] \in Items
    BY <1>6 DEF Shape, Underway, Manned, Types
  <2>2. job[w] # i /\ completion'[job[w]] # "none"
    BY <2>1, <1>4, <1>7
  <2>3. \A l \in Keys : \A n \in DOMAIN queue[l] : queue[l][n] # job[w]
    BY <2>1 DEF Shape, Underway
  <2>4. \A n \in DOMAIN grown : grown[n] # job[w]
    BY <2>2, <2>3, <1>1, <1>9
  <2> QED
    BY <2>2, <2>3, <2>4, <1>3
<1>e. ReadyKeys'
  BY <1>1, <1>3, <1>4, <1>5, <1>9 DEF Shape, ReadyKeys
<1>f. Quiet'
  BY <1>4 DEF Quiet
<1> QED
  BY <1>a, <1>b, <1>c, <1>d, <1>e, <1>f DEF Shape

(* Every ready mailbox has work and is not running, so it is worth taking. *)
LEMMA ShapeTakeNext ==
  ASSUME Shape, NEW w \in Workers, TakeNext(w)
  PROVE  Shape'
<1> PICK i \in Takeable :
      LET k == KeyOf[i] IN
      /\ ready_heap' = {j \in ready_heap \ {i} : Earlier(i, j)}
      /\ ready' = ready \ {k}
      /\ running' = running \cup {k}
      /\ job' = [job EXCEPT ![w] = Head(queue[k])]
      /\ queue' = [queue EXCEPT ![k] = Tail(@)]
  BY DEF TakeNext
<1> DEFINE k == KeyOf[i]
<1> DEFINE q == queue[k]
<1> DEFINE first == Head(q)
<1>1. /\ i \in Items /\ k \in Keys /\ k \in mailboxes /\ k \in ready /\ k \notin running
      /\ q # <<>> /\ q \in Seq(Items)
  BY KeysOfItems DEF Takeable, Shape, Types
<1>2. /\ worker[w] = "runnable" /\ job[w] = NoItem
      /\ worker' = [worker EXCEPT ![w] = "busy"]
      /\ UNCHANGED <<state, mailboxes, idle_since, sequence, idle_event, completion,
                     interrupted, caller>>
  BY DEF TakeNext, Shape, Manned
<1>3. /\ queue'[k] = Tail(q) /\ \A l \in Keys \ {k} : queue'[l] = queue[l]
      /\ job'[w] = first /\ \A v \in Workers \ {w} : job'[v] = job[v]
      /\ worker'[w] = "busy" /\ \A v \in Workers \ {w} : worker'[v] = worker[v]
  BY <1>1, <1>2 DEF Shape, Types
<1>4. /\ first \in Items /\ first # NoItem
      /\ Tail(q) \in Seq(Items)
      /\ 1 \in DOMAIN q /\ first = q[1]
      /\ \A n \in DOMAIN Tail(q) : n \in Nat /\ n >= 1 /\ n + 1 \in DOMAIN q /\ Tail(q)[n] = q[n + 1]
  BY <1>1, QueueEnds, KeysOfItems
<1>5. /\ KeyOf[first] = k /\ completion[first] = "pending"
      /\ \A n \in DOMAIN q : KeyOf[q[n]] = k /\ completion[q[n]] = "pending"
                             /\ \A m \in DOMAIN q : q[m] = q[n] => m = n
  BY <1>1, <1>4 DEF Shape, Lined
<1>a. Types'
  <2>1. queue' \in [Keys -> Seq(Items)]
    BY <1>1, <1>4 DEF Shape, Types
  <2>2. job' \in [Workers -> Items \cup {NoItem}]
    BY <1>4 DEF Shape, Types
  <2>3. running' \in SUBSET mailboxes' /\ ready' \in SUBSET mailboxes' /\ ready_heap' \in SUBSET Items
    BY <1>1, <1>2 DEF Shape, Types
  <2> QED
    BY <1>2, <2>1, <2>2, <2>3 DEF Shape, Types
<1>b. Lined'
  <2> SUFFICES ASSUME NEW l \in Keys
               PROVE  /\ queue'[l] # <<>> => l \in mailboxes'
                      /\ \A n \in DOMAIN queue'[l] :
                           /\ KeyOf[queue'[l][n]] = l
                           /\ completion'[queue'[l][n]] = "pending"
                           /\ \A m \in DOMAIN queue'[l] : queue'[l][m] = queue'[l][n] => m = n
    BY DEF Lined
  <2>1. CASE l # k
    BY <2>1, <1>2, <1>3 DEF Shape, Lined
  <2>2. CASE l = k
    <3>1. queue'[l] = Tail(q) /\ l \in mailboxes'
      BY <2>2, <1>1, <1>2, <1>3
    <3>2. \A n \in DOMAIN Tail(q) : KeyOf[Tail(q)[n]] = k /\ completion[Tail(q)[n]] = "pending"
      BY <1>4, <1>5
    <3>3. \A n, m \in DOMAIN Tail(q) : Tail(q)[m] = Tail(q)[n] => m = n
      <4> TAKE n, m \in DOMAIN Tail(q)
      <4> HAVE Tail(q)[m] = Tail(q)[n]
      <4>1. n \in Nat /\ m \in Nat /\ n + 1 \in DOMAIN q /\ m + 1 \in DOMAIN q /\ q[m + 1] = q[n + 1]
        BY <1>4
      <4>2. m + 1 = n + 1
        BY <4>1, <1>5
      <4> QED
        BY <4>1, <4>2
    <3> QED
      BY <3>1, <3>2, <3>3, <1>2, <2>2
  <2> QED
    BY <2>1, <2>2
<1>6. \A v \in Workers : worker[v] = "busy" => v # w /\ KeyOf[job[v]] # k /\ KeyOf[job[v]] \in running
  BY <1>1, <1>2 DEF Shape, Manned
<1>c. Manned'
  <2>1. \A v \in Workers : worker'[v] = "busy" <=> job'[v] # NoItem
    BY <1>3, <1>4 DEF Shape, Manned
  <2>2. \A v \in Workers : worker'[v] = "busy" => KeyOf[job'[v]] \in running'
    BY <1>3, <1>5, <1>6
  <2>3. \A v, u \in Workers : (worker'[v] = "busy" /\ worker'[u] = "busy"
                               /\ KeyOf[job'[u]] = KeyOf[job'[v]]) => u = v
    BY <1>3, <1>5, <1>6 DEF Shape, Manned
  <2>4. \A l \in running' : \E v \in Workers : worker'[v] = "busy" /\ KeyOf[job'[v]] = l
    <3> TAKE l \in running'
    <3>1. CASE l = k
      BY <3>1, <1>3, <1>5
    <3>2. CASE l \in running
      <4>1. PICK v \in Workers : worker[v] = "busy" /\ KeyOf[job[v]] = l
        BY <3>2 DEF Shape, Manned
      <4> QED
        BY <4>1, <1>3, <1>6
    <3> QED
      BY <3>1, <3>2
  <2> QED
    BY <2>1, <2>2, <2>3, <2>4 DEF Manned
<1>d. Underway'
  <2> SUFFICES ASSUME NEW v \in Workers, worker'[v] = "busy"
               PROVE  /\ completion'[job'[v]] # "none"
                      /\ \A l \in Keys : \A n \in DOMAIN queue'[l] : queue'[l][n] # job'[v]
    BY DEF Underway
  <2>1. \A l \in Keys : \A n \in DOMAIN queue'[l] : \E m \in DOMAIN queue[l] : queue[l][m] = queue'[l][n]
    BY <1>3, <1>4
  <2>2. CASE v # w
    <3>1. worker[v] = "busy" /\ job'[v] = job[v]
      BY <2>2, <1>3
    <3>2. completion[job[v]] # "none" /\ \A l \in Keys : \A n \in DOMAIN queue[l] : queue[l][n] # job[v]
      BY <3>1 DEF Shape, Underway
    <3> QED
      BY <3>1, <3>2, <2>1, <1>2
  <2>3. CASE v = w
    <3>1. job'[v] = first /\ completion'[first] = "pending"
      BY <2>3, <1>2, <1>3, <1>5
    <3>2. \A l \in Keys \ {k} : \A n \in DOMAIN queue'[l] : queue'[l][n] # first
      BY <1>3, <1>5 DEF Shape, Lined
    <3>3. \A n \in DOMAIN Tail(q) : Tail(q)[n] # first
      <4> TAKE n \in DOMAIN Tail(q)
      <4>1. n \in Nat /\ n >= 1 /\ n + 1 \in DOMAIN q /\ Tail(q)[n] = q[n + 1]
        BY <1>4
      <4>2. n + 1 # 1
        BY <4>1
      <4> QED
        BY <4>1, <4>2, <1>4, <1>5
    <3>4. \A n \in DOMAIN queue'[k] : queue'[k][n] # first
      BY <3>3, <1>3
    <3>5. \A l \in Keys : \A n \in DOMAIN queue'[l] : queue'[l][n] # first
      BY <3>2, <3>4
    <3> QED
      BY <3>1, <3>5
  <2> QED
    BY <2>2, <2>3
<1>e. ReadyKeys'
  BY <1>1, <1>3 DEF Shape, ReadyKeys
<1>f. Quiet'
  BY <1>1, <1>2 DEF Shape, Quiet
<1> QED
  BY <1>a, <1>b, <1>c, <1>d, <1>e, <1>f DEF Shape

(* The worker gives up its item, whose key has work left or does not.      *)
LEMMA ShapeFinishItem ==
  ASSUME Shape, NEW w \in Workers, FinishItem(w)
  PROVE  Shape'
<1> DEFINE i == job[w]
<1> DEFINE k == KeyOf[i]
<1>1. /\ worker[w] = "busy" /\ i \in Items /\ k \in Keys /\ k \in running /\ k \in mailboxes
      /\ completion[i] # "none" /\ k \notin ready
  BY KeysOfItems DEF FinishItem, Shape, Manned, Types, Underway, ReadyKeys
<1>2. /\ completion' = [completion EXCEPT ![i] = IF @ = "pending" THEN "finished" ELSE @]
      /\ running' = running \ {k}
      /\ job' = [job EXCEPT ![w] = NoItem]
      /\ interrupted' = interrupted \ {w}
      /\ idle_event' = (idle_event \/ pending' = 0)
      /\ UNCHANGED <<state, mailboxes, queue, sequence, caller>>
  BY DEF FinishItem, IdleAfter
<1>3. \/ /\ queue[k] # <<>> /\ state # "cancelling"
         /\ ready' = ready \cup {k} /\ ready_heap' = ready_heap \cup {Head(queue[k])}
         /\ idle_since' = idle_since
      \/ /\ queue[k] = <<>> \/ state = "cancelling"
         /\ idle_since' = idle_since \cup {k} /\ UNCHANGED <<ready, ready_heap>>
  BY DEF FinishItem, MarkReady
<1>4. PICK where \in {"runnable", "gone"} :
        worker' = Woken([worker EXCEPT ![w] = where])
  BY DEF FinishItem
<1>5. /\ [worker EXCEPT ![w] = where] \in [Workers -> {"gone", "runnable", "waiting", "busy"}]
      /\ \A v \in Workers : [worker EXCEPT ![w] = where][v] = "busy" <=> (v # w /\ worker[v] = "busy")
  BY DEF Shape, Types
<1>6. /\ worker' \in [Workers -> {"gone", "runnable", "waiting", "busy"}]
      /\ \A v \in Workers : worker'[v] = "busy" <=> (v # w /\ worker[v] = "busy")
  BY <1>4, <1>5, WokenFacts
<1>7. job'[w] = NoItem /\ \A v \in Workers \ {w} : job'[v] = job[v]
  BY <1>2 DEF Shape, Types
<1>8. /\ completion' \in [Items -> {"none", "pending", "finished", "cancelled"}]
      /\ \A j \in Items : completion[j] # "none" => completion'[j] # "none"
      /\ \A j \in Items \ {i} : completion'[j] = completion[j]
  BY <1>2 DEF Shape, Types
<1>9. \A l \in Keys : \A n \in DOMAIN queue[l] : queue[l][n] # i /\ queue[l][n] \in Items
  BY <1>1 DEF Shape, Underway, Types
<1>a. Types'
  <2>1. ready' \in SUBSET mailboxes' /\ idle_since' \in SUBSET mailboxes' /\ running' \in SUBSET mailboxes'
    BY <1>1, <1>2, <1>3 DEF Shape, Types
  <2>2. queue[k] # <<>> => Head(queue[k]) \in Items
    BY <1>1, QueueEnds DEF Shape, Types
  <2>3. ready_heap' \in SUBSET Items
    BY <1>3, <2>2 DEF Shape, Types
  <2>4. job' \in [Workers -> Items \cup {NoItem}] /\ interrupted' \in SUBSET Workers /\ idle_event' \in BOOLEAN
    BY <1>2 DEF Shape, Types
  <2> QED
    BY <1>2, <1>6, <1>8, <2>1, <2>3, <2>4 DEF Shape, Types
<1>b. Lined'
  BY <1>2, <1>8, <1>9 DEF Shape, Lined
<1>c. Manned'
  <2>1. \A v \in Workers : worker'[v] = "busy" => KeyOf[job[v]] # k
    BY <1>1, <1>6 DEF Shape, Manned
  <2>2. \A v \in Workers :
          /\ worker'[v] = "busy" <=> job'[v] # NoItem
          /\ worker'[v] = "busy" => KeyOf[job'[v]] \in running'
          /\ \A u \in Workers : (worker'[v] = "busy" /\ worker'[u] = "busy"
                                 /\ KeyOf[job'[u]] = KeyOf[job'[v]]) => u = v
    BY <1>2, <1>6, <1>7, <2>1 DEF Shape, Manned
  <2>3. \A l \in running' : \E v \in Workers : worker'[v] = "busy" /\ KeyOf[job'[v]] = l
    <3> TAKE l \in running'
    <3>1. l \in running /\ l # k
      BY <1>2
    <3>2. PICK v \in Workers : worker[v] = "busy" /\ KeyOf[job[v]] = l
      BY <3>1 DEF Shape, Manned
    <3> QED
      BY <3>1, <3>2, <1>6, <1>7
  <2> QED
    BY <2>2, <2>3 DEF Manned
<1>d. Underway'
  <2> SUFFICES ASSUME NEW v \in Workers, worker'[v] = "busy"
               PROVE  /\ completion'[job'[v]] # "none"
                      /\ \A l \in Keys : \A n \in DOMAIN queue[l] : queue[l][n] # job'[v]
    BY <1>2 DEF Underway
  <2>1. v # w /\ worker[v] = "busy" /\ job'[v] = job[v] /\ job[v] \in Items
    BY <1>6, <1>7 DEF Shape, Manned, Types
  <2> QED
    BY <2>1, <1>8 DEF Shape, Underway
<1>e. ReadyKeys'
  BY <1>1, <1>2, <1>3 DEF Shape, ReadyKeys, Quiet
<1>f. Quiet'
  BY <1>1, <1>2 DEF Shape, Quiet
<1> QED
  BY <1>a, <1>b, <1>c, <1>d, <1>e, <1>f DEF Shape

(* A cancelling shutdown empties every queue and leaves the work that runs. *)
LEMMA ShapeCancelAll ==
  ASSUME Shape, NEW c \in Callers, CancelAll(c)
  PROVE  Shape'
<1>1. /\ state' = "cancelling"
      /\ ready_heap' = {} /\ ready' = {}
      /\ queue' = [k \in Keys |-> <<>>]
      /\ idle_since' = idle_since \cup (mailboxes \ running)
      /\ idle_event' = (idle_event \/ pending' = 0)
      /\ completion' = [i \in Items |-> IF i \in Dropped /\ completion[i] = "pending"
                                          THEN "cancelled" ELSE completion[i]]
      /\ interrupted' = {w \in Workers : worker[w] # "gone"}
      /\ worker' = Woken(worker)
      /\ caller' = [caller EXCEPT ![c] = "closing"]
      /\ UNCHANGED <<mailboxes, running, sequence, job>>
  BY DEF CancelAll, IdleAfter, Go
<1>2. /\ worker' \in [Workers -> {"gone", "runnable", "waiting", "busy"}]
      /\ \A w \in Workers : worker'[w] = "busy" <=> worker[w] = "busy"
  BY <1>1, WokenFacts DEF Shape, Types
<1>3. \A k \in Keys : queue'[k] = <<>>
  BY <1>1
<1>4. \A i \in Items : completion[i] # "none" => completion'[i] # "none"
  BY <1>1
<1>a. Types'
  BY <1>1, <1>2 DEF Shape, Types, RuntimeStates
<1>b. Lined' /\ ReadyKeys' /\ Quiet'
  BY <1>1, <1>3 DEF Lined, ReadyKeys, Quiet
<1>c. Manned'
  BY <1>1, <1>2 DEF Shape, Manned
<1>d. Underway'
  BY <1>1, <1>2, <1>3, <1>4 DEF Shape, Underway, Manned, Types
<1> QED
  BY <1>a, <1>b, <1>c, <1>d DEF Shape

LEMMA ShapeClose ==
  ASSUME Shape, NEW c \in Callers, Close(c)
  PROVE  Shape'
<1>1. \A k \in Keys : queue'[k] = <<>>
  BY DEF Close
<1>2. Types'
  BY DEF Close, Go, tasks, Shape, Types, RuntimeStates
<1>3. \A w \in Workers : worker'[w] = "gone" /\ job'[w] = NoItem
  BY DEF Close, tasks, Shape, Manned
<1> QED
  BY <1>1, <1>2, <1>3 DEF Close, tasks, Shape, Lined, Manned, Underway, ReadyKeys, Quiet

(* The steps that leave every queue and every job alone.                   *)
LEMMA ShapeOther ==
  ASSUME Shape, Start \/ (\E w \in Workers : TakeNothing(w) \/ Interrupt(w))
                \/ (\E k \in Keys : ReapIdle(k))
                \/ (\E c \in Callers : ShutdownDrain(c) \/ CloseDrained(c))
  PROVE  Shape'
<1>1. ASSUME Start PROVE Shape'
  BY <1>1 DEF Start, mailbox, Shape, Types, RuntimeStates, Lined, Manned, Underway, ReadyKeys, Quiet
<1>2. ASSUME NEW w \in Workers, TakeNothing(w) PROVE Shape'
  <2>1. /\ worker' \in [Workers -> {"gone", "runnable", "waiting", "busy"}]
        /\ \A v \in Workers : worker'[v] = "busy" <=> worker[v] = "busy"
        /\ \A v \in Workers : worker[v] = "gone" => worker'[v] = "gone"
        /\ ready_heap' = {}
        /\ UNCHANGED <<state, mailboxes, queue, running, ready, idle_since, sequence,
                       idle_event, completion, job, interrupted, caller>>
    BY <1>2 DEF TakeNothing, Shape, Types
  <2> QED
    BY <2>1 DEF Shape, Types, Lined, Manned, Underway, ReadyKeys, Quiet
<1>3. ASSUME NEW w \in Workers, Interrupt(w) PROVE Shape'
  <2>1. /\ worker' \in [Workers -> {"gone", "runnable", "waiting", "busy"}]
        /\ \A v \in Workers : worker'[v] = "busy" <=> worker[v] = "busy"
        /\ \A v \in Workers : worker[v] = "gone" => worker'[v] = "gone"
        /\ interrupted' \in SUBSET Workers
        /\ UNCHANGED <<state, mailboxes, queue, running, ready, idle_since, ready_heap, sequence,
                       idle_event, completion, job, caller>>
    BY <1>3 DEF Interrupt, mailbox, Shape, Types
  <2> QED
    BY <2>1 DEF Shape, Types, Lined, Manned, Underway, ReadyKeys, Quiet
<1>4. ASSUME NEW k \in Keys, ReapIdle(k) PROVE Shape'
  BY <1>4 DEF ReapIdle, tasks, Shape, Types, RuntimeStates, Lined, Manned, Underway, ReadyKeys, Quiet
<1>5. ASSUME NEW c \in Callers, ShutdownDrain(c) \/ CloseDrained(c) PROVE Shape'
  <2>1. /\ worker' \in [Workers -> {"gone", "runnable", "waiting", "busy"}]
        /\ \A w \in Workers : worker'[w] = "busy" <=> worker[w] = "busy"
        /\ \A w \in Workers : worker'[w] = "gone" <=> worker[w] = "gone"
    <3>1. worker' = worker \/ worker' = Woken(worker)
      BY <1>5 DEF ShutdownDrain, CloseDrained
    <3> QED
      BY <3>1, WokenFacts DEF Shape, Types
  <2>2. /\ state' \in RuntimeStates
        /\ state' \in {"new", "cancelling", "closed"} => state \in {"new", "cancelling", "closed"}
        /\ state' = "new" => state = "new"
        /\ UNCHANGED <<mailboxes, queue, running, ready, idle_since, ready_heap, sequence,
                       idle_event, completion, job, interrupted>>
        /\ caller' \in [Callers -> {"outside", "draining", "closing", "returned"}]
    BY <1>5 DEF ShutdownDrain, CloseDrained, mailbox, Go, Shape, Types, RuntimeStates
  <2>3. Types'
    BY <2>1, <2>2 DEF Shape, Types
  <2>4. Lined' /\ Manned' /\ Underway' /\ ReadyKeys'
    BY <2>1, <2>2 DEF Shape, Lined, Manned, Underway, ReadyKeys
  <2>5. Quiet'
    BY <2>1, <2>2 DEF Shape, Quiet
  <2> QED
    BY <2>3, <2>4, <2>5 DEF Shape
<1> QED
  BY <1>1, <1>2, <1>3, <1>4, <1>5

(* The shape holds in every state.                                         *)
THEOREM ShapeHolds == Spec => []Shape
<1>1. Shape /\ [Next]_vars => Shape'
  <2> SUFFICES ASSUME Shape, [Next]_vars PROVE Shape'
    OBVIOUS
  <2>1. CASE UNCHANGED vars
    BY <2>1 DEF vars, mailbox, tasks, Shape, Types, Lined, Manned, Underway, ReadyKeys, Quiet
  <2>2. ASSUME NEW c \in Callers, ShutdownCancel(c) PROVE Shape'
    <3>1. CASE state \notin {"new", "closed"}
      BY <3>1, <2>2, ShapeCancelAll DEF ShutdownCancel
    <3>2. CASE state \in {"new", "closed"}
      BY <3>2, <2>2 DEF ShutdownCancel, Go, mailbox, tasks, Shape, Types, RuntimeStates, Lined, Manned,
                        Underway, ReadyKeys, Quiet
    <3> QED
      BY <3>1, <3>2
  <2>3. CASE Next
    BY <2>2, <2>3, ShapeSubmit, ShapeTakeNext, ShapeFinishItem, ShapeClose, ShapeOther DEF Next, Work
  <2> QED
    BY <2>1, <2>3
<1> QED
  BY <1>1, ShapeInit, PTL DEF Spec

(* _mark_ready and _finish_item never raise: the mailbox of a running item *)
(* is known, marked running for that item alone, and not ready.            *)
THEOREM NothingRaises == Spec => []NoRuntimeError
<1>1. Shape => NoRuntimeError
  <2> SUFFICES ASSUME Shape, NEW w \in Workers, worker[w] = "busy"
               PROVE  LET k == KeyOf[job[w]] IN
                      /\ k \in mailboxes /\ k \in running /\ k \notin ready
                      /\ \A v \in Workers \ {w} : worker[v] = "busy" => KeyOf[job[v]] # k
    BY DEF NoRuntimeError
  <2>1. KeyOf[job[w]] \in running /\ KeyOf[job[w]] \in mailboxes /\ KeyOf[job[w]] \in Keys
    BY DEF Shape, Manned, Types
  <2> QED
    BY <2>1 DEF Shape, Manned, ReadyKeys
<1> QED
  BY <1>1, ShapeHolds, PTL

----------------------------------------------------------------------------
(* The heap and the wake-ups *)

Heap ==
  /\ ready_heap = {Head(queue[k]) : k \in ready}
  /\ ready_heap # {} => \A w \in Workers : worker[w] # "waiting"

(* Every heap entry is worth taking: none is stale.                        *)
LEMMA HeapTakeable ==
  ASSUME Shape, Heap
  PROVE  /\ Takeable = ready_heap
         /\ \A k \in ready : k \in Keys /\ queue[k] # <<>> /\ queue[k] \in Seq(Items)
                              /\ Head(queue[k]) \in Items /\ KeyOf[Head(queue[k])] = k
<1>1. \A k \in ready : k \in Keys /\ k \in mailboxes /\ queue[k] # <<>> /\ k \notin running
                       /\ queue[k] \in Seq(Items)
  BY DEF Shape, Types, ReadyKeys
<1>2. \A k \in ready : Head(queue[k]) \in Items /\ KeyOf[Head(queue[k])] = k
  <2> TAKE k \in ready
  <2>1. queue[k] # <<>> /\ queue[k] \in Seq(Items) /\ k \in Keys
    BY <1>1
  <2>2. Head(queue[k]) \in Items /\ 1 \in DOMAIN queue[k] /\ Head(queue[k]) = queue[k][1]
    BY <2>1, QueueEnds
  <2> QED
    BY <2>1, <2>2 DEF Shape, Lined
<1> QED
  BY <1>1, <1>2 DEF Heap, Takeable

LEMMA HeapSubmit ==
  ASSUME Shape, Heap, NEW i \in Items, Submit(i)
  PROVE  Heap'
<1> DEFINE k == KeyOf[i]
<1>1. /\ k \in Keys /\ queue[k] \in Seq(Items)
      /\ queue'[k] = Append(queue[k], i) /\ \A l \in Keys \ {k} : queue'[l] = queue[l]
  BY KeysOfItems DEF Submit, Shape, Types
<1>2. CASE k \notin running /\ k \notin ready
  <2>1. ready' = ready \cup {k} /\ ready_heap' = ready_heap \cup {Head(queue'[k])} /\ worker' = Woken(worker)
    BY <1>2 DEF Submit, MarkReady
  <2>2. \A l \in ready : queue'[l] = queue[l]
    BY <1>1, <1>2 DEF Shape, Types
  <2>3. \A w \in Workers : worker'[w] # "waiting"
    BY <2>1, WokenFacts DEF Shape, Types
  <2>4. ready_heap' = {Head(queue'[l]) : l \in ready'}
    BY <2>1, <2>2 DEF Heap
  <2> QED
    BY <2>3, <2>4 DEF Heap
<1>3. CASE k \in running \/ k \in ready
  <2>1. UNCHANGED <<ready, ready_heap, worker>>
    BY <1>3 DEF Submit
  <2>2. \A l \in ready : Head(queue'[l]) = Head(queue[l])
    <3> TAKE l \in ready
    <3>1. l \in Keys /\ queue[l] # <<>>
      BY HeapTakeable
    <3> QED
      BY <3>1, <1>1, QueueGrows
  <2> QED
    BY <2>1, <2>2 DEF Heap
<1> QED
  BY <1>2, <1>3

LEMMA HeapTakeNext ==
  ASSUME Shape, Heap, NEW w \in Workers, TakeNext(w)
  PROVE  Heap'
<1> PICK i \in Takeable :
      /\ \A j \in Takeable \ {i} : Earlier(i, j)
      /\ ready_heap' = {j \in ready_heap \ {i} : Earlier(i, j)}
      /\ ready' = ready \ {KeyOf[i]}
      /\ queue' = [queue EXCEPT ![KeyOf[i]] = Tail(@)]
  BY DEF TakeNext
<1>1. ready_heap' = ready_heap \ {i}
  BY HeapTakeable
<1>2. \A l \in ready : queue[l] # <<>> /\ KeyOf[Head(queue[l])] = l /\ l \in Keys
  BY HeapTakeable
<1>3. PICK k \in ready : Head(queue[k]) = i
  BY HeapTakeable DEF Heap
<1>4. k = KeyOf[i]
  BY <1>2, <1>3
<1>5. \A l \in ready \ {k} : Head(queue[l]) # i /\ queue'[l] = queue[l]
  BY <1>2, <1>3, <1>4 DEF Shape, Types
<1>6. ready_heap' = {Head(queue[l]) : l \in ready \ {k}}
  BY <1>1, <1>3, <1>5 DEF Heap
<1>7. ready_heap' = {Head(queue'[l]) : l \in ready'}
  BY <1>4, <1>5, <1>6
<1>8. worker' = [worker EXCEPT ![w] = "busy"]
  BY DEF TakeNext
<1>9. \A v \in Workers : worker[v] # "waiting" => worker'[v] # "waiting"
  BY <1>8 DEF Shape, Types
<1> QED
  BY <1>1, <1>7, <1>9 DEF Heap

LEMMA HeapFinishItem ==
  ASSUME Shape, Heap, NEW w \in Workers, FinishItem(w)
  PROVE  Heap'
<1> DEFINE k == KeyOf[job[w]]
<1>1. /\ UNCHANGED queue
      /\ \/ ready' = ready \cup {k} /\ ready_heap' = ready_heap \cup {Head(queue[k])}
         \/ UNCHANGED <<ready, ready_heap>>
  BY DEF FinishItem, MarkReady
<1>2. PICK where \in {"runnable", "gone"} :
        worker' = Woken([worker EXCEPT ![w] = where])
  BY DEF FinishItem
<1>3. [worker EXCEPT ![w] = where] \in [Workers -> {"gone", "runnable", "waiting", "busy"}]
  BY DEF Shape, Types
<1> DEFINE left == [worker EXCEPT ![w] = where]
<1> HIDE DEF left
<1>4. \A v \in Workers : Woken(left)[v] # "waiting"
  BY <1>3, WokenFacts DEF left
<1>5. \A v \in Workers : worker'[v] # "waiting"
  BY <1>2, <1>4 DEF left
<1> QED
  BY <1>1, <1>5 DEF Heap

(* The heap entries are the heads of the ready mailboxes, and nobody waits *)
(* while there are any.                                                    *)
LEMMA HeapHolds == Spec => []Heap
<1>1. Init => Heap
  BY DEF Init, Heap
<1>2. Shape /\ Heap /\ [Next]_vars => Heap'
  <2> SUFFICES ASSUME Shape, Heap, [Next]_vars PROVE Heap'
    OBVIOUS
  <2>1. CASE UNCHANGED vars
    BY <2>1 DEF vars, mailbox, tasks, Heap
  <2>2. CASE Start
    BY <2>2 DEF Start, mailbox, Heap
  <2>3. ASSUME NEW w \in Workers, TakeNothing(w) PROVE Heap'
    <3>1. ready_heap = {} /\ ready = {}
      BY <2>3, HeapTakeable DEF TakeNothing, Heap
    <3> QED
      BY <2>3, <3>1 DEF TakeNothing, Heap
  <2>4. ASSUME NEW w \in Workers, Interrupt(w) PROVE Heap'
    <3>1. \A v \in Workers : worker[v] # "waiting" => worker'[v] # "waiting"
      BY <2>4 DEF Interrupt, Shape, Types
    <3> QED
      BY <2>4, <3>1 DEF Interrupt, mailbox, Heap
  <2>5. ASSUME NEW k \in Keys, ReapIdle(k) PROVE Heap'
    BY <2>5 DEF ReapIdle, tasks, Heap
  <2>6. ASSUME NEW c \in Callers, ShutdownDrain(c) \/ CloseDrained(c) PROVE Heap'
    <3>1. (worker' = worker \/ worker' = Woken(worker)) /\ UNCHANGED <<queue, ready, ready_heap>>
      BY <2>6 DEF ShutdownDrain, CloseDrained, mailbox
    <3>2. \A v \in Workers : worker[v] # "waiting" => worker'[v] # "waiting"
      BY <3>1, WokenFacts DEF Shape, Types
    <3> QED
      BY <3>1, <3>2 DEF Heap
  <2>7. ASSUME NEW c \in Callers, ShutdownCancel(c) PROVE Heap'
    BY <2>7 DEF ShutdownCancel, CancelAll, mailbox, tasks, Heap
  <2>8. ASSUME NEW c \in Callers, Close(c) PROVE Heap'
    BY <2>8 DEF Close, Heap
  <2>9. CASE Next
    BY <2>2, <2>3, <2>4, <2>5, <2>6, <2>7, <2>8, <2>9, HeapSubmit, HeapTakeNext, HeapFinishItem DEF Next, Work
  <2> QED
    BY <2>1, <2>9
<1> QED
  BY <1>1, <1>2, ShapeHolds, PTL DEF Spec

(* A mailbox with work is ready or running, the heap knows every ready one *)
(* and no wake-up is lost.                                                 *)
THEOREM NoneForgotten == Spec => []NothingForgotten
<1>1. Shape /\ Heap => NothingForgotten
  BY DEF Shape, ReadyKeys, Heap, NothingForgotten
<1> QED
  BY <1>1, ShapeHolds, HeapHolds, PTL

----------------------------------------------------------------------------
(* The counts *)

Waits == {i \in Items : \E k \in Keys : \E n \in DOMAIN queue[k] : queue[k][n] = i}
Busy  == {w \in Workers : worker[w] = "busy"}

Counts ==
  /\ pending \in Nat
  /\ pending = Cardinality(Waits) + Cardinality(Busy)
  /\ Cardinality(Active) = Cardinality(Busy)
  /\ idle_event <=> pending = 0
  /\ pending <= GlobalCapacity
  /\ \A k \in Keys : PendingOf(k) <= PerKeyCapacity

LEMMA SetFacts ==
  ASSUME Shape
  PROVE  /\ IsFiniteSet(Waits) /\ IsFiniteSet(Busy) /\ IsFiniteSet(Active)
         /\ Cardinality(Waits) \in Nat /\ Cardinality(Busy) \in Nat /\ Cardinality(Active) \in Nat
         /\ Queued = Waits
         /\ Waits \cap Active = {}
         /\ \A k \in Keys : PendingOf(k) \in Nat
<1>1. Active \in SUBSET Items /\ Waits \in SUBSET Items /\ Busy \in SUBSET Workers
  BY DEF Active, Waits, Busy, Shape, Manned, Types
<1>2. IsFiniteSet(Waits) /\ IsFiniteSet(Busy) /\ IsFiniteSet(Active)
  BY <1>1, MailboxAssumption, FS_Subset
<1>3. Queued = Waits
  <2>1. \A k \in Keys : (\E n \in DOMAIN queue[k] : TRUE) => k \in mailboxes
    BY DEF Shape, Lined, Types
  <2>2. mailboxes \subseteq Keys
    BY DEF Shape, Types
  <2> QED
    BY <2>1, <2>2 DEF Queued, Waits
<1>4. Waits \cap Active = {}
  BY DEF Waits, Active, Shape, Underway
<1>5. \A k \in Keys : PendingOf(k) \in Nat
  BY DEF PendingOf, Shape, Types
<1> QED
  BY <1>2, <1>3, <1>4, <1>5, FS_CardinalityType

(* Steps that neither queue, start nor finish an item.                     *)
LEMMA SetsKept ==
  ASSUME UNCHANGED <<queue, job>>, \A w \in Workers : worker'[w] = "busy" <=> worker[w] = "busy"
  PROVE  Waits' = Waits /\ Busy' = Busy /\ Active' = Active
BY DEF Waits, Busy, Active

LEMMA SetsSubmit ==
  ASSUME Shape, NEW i \in Items, Submit(i)
  PROVE  Waits' = Waits \cup {i} /\ i \notin Waits /\ Busy' = Busy /\ Active' = Active
<1> DEFINE k == KeyOf[i]
<1>1. /\ k \in Keys /\ queue[k] \in Seq(Items)
      /\ queue'[k] = Append(queue[k], i) /\ \A l \in Keys \ {k} : queue'[l] = queue[l]
      /\ completion[i] = "none" /\ job' = job
  BY KeysOfItems DEF Submit, Shape, Types
<1>2. /\ i \notin Waits
      /\ \A l \in Keys : \A n \in DOMAIN queue[l] : queue[l][n] \in Items
  BY <1>1 DEF Waits, Shape, Lined, Types
<1>3. worker' = worker \/ worker' = Woken(worker)
  BY DEF Submit
<1>4. \A w \in Workers : worker'[w] = "busy" <=> worker[w] = "busy"
  BY <1>3, WokenFacts DEF Shape, Types
<1>5. Busy' = Busy /\ Active' = Active
  BY <1>1, <1>4 DEF Busy, Active
<1>6. \A j \in Items : j \in Waits' <=> j \in Waits \/ j = i
  <2> TAKE j \in Items
  <2>1. ASSUME NEW l \in Keys \ {k}
        PROVE  (\E n \in DOMAIN queue'[l] : queue'[l][n] = j) <=> (\E n \in DOMAIN queue[l] : queue[l][n] = j)
    BY <1>1
  <2>2. (\E n \in DOMAIN queue'[k] : queue'[k][n] = j) <=> (\E n \in DOMAIN queue[k] : queue[k][n] = j) \/ j = i
    BY <1>1, QueueGrows
  <2>3. j \in Waits' <=> \E l \in Keys : \E n \in DOMAIN queue'[l] : queue'[l][n] = j
    BY DEF Waits
  <2>4. j \in Waits <=> \E l \in Keys : \E n \in DOMAIN queue[l] : queue[l][n] = j
    BY DEF Waits
  <2> QED
    BY <2>1, <2>2, <2>3, <2>4, <1>1
<1>7. Waits' \subseteq Items /\ Waits \subseteq Items
  BY DEF Waits
<1> QED
  BY <1>2, <1>5, <1>6, <1>7

LEMMA SetsTakeNext ==
  ASSUME Shape, NEW w \in Workers, TakeNext(w)
  PROVE  \E k \in Keys : \E first \in Waits :
           /\ k \notin running /\ queue[k] # <<>> /\ queue[k] \in Seq(Items)
           /\ first = Head(queue[k]) /\ KeyOf[first] = k
           /\ queue' = [queue EXCEPT ![k] = Tail(@)] /\ running' = running \cup {k}
           /\ Waits' = Waits \ {first}
           /\ w \notin Busy /\ Busy' = Busy \cup {w}
           /\ first \notin Active /\ Active' = Active \cup {first}
<1> PICK i \in Takeable :
      LET k == KeyOf[i] IN
      /\ running' = running \cup {k}
      /\ job' = [job EXCEPT ![w] = Head(queue[k])]
      /\ queue' = [queue EXCEPT ![k] = Tail(@)]
  BY DEF TakeNext
<1> DEFINE k == KeyOf[i]
<1> DEFINE q == queue[k]
<1> DEFINE first == Head(q)
<1>1. /\ k \in Keys /\ k \notin running /\ q # <<>> /\ q \in Seq(Items)
  BY KeysOfItems DEF Takeable, Shape, Types
<1>2. /\ worker[w] = "runnable" /\ job[w] = NoItem /\ worker' = [worker EXCEPT ![w] = "busy"]
  BY DEF TakeNext, Shape, Manned
<1>3. /\ queue'[k] = Tail(q) /\ \A l \in Keys \ {k} : queue'[l] = queue[l]
      /\ job'[w] = first /\ \A v \in Workers \ {w} : job'[v] = job[v]
      /\ worker'[w] = "busy" /\ \A v \in Workers \ {w} : worker'[v] = worker[v]
  BY <1>1, <1>2 DEF Shape, Types
<1>4. /\ first \in Items /\ 1 \in DOMAIN q /\ first = q[1]
      /\ \A n \in DOMAIN Tail(q) : n \in Nat /\ n + 1 \in DOMAIN q /\ Tail(q)[n] = q[n + 1]
      /\ \A n \in DOMAIN q : n = 1 \/ (n - 1 \in DOMAIN Tail(q) /\ Tail(q)[n - 1] = q[n])
  BY <1>1, QueueEnds
<1>5. /\ first \in Waits /\ KeyOf[first] = k
      /\ \A n \in DOMAIN q : q[n] = first => n = 1
      /\ \A l \in Keys \ {k} : \A n \in DOMAIN queue[l] : queue[l][n] # first
  BY <1>1, <1>4 DEF Waits, Shape, Lined
<1>6. w \notin Busy /\ Busy' = Busy \cup {w}
  BY <1>2, <1>3 DEF Busy
<1>7. first \notin Active
  BY <1>5, SetFacts
<1>8. Active' = Active \cup {first}
  BY <1>2, <1>3, <1>6 DEF Active, Busy
<1>9. \A j \in Items : j \in Waits' <=> j \in Waits /\ j # first
  <2> TAKE j \in Items
  <2>1. ASSUME NEW n \in DOMAIN Tail(q), Tail(q)[n] = j
        PROVE  j # first /\ \E m \in DOMAIN q : q[m] = j
    <3>1. n \in Nat /\ n + 1 \in DOMAIN q /\ q[n + 1] = j
      BY <2>1, <1>4
    <3>2. n \in DOMAIN Tail(q) => n # 0
      BY <1>1
    <3>3. n + 1 # 1
      BY <3>1, <3>2, <2>1
    <3> QED
      BY <3>1, <3>3, <1>5
  <2>2. ASSUME NEW m \in DOMAIN q, q[m] = j, j # first
        PROVE  \E n \in DOMAIN Tail(q) : Tail(q)[n] = j
    BY <2>2, <1>4
  <2>3. j \in Waits' <=> \E l \in Keys : \E n \in DOMAIN queue'[l] : queue'[l][n] = j
    BY DEF Waits
  <2>4. j \in Waits <=> \E l \in Keys : \E n \in DOMAIN queue[l] : queue[l][n] = j
    BY DEF Waits
  <2>5. (\E n \in DOMAIN queue'[k] : queue'[k][n] = j) <=> (\E n \in DOMAIN queue[k] : queue[k][n] = j) /\ j # first
    BY <2>1, <2>2, <1>3
  <2>6. ASSUME NEW l \in Keys \ {k}
        PROVE  (\E n \in DOMAIN queue'[l] : queue'[l][n] = j)
                 <=> (\E n \in DOMAIN queue[l] : queue[l][n] = j) /\ j # first
    BY <1>3, <1>5
  <2> QED
    BY <2>3, <2>4, <2>5, <2>6, <1>1
<1>a. Waits' = Waits \ {first}
  <2>1. Waits' \subseteq Items /\ Waits \subseteq Items
    BY DEF Waits
  <2> QED
    BY <2>1, <1>9
<1> QED
  BY <1>1, <1>5, <1>6, <1>7, <1>8, <1>a

LEMMA SetsFinishItem ==
  ASSUME Shape, NEW w \in Workers, FinishItem(w)
  PROVE  /\ Waits' = Waits
         /\ w \in Busy /\ Busy' = Busy \ {w}
         /\ job[w] \in Active /\ Active' = Active \ {job[w]}
<1>1. worker[w] = "busy" /\ UNCHANGED queue /\ job' = [job EXCEPT ![w] = NoItem]
  BY DEF FinishItem
<1>2. PICK where \in {"runnable", "gone"} :
        worker' = Woken([worker EXCEPT ![w] = where])
  BY DEF FinishItem
<1> DEFINE left == [worker EXCEPT ![w] = where]
<1>3. left \in [Workers -> {"gone", "runnable", "waiting", "busy"}]
      /\ \A v \in Workers : left[v] = "busy" <=> (v # w /\ worker[v] = "busy")
  BY DEF Shape, Types
<1> HIDE DEF left
<1>4. \A v \in Workers : worker'[v] = "busy" <=> (v # w /\ worker[v] = "busy")
  BY <1>2, <1>3, WokenFacts DEF left
<1>5. \A v \in Workers : worker'[v] = "busy" => job'[v] = job[v] /\ job[v] # job[w]
  BY <1>1, <1>4 DEF Shape, Manned, Types
<1>6. Waits' = Waits /\ w \in Busy /\ Busy' = Busy \ {w}
  BY <1>1, <1>4 DEF Waits, Busy
<1>7. job[w] \in Active
  BY <1>1 DEF Active
<1>8. Active' = Active \ {job[w]}
  <2>1. Active' = {job[v] : v \in {u \in Workers : u # w /\ worker[u] = "busy"}}
    BY <1>4, <1>5 DEF Active
  <2>2. \A v \in Workers : (v # w /\ worker[v] = "busy") => job[v] # job[w]
    BY <1>4, <1>5
  <2> QED
    BY <2>1, <2>2 DEF Active
<1> QED
  BY <1>6, <1>7, <1>8

LEMMA CountsInit == Init => Counts
<1> SUFFICES ASSUME Init PROVE Counts
  OBVIOUS
<1>1. Waits = {} /\ Busy = {} /\ Active = {}
  BY DEF Init, Waits, Busy, Active
<1>2. \A k \in Keys : PendingOf(k) = 0
  BY DEF Init, PendingOf
<1> QED
  BY <1>1, <1>2, FS_EmptySet, MailboxAssumption DEF Init, Counts

LEMMA CountsSubmit ==
  ASSUME Shape, Counts, NEW i \in Items, Submit(i)
  PROVE  Counts'
<1> DEFINE k == KeyOf[i]
<1>1. /\ k \in Keys /\ queue[k] \in Seq(Items)
      /\ queue'[k] = Append(queue[k], i) /\ \A l \in Keys \ {k} : queue'[l] = queue[l]
      /\ pending' = pending + 1 /\ idle_event' = FALSE /\ running' = running
      /\ PendingOf(k) < PerKeyCapacity /\ pending < GlobalCapacity
  BY KeysOfItems DEF Submit, Shape, Types
<1>2. Cardinality(Waits') = Cardinality(Waits) + 1
  BY SetsSubmit, SetFacts, FS_AddElement
<1>3. Cardinality(Busy') = Cardinality(Busy) /\ Cardinality(Active') = Cardinality(Active)
  BY SetsSubmit
<1>4. /\ PendingOf(k)' = PendingOf(k) + 1
      /\ \A l \in Keys \ {k} : PendingOf(l)' = PendingOf(l)
  <2>1. Len(queue'[k]) = Len(queue[k]) + 1 /\ Len(queue[k]) \in Nat
    BY <1>1, QueueGrows
  <2>2. ASSUME k \in running PROVE PendingOf(k)' = PendingOf(k) + 1
    <3>1. PendingOf(k) = Len(queue[k]) + 1 /\ PendingOf(k)' = Len(queue'[k]) + 1
      BY <1>1, <2>2 DEF PendingOf
    <3> QED
      BY <2>1, <3>1
  <2>3. ASSUME k \notin running PROVE PendingOf(k)' = PendingOf(k) + 1
    <3>1. PendingOf(k) = Len(queue[k]) + 0 /\ PendingOf(k)' = Len(queue'[k]) + 0
      BY <1>1, <2>3 DEF PendingOf
    <3> QED
      BY <2>1, <3>1
  <2>4. \A l \in Keys \ {k} : PendingOf(l)' = PendingOf(l)
    BY <1>1 DEF PendingOf
  <2> QED
    BY <2>2, <2>3, <2>4
<1>5. \A l \in Keys : PendingOf(l)' <= PerKeyCapacity
  <2>1. PendingOf(k) \in Nat /\ PerKeyCapacity \in Nat
    BY <1>1, SetFacts, MailboxAssumption
  <2>2. PendingOf(k)' <= PerKeyCapacity
    BY <1>1, <1>4, <2>1
  <2> QED
    BY <2>2, <1>4 DEF Counts
<1>6. pending' \in Nat /\ pending' # 0 /\ pending' <= GlobalCapacity
  BY <1>1, MailboxAssumption DEF Counts
<1>7. pending' = Cardinality(Waits') + Cardinality(Busy')
  BY <1>1, <1>2, <1>3, SetFacts DEF Counts
<1> QED
  BY <1>1, <1>3, <1>5, <1>6, <1>7 DEF Counts

LEMMA CountsTakeNext ==
  ASSUME Shape, Counts, NEW w \in Workers, TakeNext(w)
  PROVE  Counts'
<1> PICK k \in Keys, first \in Waits :
      /\ k \notin running /\ queue[k] # <<>> /\ queue[k] \in Seq(Items)
      /\ queue' = [queue EXCEPT ![k] = Tail(@)] /\ running' = running \cup {k}
      /\ Waits' = Waits \ {first}
      /\ w \notin Busy /\ Busy' = Busy \cup {w}
      /\ first \notin Active /\ Active' = Active \cup {first}
  BY SetsTakeNext
<1>1. /\ Cardinality(Waits') = Cardinality(Waits) - 1
      /\ Cardinality(Busy') = Cardinality(Busy) + 1
      /\ Cardinality(Active') = Cardinality(Active) + 1
  BY SetFacts, FS_AddElement, FS_RemoveElement
<1>2. UNCHANGED <<pending, idle_event>>
  BY DEF TakeNext
<1>3. queue'[k] = Tail(queue[k]) /\ \A l \in Keys \ {k} : queue'[l] = queue[l]
  BY DEF Shape, Types
<1>4. Len(Tail(queue[k])) = Len(queue[k]) - 1 /\ Len(queue[k]) \in Nat
  BY QueueEnds
<1>5. \A l \in Keys : PendingOf(l)' = PendingOf(l)
  <2>1. PendingOf(k)' = PendingOf(k)
    <3>1. PendingOf(k) = Len(queue[k]) + 0 /\ PendingOf(k)' = Len(queue'[k]) + 1
      BY DEF PendingOf
    <3> QED
      BY <1>3, <1>4, <3>1
  <2>2. \A l \in Keys \ {k} : PendingOf(l)' = PendingOf(l)
    BY <1>3 DEF PendingOf
  <2> QED
    BY <2>1, <2>2
<1>6. pending' = Cardinality(Waits') + Cardinality(Busy')
  BY <1>1, <1>2, SetFacts DEF Counts
<1> QED
  BY <1>1, <1>2, <1>5, <1>6 DEF Counts

LEMMA CountsFinishItem ==
  ASSUME Shape, Counts, NEW w \in Workers, FinishItem(w)
  PROVE  Counts'
<1> DEFINE k == KeyOf[job[w]]
<1>1. /\ running' = running \ {k} /\ pending' = pending - 1
      /\ idle_event' = (idle_event \/ pending' = 0) /\ UNCHANGED queue
  BY DEF FinishItem, IdleAfter
<1>2. /\ Waits' = Waits
      /\ Cardinality(Busy') = Cardinality(Busy) - 1
      /\ Cardinality(Active') = Cardinality(Active) - 1
  <2>1. /\ Waits' = Waits
        /\ w \in Busy /\ Busy' = Busy \ {w}
        /\ job[w] \in Active /\ Active' = Active \ {job[w]}
    BY SetsFinishItem
  <2>2. IsFiniteSet(Busy) /\ IsFiniteSet(Active)
    BY SetFacts
  <2>3. Cardinality(Busy \ {w}) = Cardinality(Busy) - 1
    BY <2>1, <2>2, FS_RemoveElement
  <2>4. Cardinality(Active \ {job[w]}) = Cardinality(Active) - 1
    BY <2>1, <2>2, FS_RemoveElement
  <2> QED
    BY <2>1, <2>3, <2>4
<1>3. Cardinality(Busy) # 0
  BY SetsFinishItem, SetFacts, FS_EmptySet
<1>4. pending # 0 /\ pending' \in Nat /\ pending' <= GlobalCapacity
  BY <1>1, <1>3, SetFacts, MailboxAssumption DEF Counts
<1>5. \A l \in Keys : PendingOf(l)' <= PendingOf(l) /\ PendingOf(l)' \in Nat
  BY <1>1 DEF PendingOf, Shape, Types
<1>6. \A l \in Keys : PendingOf(l)' <= PerKeyCapacity
  BY <1>5, SetFacts, MailboxAssumption DEF Counts
<1>7. pending' = Cardinality(Waits') + Cardinality(Busy')
  BY <1>1, <1>2, SetFacts DEF Counts
<1>8. idle_event' <=> pending' = 0
  BY <1>1, <1>4 DEF Counts
<1> QED
  BY <1>2, <1>4, <1>6, <1>7, <1>8 DEF Counts

LEMMA CountsCancelAll ==
  ASSUME Shape, Counts, NEW c \in Callers, CancelAll(c)
  PROVE  Counts'
<1>1. /\ queue' = [k \in Keys |-> <<>>] /\ pending' = pending - Cardinality(Queued)
      /\ idle_event' = (idle_event \/ pending' = 0) /\ worker' = Woken(worker)
      /\ UNCHANGED <<running, job>>
  BY DEF CancelAll, IdleAfter
<1>2. Waits' = {}
  BY <1>1 DEF Waits
<1>3. \A w \in Workers : worker'[w] = "busy" <=> worker[w] = "busy"
  BY <1>1, WokenFacts DEF Shape, Types
<1>4. Busy' = Busy /\ Active' = Active
  BY <1>1, <1>3 DEF Busy, Active
<1>5. pending' = Cardinality(Busy) /\ pending' \in Nat /\ pending' <= pending
  BY <1>1, SetFacts DEF Counts
<1>6. Cardinality(Waits') = 0
  BY <1>2, FS_EmptySet
<1>7. pending' = Cardinality(Waits') + Cardinality(Busy') /\ Cardinality(Active') = Cardinality(Busy')
  BY <1>4, <1>5, <1>6, SetFacts DEF Counts
<1>8. \A k \in Keys : PendingOf(k)' <= PendingOf(k) /\ PendingOf(k)' \in Nat
  BY <1>1 DEF PendingOf, Shape, Types
<1>9. \A k \in Keys : PendingOf(k)' <= PerKeyCapacity
  BY <1>8, SetFacts, MailboxAssumption DEF Counts
<1>a. pending' <= GlobalCapacity
  BY <1>5, MailboxAssumption DEF Counts
<1>b. idle_event' <=> pending' = 0
  <2>1. pending = 0 => pending' = 0
    BY <1>5 DEF Counts
  <2> QED
    BY <1>1, <2>1 DEF Counts
<1> QED
  BY <1>5, <1>7, <1>9, <1>a, <1>b DEF Counts

LEMMA CountsClose ==
  ASSUME Shape, NEW c \in Callers, Close(c)
  PROVE  Counts'
<1>1. Waits' = {} /\ Busy' = {} /\ Active' = {}
  BY DEF Close, tasks, Waits, Busy, Active
<1>2. \A k \in Keys : PendingOf(k)' = 0
  BY DEF Close, PendingOf
<1> QED
  BY <1>1, <1>2, FS_EmptySet, MailboxAssumption DEF Close, Counts

(* The counts agree with the queues and the workers in every state.        *)
LEMMA CountsHold == Spec => []Counts
<1>1. Shape /\ Counts /\ [Next]_vars => Counts'
  <2> SUFFICES ASSUME Shape, Counts, [Next]_vars PROVE Counts'
    OBVIOUS
  <2>1. ASSUME UNCHANGED <<queue, running, pending, idle_event, job>>,
               \A w \in Workers : worker'[w] = "busy" <=> worker[w] = "busy"
        PROVE  Counts'
    <3>1. Waits' = Waits /\ Busy' = Busy /\ Active' = Active
      BY <2>1, SetsKept
    <3>2. \A k \in Keys : PendingOf(k)' = PendingOf(k)
      BY <2>1 DEF PendingOf
    <3> QED
      BY <2>1, <3>1, <3>2 DEF Counts
  <2>2. CASE UNCHANGED vars
    BY <2>1, <2>2 DEF vars, mailbox, tasks
  <2>3. CASE Start
    BY <2>1, <2>3 DEF Start, mailbox, Shape, Quiet
  <2>4. ASSUME NEW w \in Workers, TakeNothing(w) PROVE Counts'
    <3>1. \A v \in Workers : worker'[v] = "busy" <=> worker[v] = "busy"
      BY <2>4 DEF TakeNothing, Shape, Types
    <3> QED
      BY <2>1, <2>4, <3>1 DEF TakeNothing
  <2>5. ASSUME NEW w \in Workers, Interrupt(w) PROVE Counts'
    <3>1. \A v \in Workers : worker'[v] = "busy" <=> worker[v] = "busy"
      BY <2>5 DEF Interrupt, Shape, Types
    <3> QED
      BY <2>1, <2>5, <3>1 DEF Interrupt, mailbox
  <2>6. ASSUME NEW k \in Keys, ReapIdle(k) PROVE Counts'
    BY <2>1, <2>6 DEF ReapIdle, tasks
  <2>7. ASSUME NEW c \in Callers, ShutdownDrain(c) \/ CloseDrained(c) PROVE Counts'
    <3>1. /\ worker' = worker \/ worker' = Woken(worker)
          /\ UNCHANGED <<queue, running, pending, idle_event, job>>
      BY <2>7 DEF ShutdownDrain, CloseDrained, mailbox
    <3>2. \A w \in Workers : worker'[w] = "busy" <=> worker[w] = "busy"
      BY <3>1, WokenFacts DEF Shape, Types
    <3> QED
      BY <2>1, <3>1, <3>2
  <2>8. ASSUME NEW c \in Callers, ShutdownCancel(c) PROVE Counts'
    <3>1. CancelAll(c) \/ UNCHANGED <<mailbox, pending, idle_event, tasks>>
      BY <2>8 DEF ShutdownCancel
    <3> QED
      BY <2>1, <3>1, CountsCancelAll DEF mailbox, tasks
  <2>9. CASE Next
    BY <2>3, <2>4, <2>5, <2>6, <2>7, <2>8, <2>9, CountsSubmit, CountsTakeNext, CountsFinishItem,
       CountsClose DEF Next, Work
  <2> QED
    BY <2>2, <2>9
<1> QED
  BY <1>1, CountsInit, ShapeHolds, PTL DEF Spec

(* Every variable keeps its type: the count never falls below zero.        *)
THEOREM TypeCorrect == Spec => []TypeOK
<1>1. Shape /\ Counts => TypeOK
  BY DEF Shape, Types, Counts, TypeOK
<1> QED
  BY <1>1, ShapeHolds, CountsHold, PTL

(* The count is the unfinished work, the idle event says when it is zero,  *)
(* and both capacities hold.                                               *)
THEOREM CountsAreRight == Spec => []CountsAgree
<1>1. Shape /\ Counts => CountsAgree
  <2> SUFFICES ASSUME Shape, Counts PROVE CountsAgree
    OBVIOUS
  <2> DEFINE On(k) == {w \in Workers : job[w] # NoItem /\ KeyOf[job[w]] = k}
  <2>1. ASSUME NEW k \in Keys PROVE Len(queue[k]) + Cardinality(On(k)) = PendingOf(k)
    <3>1. CASE k \in running
      <4>1. PICK w \in Workers : worker[w] = "busy" /\ KeyOf[job[w]] = k
        BY <3>1 DEF Shape, Manned
      <4>2. On(k) = {w}
        BY <4>1 DEF Shape, Manned
      <4>3. Cardinality(On(k)) = 1
        BY <4>2, FS_Singleton
      <4> QED
        BY <3>1, <4>3 DEF PendingOf
    <3>2. CASE k \notin running
      <4>1. On(k) = {}
        BY <3>2 DEF Shape, Manned
      <4>2. Cardinality(On(k)) = 0
        BY <4>1, FS_EmptySet
      <4> QED
        BY <3>2, <4>2 DEF PendingOf
    <3> QED
      BY <3>1, <3>2
  <2> QED
    BY <2>1 DEF CountsAgree, Counts, Waits, Busy
<1> QED
  BY <1>1, ShapeHolds, CountsHold, PTL

----------------------------------------------------------------------------
(* Tickets and shutdown *)

(* An open ticket is of work that waits or runs, and none is open before   *)
(* the start, under a cancellation or after the end.  One caller at a time *)
(* closes, and a drain closes only once all is done.                       *)
Tickets ==
  /\ \A i \in Items : completion[i] = "pending" =>
       i \in Waits \cup Active /\ state \in {"running", "draining"}
  /\ \A c \in Callers :
       /\ caller[c] = "closing" => \/ state = "draining" /\ pending = 0
                                   \/ state = "cancelling"
       /\ caller[c] = "draining" => state \in {"draining", "cancelling", "closed"}
       /\ \A d \in Callers : (caller[c] = "closing" /\ caller[d] = "closing") => c = d

LEMMA TicketsSubmit ==
  ASSUME Shape, Tickets, NEW i \in Items, Submit(i)
  PROVE  Tickets'
<1>1. /\ state = "running" /\ state' = state /\ caller' = caller
      /\ completion' = [completion EXCEPT ![i] = "pending"]
  BY DEF Submit
<1>2. \A j \in Items : completion'[j] = IF j = i THEN "pending" ELSE completion[j]
  BY <1>1 DEF Shape, Types
<1>3. Waits' = Waits \cup {i} /\ Active' = Active
  BY SetsSubmit
<1> QED
  BY <1>1, <1>2, <1>3 DEF Tickets

LEMMA TicketsFinishItem ==
  ASSUME Shape, Counts, Tickets, NEW w \in Workers, FinishItem(w)
  PROVE  Tickets'
<1>1. /\ UNCHANGED <<state, caller>> /\ pending' = pending - 1
      /\ completion' = [completion EXCEPT ![job[w]] = IF @ = "pending" THEN "finished" ELSE @]
  BY DEF FinishItem
<1>2. /\ Waits' = Waits /\ Active' = Active \ {job[w]} /\ w \in Busy /\ job[w] \in Items
  <2>1. worker[w] = "busy" /\ job[w] \in Items
    BY DEF FinishItem, Shape, Manned, Types
  <2> QED
    BY <2>1, SetsFinishItem
<1>3. pending # 0
  <2>1. Cardinality(Busy) # 0
    BY <1>2, SetFacts, FS_EmptySet
  <2> QED
    BY <2>1, SetFacts DEF Counts
<1>4. completion'[job[w]] # "pending" /\ \A j \in Items \ {job[w]} : completion'[j] = completion[j]
  BY <1>1, <1>2 DEF Shape, Types
<1> QED
  BY <1>1, <1>2, <1>3, <1>4 DEF Tickets

LEMMA TicketsCancelAll ==
  ASSUME Shape, Tickets, ~Locked, NEW c \in Callers, CancelAll(c)
  PROVE  /\ Tickets'
         /\ \A i \in Items : completion[i] = "pending" => i \in Dropped
<1>1. /\ state' = "cancelling" /\ caller' = [caller EXCEPT ![c] = "closing"]
      /\ completion' = [i \in Items |-> IF i \in Dropped /\ completion[i] = "pending"
                                          THEN "cancelled" ELSE completion[i]]
  BY DEF CancelAll, Go
<1>2. \A i \in Items : completion[i] = "pending" => i \in Dropped
  BY SetFacts DEF Tickets, Dropped
<1>3. \A i \in Items : completion'[i] # "pending"
  BY <1>1, <1>2
<1>4. \A d \in Callers \ {c} : caller'[d] = caller[d] /\ caller[d] # "closing"
  BY <1>1 DEF Locked, Shape, Types
<1> QED
  BY <1>1, <1>2, <1>3, <1>4 DEF Tickets

LEMMA TicketsClose ==
  ASSUME Shape, Counts, Tickets, NEW c \in Callers, Close(c)
  PROVE  /\ Tickets'
         /\ Active = {} /\ Waits = {} /\ \A i \in Items : completion[i] # "pending"
         /\ \A k \in Keys : queue[k] = <<>>
         /\ state \in {"draining", "cancelling"}
<1>1. /\ state' = "closed" /\ completion' = completion
      /\ caller' = [caller EXCEPT ![c] = "returned"] /\ caller[c] = "closing"
      /\ \A w \in Workers : worker[w] = "gone"
  BY DEF Close, Go
<1>2. state \in {"draining", "cancelling"}
  BY <1>1 DEF Tickets
<1>3. Active = {} /\ Busy = {}
  BY <1>1 DEF Active, Busy
<1>4. Waits = {}
  <2>1. CASE state = "cancelling"
    BY <2>1 DEF Shape, Quiet, Waits
  <2>2. CASE state = "draining"
    <3>1. pending = 0 /\ Cardinality(Busy) = 0
      BY <1>1, <1>3, <2>2, FS_EmptySet DEF Tickets
    <3>2. Cardinality(Waits) = 0
      BY <3>1, SetFacts DEF Counts
    <3> QED
      BY <3>2, SetFacts, FS_EmptySet
  <2> QED
    BY <1>2, <2>1, <2>2
<1>5. \A k \in Keys : queue[k] = <<>>
  <2> SUFFICES ASSUME NEW k \in Keys, queue[k] # <<>> PROVE FALSE
    OBVIOUS
  <2>1. queue[k] \in Seq(Items)
    BY DEF Shape, Types
  <2>2. 1 \in DOMAIN queue[k] /\ queue[k][1] \in Items
    BY <2>1, QueueEnds
  <2> QED
    BY <2>2, <1>4 DEF Waits
<1>6. \A i \in Items : completion[i] # "pending"
  BY <1>3, <1>4 DEF Tickets
<1>7. \A d \in Callers \ {c} : caller'[d] = caller[d] /\ caller[d] # "closing"
  BY <1>1 DEF Tickets, Shape, Types
<1>8. caller'[c] = "returned"
  BY <1>1 DEF Shape, Types
<1> QED
  BY <1>1, <1>2, <1>3, <1>4, <1>5, <1>6, <1>7, <1>8 DEF Tickets

LEMMA TicketsHold == Spec => []Tickets
<1>1. Init => Tickets
  BY DEF Init, Tickets
<1>2. Shape /\ Counts /\ Tickets /\ [Next]_vars => Tickets'
  <2> SUFFICES ASSUME Shape, Counts, Tickets, [Next]_vars PROVE Tickets'
    OBVIOUS
  <2>1. ASSUME UNCHANGED <<state, queue, job, pending, completion, caller>>,
               \A w \in Workers : worker'[w] = "busy" <=> worker[w] = "busy"
        PROVE  Tickets'
    BY <2>1, SetsKept DEF Tickets
  <2>2. CASE UNCHANGED vars
    BY <2>1, <2>2 DEF vars, mailbox, tasks
  <2>3. CASE Start
    <3>1. Waits' = Waits /\ Active' = Active
      BY <2>3, SetsKept DEF Start, mailbox, Shape, Quiet
    <3> QED
      BY <2>3, <3>1 DEF Start, Tickets
  <2>4. ASSUME NEW w \in Workers, TakeNothing(w) \/ Interrupt(w) PROVE Tickets'
    <3>1. \A v \in Workers : worker'[v] = "busy" <=> worker[v] = "busy"
      BY <2>4 DEF TakeNothing, Interrupt, Shape, Types
    <3> QED
      BY <2>1, <2>4, <3>1 DEF TakeNothing, Interrupt, mailbox
  <2>5. ASSUME NEW k \in Keys, ReapIdle(k) PROVE Tickets'
    BY <2>1, <2>5 DEF ReapIdle, tasks
  <2>6. ASSUME NEW w \in Workers, TakeNext(w) PROVE Tickets'
    <3>1. Waits' \cup Active' = Waits \cup Active
      BY <2>6, SetsTakeNext
    <3> QED
      BY <2>6, <3>1 DEF TakeNext, Tickets
  <2>7. ASSUME NEW c \in Callers, ShutdownDrain(c) PROVE Tickets'
    <3>1. /\ worker' = worker \/ worker' = Woken(worker)
          /\ UNCHANGED <<queue, job, pending, completion>>
          /\ \A d \in Callers : caller[d] # "closing"
      BY <2>7 DEF ShutdownDrain, mailbox, Locked
    <3>2. Waits' = Waits /\ Active' = Active
      BY <3>1, WokenFacts, SetsKept DEF Shape, Types
    <3>3. \/ state \in {"new", "closed"} /\ state' = "closed" /\ caller' = [caller EXCEPT ![c] = "returned"]
          \/ state = "running" /\ state' = "draining" /\ caller' = [caller EXCEPT ![c] = "draining"]
          \/ state \in {"draining", "cancelling"} /\ state' = state /\ caller' = [caller EXCEPT ![c] = "draining"]
      BY <2>7 DEF ShutdownDrain, Go, Shape, Types, RuntimeStates
    <3> QED
      BY <3>1, <3>2, <3>3 DEF Tickets, Shape, Types
  <2>8. ASSUME NEW c \in Callers, CloseDrained(c) PROVE Tickets'
    <3>1. /\ worker' = worker \/ worker' = Woken(worker)
          /\ UNCHANGED <<state, queue, job, pending, completion>>
          /\ \A d \in Callers : caller[d] # "closing"
          /\ caller[c] = "draining"
      BY <2>8 DEF CloseDrained, mailbox, Locked
    <3>2. Waits' = Waits /\ Active' = Active
      BY <3>1, WokenFacts, SetsKept DEF Shape, Types
    <3>3. pending = 0
      BY <2>8 DEF CloseDrained, Counts
    <3>4. \/ caller' = [caller EXCEPT ![c] = "returned"]
          \/ state # "closed" /\ caller' = [caller EXCEPT ![c] = "closing"]
      BY <2>8 DEF CloseDrained, Go
    <3> QED
      BY <3>1, <3>2, <3>3, <3>4 DEF Tickets, Shape, Types
  <2>9. ASSUME NEW c \in Callers, ShutdownCancel(c) PROVE Tickets'
    <3>1. CASE state \notin {"new", "closed"}
      BY <3>1, <2>9, TicketsCancelAll DEF ShutdownCancel
    <3>2. CASE state \in {"new", "closed"}
      <4>1. /\ UNCHANGED <<queue, job, pending, completion, worker>> /\ state' = "closed"
            /\ caller' = [caller EXCEPT ![c] = "returned"] /\ \A d \in Callers : caller[d] # "closing"
        BY <3>2, <2>9 DEF ShutdownCancel, Go, mailbox, tasks, Locked
      <4> QED
        BY <3>2, <4>1 DEF Tickets, Shape, Types
    <3> QED
      BY <3>1, <3>2
  <2>a. CASE Next
    BY <2>3, <2>4, <2>5, <2>6, <2>7, <2>8, <2>9, <2>a, TicketsSubmit, TicketsFinishItem, TicketsClose
       DEF Next, Work
  <2> QED
    BY <2>2, <2>a
<1> QED
  BY <1>1, <1>2, ShapeHolds, CountsHold, PTL DEF Spec

----------------------------------------------------------------------------
(* The refinement *)

(* The counts that SerialMailboxes admits work by are those kept here.     *)
LEMMA PromisedCounts ==
  ASSUME Shape, Counts
  PROVE  /\ Cardinality(Waits \cup Active) = pending
         /\ \A k \in Keys : Len(queue[k]) + Cardinality({i \in Active : KeyOf[i] = k}) = PendingOf(k)
         /\ \A k \in Keys : k \notin running => {i \in Active : KeyOf[i] = k} = {}
<1>1. Cardinality(Waits \cup Active) = pending
  <2>1. Cardinality(Waits \cup Active) = Cardinality(Waits) + Cardinality(Active) - Cardinality(Waits \cap Active)
    BY SetFacts, FS_Union
  <2>2. Cardinality(Waits \cap Active) = 0
    BY SetFacts, FS_EmptySet
  <2> QED
    BY <2>1, <2>2, SetFacts DEF Counts
<1> DEFINE On(k) == {i \in Active : KeyOf[i] = k}
<1>2. \A k \in Keys : k \notin running => On(k) = {}
  BY DEF Active, Shape, Manned
<1>3. ASSUME NEW k \in Keys PROVE Len(queue[k]) + Cardinality(On(k)) = PendingOf(k)
  <2>1. CASE k \in running
    <3>1. PICK w \in Workers : worker[w] = "busy" /\ KeyOf[job[w]] = k
      BY <2>1 DEF Shape, Manned
    <3>2. On(k) = {job[w]}
      BY <3>1 DEF Active, Shape, Manned
    <3>3. Cardinality(On(k)) = 1
      BY <3>2, FS_Singleton
    <3> QED
      BY <2>1, <3>3 DEF PendingOf
  <2>2. CASE k \notin running
    <3>1. Cardinality(On(k)) = 0
      BY <1>2, <2>2, FS_EmptySet
    <3> QED
      BY <2>2, <3>1 DEF PendingOf
  <2> QED
    BY <2>1, <2>2
<1> QED
  BY <1>1, <1>2, <1>3

(* SerialMailboxes counts with the same Cardinality.                       *)
LEMMA SameCardinality ==
  ASSUME NEW S
  PROVE  Promise!Cardinality(S) = Cardinality(S)
BY DEF Promise!Cardinality, Cardinality

LEMMA PromisedAccept ==
  ASSUME Shape, Counts, NEW i \in Items, Submit(i)
  PROVE  Promise!Accept(i)
<1> DEFINE k == KeyOf[i]
<1>1. /\ state = "running" /\ completion[i] = "none" /\ state' = state
      /\ PendingOf(k) < PerKeyCapacity /\ pending < GlobalCapacity
      /\ queue' = [queue EXCEPT ![k] = Append(@, i)]
      /\ completion' = [completion EXCEPT ![i] = "pending"]
      /\ k \in Keys
  BY KeysOfItems DEF Submit
<1>2. Active' = Active
  BY SetsSubmit
<1>3. Cardinality(Waits \cup Active) < GlobalCapacity
  BY <1>1, PromisedCounts
<1>4. Len(queue[k]) + Cardinality({j \in Active : KeyOf[j] = k}) < PerKeyCapacity
  BY <1>1, PromisedCounts
<1>5. Len(queue[k]) + Cardinality(Promise!Of(k)) < PerKeyCapacity
  BY <1>4 DEF Promise!Of, Active
<1>6. Cardinality(Promise!Waiting \cup Active) < GlobalCapacity
  BY <1>3 DEF Promise!Waiting, Waits
<1> QED
  BY <1>1, <1>2, <1>5, <1>6, SameCardinality DEF Promise!Accept, Active

LEMMA PromisedBegin ==
  ASSUME Shape, Counts, NEW w \in Workers, TakeNext(w)
  PROVE  \E k \in Keys : Promise!Begin(k)
<1> PICK k \in Keys, first \in Waits :
      /\ k \notin running /\ queue[k] # <<>> /\ queue[k] \in Seq(Items)
      /\ first = Head(queue[k])
      /\ queue' = [queue EXCEPT ![k] = Tail(@)]
      /\ w \notin Busy
      /\ Active' = Active \cup {first}
  BY SetsTakeNext
<1>1. state \in {"running", "draining"}
  BY DEF Shape, Quiet, Types, RuntimeStates
<1>2. {j \in Active : KeyOf[j] = k} = {}
  BY PromisedCounts
<1>3. Cardinality(Active) < Cardinality(Workers)
  <2>1. Busy \in SUBSET Workers /\ Busy # Workers /\ IsFiniteSet(Workers)
    BY MailboxAssumption DEF Busy
  <2>2. Cardinality(Busy) <= Cardinality(Workers) /\ Cardinality(Workers) # Cardinality(Busy)
    BY <2>1, FS_Subset
  <2>3. Cardinality(Workers) \in Nat
    BY <2>1, FS_CardinalityType
  <2> QED
    BY <2>2, <2>3, SetFacts DEF Counts
<1>4. UNCHANGED <<state, completion>>
  BY DEF TakeNext
<1>5. Promise!Of(k) = {}
  BY <1>2 DEF Promise!Of, Active
<1>6. Active' = Active \cup {Head(queue[k])}
  OBVIOUS
<1> HIDE DEF Active
<1>7. Promise!Begin(k)
  BY <1>1, <1>3, <1>4, <1>5, <1>6, SameCardinality DEF Promise!Begin, Active
<1> QED
  BY <1>7

LEMMA PromisedEnd ==
  ASSUME Shape, Counts, NEW w \in Workers, FinishItem(w)
  PROVE  \E i \in Items : Promise!End(i)
<1>1. /\ job[w] \in Active /\ Active' = Active \ {job[w]}
  BY SetsFinishItem
<1>2. /\ UNCHANGED <<state, queue>>
      /\ completion' = [completion EXCEPT ![job[w]] = IF @ = "pending" THEN "finished" ELSE @]
  BY DEF FinishItem
<1>3. job[w] \in Items
  BY DEF FinishItem, Shape, Manned, Types
<1>4. PICK i \in Items : i = job[w]
  BY <1>3
<1>5. Promise!End(i)
  BY <1>1, <1>2, <1>4 DEF Promise!End, Active
<1> QED
  BY <1>5

LEMMA PromisedCancel ==
  ASSUME Shape, Tickets, ~Locked, NEW c \in Callers, CancelAll(c), state \notin {"new", "closed"}
  PROVE  Promise!Cancel \/ UNCHANGED Promise!vars
<1>1. /\ state' = "cancelling"
      /\ queue' = [k \in Keys |-> <<>>]
      /\ completion' = [i \in Items |-> IF i \in Dropped /\ completion[i] = "pending"
                                          THEN "cancelled" ELSE completion[i]]
      /\ worker' = Woken(worker) /\ job' = job
  BY DEF CancelAll
<1>2. \A w \in Workers : worker'[w] = "busy" <=> worker[w] = "busy"
  BY <1>1, WokenFacts DEF Shape, Types
<1>3. Active' = Active
  BY <1>1, <1>2 DEF Active
<1>4. completion' = [i \in Items |-> IF completion[i] = "pending" THEN "cancelled" ELSE completion[i]]
  BY <1>1, TicketsCancelAll
<1>5. CASE state \in {"running", "draining"}
  BY <1>1, <1>3, <1>4, <1>5 DEF Promise!Cancel, Active
<1>6. CASE state = "cancelling"
  <2>1. \A i \in Items : completion[i] # "pending"
    BY <1>6 DEF Tickets
  <2>2. completion' = completion
    BY <1>4, <2>1 DEF Shape, Types
  <2>3. queue' = queue
    BY <1>1, <1>6 DEF Shape, Types, Quiet
  <2> QED
    BY <1>1, <1>3, <1>6, <2>2, <2>3 DEF Promise!vars, Active
<1> QED
  BY <1>5, <1>6 DEF Shape, Types, RuntimeStates

LEMMA PromisedClose ==
  ASSUME Shape, Counts, Tickets, NEW c \in Callers, Close(c)
  PROVE  Promise!Close
<1>1. /\ Active = {} /\ \A i \in Items : completion[i] # "pending"
      /\ \A k \in Keys : queue[k] = <<>>
      /\ state \in {"draining", "cancelling"}
  BY TicketsClose
<1>2. /\ state' = "closed" /\ UNCHANGED <<completion, worker, job>> /\ queue' = [k \in Keys |-> <<>>]
  BY DEF Close, tasks
<1>3. queue' = queue
  BY <1>1, <1>2 DEF Shape, Types
<1>4. Active' = Active
  BY <1>2 DEF Active
<1> QED
  BY <1>1, <1>2, <1>3, <1>4 DEF Promise!Close, Active

(* Neither the reaper, a worker that waits or leaves, nor a caller that    *)
(* only waits shows; starting, draining and closing unused do.             *)
LEMMA PromisedOther ==
  ASSUME Shape, Tickets
  PROVE  /\ Start => Promise!Start
         /\ \A w \in Workers : TakeNothing(w) \/ Interrupt(w) => UNCHANGED Promise!vars
         /\ \A k \in Keys : ReapIdle(k) => UNCHANGED Promise!vars
         /\ \A c \in Callers : CloseDrained(c) => UNCHANGED Promise!vars
         /\ \A c \in Callers : ShutdownDrain(c) => Promise!Drain \/ Promise!Close \/ UNCHANGED Promise!vars
         /\ UNCHANGED vars => UNCHANGED Promise!vars
<1>1. ASSUME UNCHANGED job, \A w \in Workers : worker'[w] = "busy" <=> worker[w] = "busy"
      PROVE  Active' = Active
  BY <1>1 DEF Active
<1>2. Start => Promise!Start
  <2> SUFFICES ASSUME Start PROVE Promise!Start
    OBVIOUS
  <2>1. Active' = Active
    BY <1>1 DEF Start, Shape, Quiet
  <2> QED
    BY <2>1 DEF Start, mailbox, Promise!Start, Active
<1>3. ASSUME NEW w \in Workers, TakeNothing(w) \/ Interrupt(w) PROVE UNCHANGED Promise!vars
  <2>1. /\ \A v \in Workers : worker'[v] = "busy" <=> worker[v] = "busy"
        /\ UNCHANGED <<state, queue, completion, job>>
    BY <1>3 DEF TakeNothing, Interrupt, mailbox, Shape, Types
  <2> QED
    BY <1>1, <2>1 DEF Promise!vars, Active
<1>4. ASSUME NEW k \in Keys, ReapIdle(k) PROVE UNCHANGED Promise!vars
  BY <1>4 DEF ReapIdle, tasks, Promise!vars
<1>5. ASSUME NEW c \in Callers, CloseDrained(c) \/ ShutdownDrain(c)
      PROVE  Active' = Active /\ UNCHANGED <<queue, completion>>
  <2>1. (worker' = worker \/ worker' = Woken(worker)) /\ UNCHANGED <<queue, completion, job>>
    BY <1>5 DEF CloseDrained, ShutdownDrain, mailbox
  <2> QED
    BY <1>1, <2>1, WokenFacts DEF Shape, Types
<1>6. ASSUME NEW c \in Callers, CloseDrained(c) PROVE UNCHANGED Promise!vars
  BY <1>5, <1>6 DEF CloseDrained, Promise!vars, Active
<1>7. ASSUME NEW c \in Callers, ShutdownDrain(c)
      PROVE  Promise!Drain \/ Promise!Close \/ UNCHANGED Promise!vars
  <2>1. Active' = Active /\ UNCHANGED <<queue, completion>>
    BY <1>5, <1>7
  <2>2. CASE state = "new"
    <3>1. Active = {} /\ \A i \in Items : completion[i] # "pending"
      BY <2>2 DEF Shape, Quiet, Tickets, Active
    <3> QED
      BY <1>7, <2>1, <2>2, <3>1 DEF ShutdownDrain, Promise!Close, Active
  <2>3. CASE state = "running"
    BY <1>7, <2>1, <2>3 DEF ShutdownDrain, Promise!Drain, Active
  <2>4. CASE state \notin {"new", "running"}
    BY <1>7, <2>1, <2>4 DEF ShutdownDrain, Promise!vars, Active
  <2> QED
    BY <2>2, <2>3, <2>4
<1>8. ASSUME UNCHANGED vars PROVE UNCHANGED Promise!vars
  BY <1>8 DEF vars, mailbox, tasks, Promise!vars
<1> QED
  BY <1>2, <1>3, <1>4, <1>6, <1>7, <1>8

(* KeyedMailbox implements SerialMailboxes: the work of a key runs one     *)
(* item at a time in the order it was accepted, within the capacities and  *)
(* the concurrency, and only a cancelling shutdown drops any.              *)
THEOREM ImplementsSerial == Spec => Serial
<1>1. Init => Promise!Init
  BY DEF Init, Promise!Init
<1>2. Shape /\ Counts /\ Tickets /\ [Next]_vars => [Promise!Next]_(Promise!vars)
  <2> SUFFICES ASSUME Shape, Counts, Tickets, [Next]_vars PROVE [Promise!Next]_(Promise!vars)
    OBVIOUS
  <2>1. CASE UNCHANGED vars
    BY <2>1, PromisedOther
  <2>2. ASSUME NEW c \in Callers, ShutdownCancel(c) PROVE [Promise!Next]_(Promise!vars)
    <3>1. CASE state \notin {"new", "closed"}
      <4>1. CancelAll(c) /\ ~Locked
        BY <3>1, <2>2 DEF ShutdownCancel
      <4> QED
        BY <3>1, <4>1, PromisedCancel DEF Promise!Next
    <3>2. CASE state \in {"new", "closed"}
      <4>1. state' = "closed" /\ UNCHANGED <<queue, completion, worker, job>>
        BY <3>2, <2>2 DEF ShutdownCancel, mailbox, tasks
      <4>2. CASE state = "new"
        <5>1. Active = {} /\ \A i \in Items : completion[i] # "pending"
          BY <4>2 DEF Shape, Quiet, Tickets, Active
        <5> QED
          BY <4>1, <4>2, <5>1 DEF Promise!Next, Promise!Close, Active
      <4>3. CASE state = "closed"
        BY <4>1, <4>3 DEF Promise!vars
      <4> QED
        BY <3>2, <4>2, <4>3
    <3> QED
      BY <3>1, <3>2
  <2>3. CASE Next
    BY <2>2, <2>3, PromisedAccept, PromisedBegin, PromisedEnd, PromisedClose, PromisedOther
       DEF Next, Work, Promise!Next
  <2> QED
    BY <2>1, <2>3
<1> QED
  BY <1>1, <1>2, ShapeHolds, CountsHold, TicketsHold, PTL DEF Spec, Serial, Promise!Spec
=============================================================================
