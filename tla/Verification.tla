---------------------------- MODULE Verification ----------------------------
(***************************************************************************)
(* The verification of a member who joins a group: the handler that mutes  *)
(* the member and posts the button, the member's answer, the deadline, a   *)
(* departure, and the workers that deliver the outcome to Telegram         *)
(* (verification_handlers.py, verification_service.py and the transactions *)
(* of infrastructure/database/moderation/verification.py), for one member  *)
(* of one group, the row's key.                                            *)
(*                                                                         *)
(* Simplifications.  A creation, that is one run of the handler, is named  *)
(* by its ordinal, which stands for the token it made and for the welcome  *)
(* message it posts.  The instants of a row become the three phases of its *)
(* clock.  The text of a delivered outcome is left out.  Updates of a chat *)
(* are handled in order; that one is handled while an earlier handler      *)
(* still runs, whose lease elapsed, is a fault.  The group has its         *)
(* verification enabled and the member is no bot: any other join is        *)
(* handled without touching the row.                                       *)
(***************************************************************************)
EXTENDS Naturals, Sequences, FiniteSets

CONSTANTS
  MaxCreations,         \* bound on the runs of the new-member handler
  MaxJoins,             \* bound on the member's joins
  MaxVerificationFaults \* bound on crashes, failures and elapsed leases

ASSUME VerificationAssumption ==
  /\ MaxCreations \in Nat \ {0}
  /\ MaxJoins \in Nat
  /\ MaxVerificationFaults \in Nat

Creations == 1 .. MaxCreations

VARIABLES
  task,      \* the row of moderation.verification_tasks
  clock,     \* of the row: 0 fresh, 1 after recover_at, 2 after expire_time
  member,    \* what Telegram knows of the member
  joins,
  updates,   \* stored updates about the member, in order
  handler,   \* where the run of each creation stands
  opened,    \* the version of the row that each creation was given
  request,   \* what an answer or a departure has read of the row
  inHand,    \* claims that are being delivered
  granted,   \* number of claims granted
  answered,  \* creations whose answer was accepted
  told,      \* outcomes shown to Telegram: <<creation, effect>>
  overtaken, \* updates whose handling went on after their lease
  mishaps    \* faults so far

verificationVars == <<task, clock, member, joins, updates, handler, opened, request, inHand,
                      granted, answered, told, overtaken, mishaps>>

NoRequest == [version |-> 0, event |-> "none"]

VerificationInit ==
  /\ task = [status |-> "none", version |-> 0, creation |-> 0, message |-> 0,
             next |-> "never", claim |-> 0]
  /\ clock = 0
  /\ member = [present |-> FALSE, muted |-> FALSE, banned |-> FALSE]
  /\ joins = 0
  /\ updates = <<>>
  /\ handler = [c \in Creations |-> "none"]
  /\ opened = [c \in Creations |-> 0]
  /\ request = [kind \in {"pass", "left"} |-> NoRequest]
  /\ inHand = {}
  /\ granted = 0
  /\ answered = {}
  /\ told = {}
  /\ overtaken = {} /\ mishaps = 0

Mishap == mishaps < MaxVerificationFaults /\ mishaps' = mishaps + 1

Running == {c \in Creations : handler[c] \notin {"none", "done"}}

Handled ==
  {<<"join", c>> : c \in Running}
    \cup {<<k, 0>> : k \in {e \in DOMAIN request : request[e] # NoRequest}}

(* An update is handled after the ones before it, or else after the fault  *)
(* that their leases elapsed.                                              *)
NextUpdate ==
  /\ IF Handled \subseteq overtaken THEN UNCHANGED mishaps ELSE Mishap
  /\ overtaken' = Handled

(* The update whose handler still runs is recovered and handled once more. *)
Redelivered ==
  /\ Mishap
  /\ overtaken' = Handled
  /\ \/ Running # {} /\ updates' = <<"join">> \o updates
     \/ request["left"] # NoRequest /\ updates' = <<"left">> \o updates
  /\ UNCHANGED <<task, clock, member, joins, handler, opened, request, inHand, granted, answered,
                 told>>

----------------------------------------------------------------------------
(* Telegram *)

Join ==
  /\ joins < MaxJoins
  /\ ~member.present /\ ~member.banned
  /\ joins' = joins + 1
  /\ member' = [member EXCEPT !.present = TRUE]
  /\ updates' = Append(updates, "join")
  /\ UNCHANGED <<task, clock, handler, opened, request, inHand, granted, answered, told, mishaps,
                 overtaken>>

Leaves ==
  /\ member.present
  /\ member' = [member EXCEPT !.present = FALSE]
  /\ updates' = Append(updates, "left")
  /\ UNCHANGED <<task, clock, joins, handler, opened, request, inHand, granted, answered, told,
                 mishaps, overtaken>>

VerificationTick ==
  /\ clock < 2
  /\ task.status # "none"
  /\ clock' = clock + 1
  /\ UNCHANGED <<task, member, joins, updates, handler, opened, request, inHand, granted, answered,
                 told, mishaps, overtaken>>

----------------------------------------------------------------------------
(* new_member_handler *)

NextVersion == IF task.status = "none" THEN 0 ELSE task.version + 1

(* create: the upsert takes the row over, whatever state it is in. *)
BeginVerification(c) ==
  /\ handler[c] = "none"
  /\ \A d \in Creations : d < c => handler[d] # "none"
  /\ updates # <<>> /\ Head(updates) = "join"
  /\ NextUpdate
  /\ updates' = Tail(updates)
  /\ task' = [status |-> "creating", version |-> NextVersion, creation |-> c, message |-> 0,
              next |-> "recovery", claim |-> 0]
  /\ clock' = 0
  /\ opened' = [opened EXCEPT ![c] = NextVersion]
  /\ handler' = [handler EXCEPT ![c] = "restricting"]
  /\ UNCHANGED <<member, joins, request, inHand, granted, answered, told>>

RestrictMember(c) ==
  /\ handler[c] = "restricting"
  /\ member' = [member EXCEPT !.muted = @ \/ member.present]
  /\ handler' = [handler EXCEPT ![c] = "replying"]
  /\ UNCHANGED <<task, clock, joins, updates, opened, request, inHand, granted, answered, told,
                 mishaps, overtaken>>

Welcome(c) ==
  /\ handler[c] = "replying"
  /\ handler' = [handler EXCEPT ![c] = "activating"]
  /\ UNCHANGED <<task, clock, member, joins, updates, opened, request, inHand, granted, answered,
                 told, mishaps, overtaken>>

HandlerFails(c) ==
  /\ handler[c] \in {"restricting", "replying"}
  /\ Mishap
  /\ handler' = [handler EXCEPT ![c] = "aborting"]
  /\ UNCHANGED <<task, clock, member, joins, updates, opened, request, inHand, granted, answered,
                 told, overtaken>>

(* apply: the transition is made in a transaction of its own, if the row   *)
(* still has the version its caller saw; it takes the row out of a claim.  *)
Moved(status, next) ==
  [task EXCEPT !.status = status, !.version = @ + 1, !.next = next, !.claim = 0]

MayActivate(c) ==
  /\ task.version = opened[c]
  /\ task.status = "creating"
  /\ clock < 2

Activate(c) ==
  /\ handler[c] = "activating"
  /\ MayActivate(c)
  /\ task' = [Moved("pending", "expiry") EXCEPT !.message = c]
  /\ handler' = [handler EXCEPT ![c] = "done"]
  /\ UNCHANGED <<clock, member, joins, updates, opened, request, inHand, granted, answered, told,
                 mishaps, overtaken>>

ActivateRefused(c) ==
  /\ handler[c] = "activating"
  /\ ~MayActivate(c)
  /\ handler' = [handler EXCEPT ![c] = "aborting"]
  /\ UNCHANGED <<task, clock, member, joins, updates, opened, request, inHand, granted, answered,
                 told, mishaps, overtaken>>

(* A refused abort ends the handler as well. *)
AbortCreation(c) ==
  /\ handler[c] = "aborting"
  /\ handler' = [handler EXCEPT ![c] = "done"]
  /\ task' = IF task.version = opened[c] /\ task.status = "creating"
               THEN Moved("cancelling", "now") ELSE task
  /\ UNCHANGED <<clock, member, joins, updates, opened, request, inHand, granted, answered, told,
                 mishaps, overtaken>>

----------------------------------------------------------------------------
(* request_pass and member_left: the row is read, then changed if it still *)
(* is what was read; anything else is answered with a rejection.           *)

(* The button of creation c carries its token and the version after        *)
(* opened[c], the one its activation makes.                                *)
LoadPass(c) ==
  /\ handler[c] \in {"activating", "aborting", "done"}
  /\ request["pass"] = NoRequest
  /\ NextUpdate
  /\ task.version = opened[c] + 1 /\ task.creation = c
  /\ task.status = "pending"
  /\ clock < 2
  /\ request' = [request EXCEPT !["pass"] = [version |-> task.version, event |-> "pass_requested"]]
  /\ UNCHANGED <<task, clock, member, joins, updates, handler, opened, inHand, granted, answered,
                 told>>

LoadLeft ==
  /\ updates # <<>> /\ Head(updates) = "left"
  /\ request["left"] = NoRequest
  /\ NextUpdate
  /\ updates' = Tail(updates)
  /\ request' = IF task.status \in {"creating", "pending"}
                  THEN [request EXCEPT !["left"] = [version |-> task.version, event |->
                          IF task.status = "creating" THEN "abort_creation" ELSE "member_left"]]
                  ELSE request
  /\ UNCHANGED <<task, clock, member, joins, handler, opened, inHand, granted, answered, told>>

(* Mutant of StillSeen: the row is changed whatever became of it. *)
StillSeenAnyway(r) == r # NoRequest

(* The deadline is not looked at again: the clock was read before.  A row  *)
(* of the same version has the same status.                                *)
StillSeen(r) == r # NoRequest /\ task.version = r.version

ApplyPass ==
  /\ StillSeen(request["pass"])
  /\ task' = Moved("passing", "now")
  /\ answered' = answered \cup {task.creation}
  /\ request' = [request EXCEPT !["pass"] = NoRequest]
  /\ UNCHANGED <<clock, member, joins, updates, handler, opened, inHand, granted, told, mishaps,
                 overtaken>>

ApplyLeft ==
  /\ StillSeen(request["left"])
  /\ task' = Moved("cancelling", "now")
  /\ request' = [request EXCEPT !["left"] = NoRequest]
  /\ UNCHANGED <<clock, member, joins, updates, handler, opened, inHand, granted, answered, told,
                 mishaps, overtaken>>

RequestRefused(kind) ==
  /\ request[kind] # NoRequest
  /\ ~StillSeen(request[kind])
  /\ request' = [request EXCEPT ![kind] = NoRequest]
  /\ UNCHANGED <<task, clock, member, joins, updates, handler, opened, inHand, granted, answered,
                 told, mishaps, overtaken>>

----------------------------------------------------------------------------
(* Claims and their delivery *)

Delivering == {"passing", "expiring", "cancelling"}

Due ==
  \/ task.next = "now"
  \/ task.next = "recovery" /\ clock >= 1
  \/ task.next = "expiry" /\ clock = 2

(* A creation nobody completed is cancelled, an unanswered one expires. *)
Claimed(status) ==
  CASE status = "creating" -> "cancelling"
    [] status = "pending" -> "expiring"
    [] OTHER -> status

(* A cancelled creation gives the member its permissions back; once the    *)
(* button was posted, only a member who left is cancelled.                 *)
Effects(status, message) ==
  CASE status = "passing" -> <<"restore">>
    [] status = "expiring" -> <<"ban", "unban">>
    [] status = "cancelling" /\ message = 0 -> <<"restore">>
    [] OTHER -> <<>>

(* claim_one right after a transition, or claim_ready of a worker *)
ClaimTask ==
  LET status == Claimed(task.status)
      version == IF task.status \in {"creating", "pending"} THEN task.version + 1
                                                            ELSE task.version
  IN /\ task.status \in {"creating", "pending"} \cup Delivering
     /\ Due
     /\ task.claim = 0
     /\ granted' = granted + 1
     /\ task' = [task EXCEPT !.status = status, !.version = version, !.claim = granted']
     /\ inHand' = inHand \cup {[token |-> granted', version |-> version, status |-> status,
                                creation |-> task.creation,
                                todo |-> Effects(status, task.message)]}
     /\ UNCHANGED <<clock, member, joins, updates, handler, opened, request, answered, told,
                    mishaps, overtaken>>

(* What Telegram does: a ban removes the member and ends its restrictions. *)
Shown(effect) ==
  CASE effect = "restore" -> [member EXCEPT !.muted = FALSE]
    [] effect = "ban" -> [present |-> FALSE, muted |-> FALSE, banned |-> TRUE]
    [] effect = "unban" -> [member EXCEPT !.banned = FALSE]

DeliverEffect(h) ==
  /\ h.todo # <<>>
  /\ member' = Shown(Head(h.todo))
  /\ updates' = IF member.present /\ ~member'.present THEN Append(updates, "left") ELSE updates
  /\ told' = told \cup {<<h.creation, Head(h.todo)>>}
  /\ inHand' = (inHand \ {h}) \cup {[h EXCEPT !.todo = Tail(@)]}
  /\ UNCHANGED <<task, clock, joins, handler, opened, request, granted, answered, mishaps,
                 overtaken>>

OwnsTask(h) == task.version = h.version /\ task.claim = h.token

TerminalOf(status) ==
  CASE status = "passing" -> "passed"
    [] status = "expiring" -> "expired"
    [] OTHER -> "cancelled"

(* complete; a refused completion is dropped. *)
CompleteTask(h) ==
  /\ h.todo = <<>>
  /\ inHand' = inHand \ {h}
  /\ task' = IF OwnsTask(h) THEN Moved(TerminalOf(h.status), "never") ELSE task
  /\ UNCHANGED <<clock, member, joins, updates, handler, opened, request, granted, answered, told,
                 mishaps, overtaken>>

(* Delivery failed or timed out: retry, unless the claim is lost. *)
RetryTask(h) ==
  /\ Mishap
  /\ inHand' = inHand \ {h}
  /\ task' = IF OwnsTask(h) THEN [task EXCEPT !.next = "now", !.claim = 0] ELSE task
  /\ UNCHANGED <<clock, member, joins, updates, handler, opened, request, granted, answered, told,
                 overtaken>>

(* The claim waited too long in the queue, or the retry was not stored. *)
DropClaim(h) ==
  /\ Mishap
  /\ inHand' = inHand \ {h}
  /\ UNCHANGED <<task, clock, member, joins, updates, handler, opened, request, granted, answered,
                 told, overtaken>>

(* A delivery stops before the end of its lease, so only a claim that      *)
(* nobody delivers any more is recovered.                                  *)
RecoverTask ==
  /\ task.claim # 0
  /\ \A h \in inHand : h.token # task.claim
  /\ task.status \in Delivering
  /\ task' = [task EXCEPT !.next = "now", !.claim = 0]
  /\ UNCHANGED <<clock, member, joins, updates, handler, opened, request, inHand, granted,
                 answered, told, mishaps, overtaken>>

(* Deliveries, requests and handlers are lost; what was being handled is   *)
(* handled again.                                                          *)
VerificationCrash ==
  /\ Mishap
  /\ inHand' = {}
  /\ handler' = [c \in Creations |-> IF c \in Running THEN "done" ELSE handler[c]]
  /\ request' = [kind \in DOMAIN request |-> NoRequest]
  /\ updates' = [i \in 1 .. Cardinality(Running) |-> "join"]
                \o (IF request["left"] # NoRequest THEN <<"left">> ELSE <<>>) \o updates
  /\ overtaken' = {}
  /\ UNCHANGED <<task, clock, member, joins, opened, granted, answered, told>>

----------------------------------------------------------------------------
VerificationNext ==
  \/ Join \/ Leaves \/ VerificationTick
  \/ \E c \in Creations :
       \/ BeginVerification(c) \/ RestrictMember(c) \/ Welcome(c) \/ HandlerFails(c)
       \/ Activate(c) \/ ActivateRefused(c) \/ AbortCreation(c) \/ LoadPass(c)
  \/ LoadLeft \/ ApplyPass \/ ApplyLeft
  \/ \E kind \in {"pass", "left"} : RequestRefused(kind)
  \/ ClaimTask \/ RecoverTask \/ Redelivered \/ VerificationCrash
  \/ \E h \in inHand : DeliverEffect(h) \/ CompleteTask(h) \/ RetryTask(h) \/ DropClaim(h)

VerificationSpec == VerificationInit /\ [][VerificationNext]_verificationVars

----------------------------------------------------------------------------
VerificationTypeOK ==
  /\ task \in [status : {"none", "creating", "pending", "passed", "expired", "cancelled"}
                          \cup Delivering,
               version : Nat, creation : Creations \cup {0}, message : Creations \cup {0},
               next : {"never", "now", "recovery", "expiry"}, claim : Nat]
  /\ clock \in 0 .. 2
  /\ member \in [present : BOOLEAN, muted : BOOLEAN, banned : BOOLEAN]
  /\ joins \in Nat /\ granted \in Nat /\ mishaps \in Nat
  /\ overtaken \subseteq ({"join"} \X Creations) \cup ({"pass", "left"} \X {0})
  /\ updates \in Seq({"join", "left"})
  /\ handler \in [Creations -> {"none", "restricting", "replying", "activating", "aborting",
                                "done"}]
  /\ opened \in [Creations -> Nat]
  /\ request \in [{"pass", "left"} -> [version : Nat, event : {"none", "pass_requested",
                                       "abort_creation", "member_left"}]]
  /\ inHand \subseteq [token : Nat, version : Nat, status : Delivering, creation : Creations,
                       todo : Seq({"restore", "ban", "unban"})]
  /\ answered \subseteq Creations
  /\ told \subseteq Creations \X {"restore", "ban", "unban"}

(* A member whose answer was accepted is never removed for having missed   *)
(* the deadline, and the row says of the current creation only what was    *)
(* done to the member: however the answer, a departure, the worker's       *)
(* claims, their retries and late completions of an earlier stay           *)
(* interleave (verification.py:449 and 340).  And the button that the chat  *)
(* shows for a pending verification is the one that opens it, also when an  *)
(* older handler of the member is still running.                            *)
AnswerOrDeadline ==
  /\ task.status = "pending" =>
       task.message = task.creation /\ task.version = opened[task.creation] + 1
  /\ \A c \in answered : <<c, "ban">> \notin told
  /\ task.status \in {"passing", "passed"} => task.creation \in answered
  /\ task.status = "passed" => <<task.creation, "restore">> \in told
  /\ task.status = "expired" =>
       <<task.creation, "ban">> \in told /\ <<task.creation, "unban">> \in told
  /\ task.status = "cancelled" /\ task.message = 0 => <<task.creation, "restore">> \in told

(* Once everything about the member is done and the verification is over,  *)
(* a member who is still in the group may speak: "restrictions lifted", as *)
(* the handler writes (verification_handlers.py:253).                      *)
NobodyLeftMuted ==
  (/\ task.status \in {"cancelled", "passed"}
   /\ Running = {} /\ inHand = {} /\ updates = <<>>
   /\ \A k \in DOMAIN request : request[k] = NoRequest)
    => ~(member.present /\ member.muted)
=============================================================================
