----------------------------- MODULE Schedules ------------------------------
(***************************************************************************)
(* The schedules of one conversation: they are created, replaced and       *)
(* cancelled by tool calls, claimed one at a time when due, and each       *)
(* occurrence becomes a turn in the transaction that moves the schedule on *)
(* (infrastructure/scheduling/postgres.py, application/scheduling).        *)
(*                                                                         *)
(* Simplifications.  Time is a small number; calendar cadences, which      *)
(* differ from fixed intervals in their arithmetic only, are left out, and *)
(* so are the texts.  A turn that was accepted is the instant it was       *)
(* scheduled for: its identity is made from that and the schedule.         *)
(***************************************************************************)
EXTENDS Naturals, Sequences, SequencesExt

CONSTANTS
  ScheduleIds,
  Every,                \* the fixed interval of each schedule, 0 for a one-shot
  Skipping,             \* the schedules with misfire policy "skip" and a grace of 0
  MaxScheduleTime,      \* bound on the clock
  MaxOccurrenceAttempts,\* max_attempts of the worker
  MaxScheduleClaims,    \* bound on the claims
  MaxScheduleEdits,     \* bound on replacements
  MaxScheduleFaults     \* bound on crashes, lost leases and failed calls

ASSUME SchedulesAssumption ==
  /\ ScheduleIds \subseteq Nat /\ Skipping \subseteq ScheduleIds
  /\ Every \in [ScheduleIds -> Nat]
  /\ MaxScheduleTime \in Nat /\ MaxScheduleClaims \in Nat
  /\ MaxOccurrenceAttempts \in Nat \ {0}
  /\ MaxScheduleEdits \in Nat /\ MaxScheduleFaults \in Nat

VARIABLES
  instant,   \* the clock
  schedule,  \* the rows of scheduling.assistant_schedules
  fired,     \* the occurrences of each schedule that became turns, in that order
  executing, \* claims that the worker is working on
  scheduleClaims,
  edits,
  scheduleFaults

scheduleVars == <<instant, schedule, fired, executing, scheduleClaims, edits, scheduleFaults>>

Instants == 0 .. MaxScheduleTime
Live == {"pending", "processing", "retry_wait"}
NoSchedule == [status |-> "none", run |-> 0, attempt |-> 0, attempts |-> 0, token |-> 0]

SchedulesInit ==
  /\ instant = 0
  /\ schedule = [s \in ScheduleIds |-> NoSchedule]
  /\ fired = [s \in ScheduleIds |-> <<>>]
  /\ executing = {}
  /\ scheduleClaims = 0 /\ edits = 0 /\ scheduleFaults = 0

ScheduleFault ==
  /\ scheduleFaults < MaxScheduleFaults
  /\ scheduleFaults' = scheduleFaults + 1

ScheduleTick ==
  /\ instant < MaxScheduleTime
  /\ instant' = instant + 1
  /\ UNCHANGED <<schedule, fired, executing, scheduleClaims, edits, scheduleFaults>>

----------------------------------------------------------------------------
(* The tool's operations, under the lock of the conversation's scope *)

Waiting(first) == [NoSchedule EXCEPT !.status = "pending", !.run = first, !.attempt = first]

CreateSchedule(s, first) ==
  /\ schedule[s].status = "none"
  /\ first > instant
  /\ schedule' = [schedule EXCEPT ![s] = Waiting(first)]
  /\ UNCHANGED <<instant, fired, executing, scheduleClaims, edits, scheduleFaults>>

ReplaceSchedule(s, first) ==
  /\ edits < MaxScheduleEdits
  /\ first > instant
  /\ schedule[s].status \in {"pending", "retry_wait"}
  /\ schedule' = [schedule EXCEPT ![s] = Waiting(first)]
  /\ edits' = edits + 1
  /\ UNCHANGED <<instant, fired, executing, scheduleClaims, scheduleFaults>>

Close(s, status) ==
  schedule' = [schedule EXCEPT ![s].status = status, ![s].token = 0]

CancelSchedule(s) ==
  /\ schedule[s].status \in Live
  /\ Close(s, "cancelled")
  /\ UNCHANGED <<instant, fired, executing, scheduleClaims, edits, scheduleFaults>>

----------------------------------------------------------------------------
(* The worker *)

DueSchedule(s) ==
  schedule[s].status \in {"pending", "retry_wait"} /\ schedule[s].attempt <= instant

Before(s, t) ==
  \/ schedule[s].attempt < schedule[t].attempt
  \/ schedule[s].attempt = schedule[t].attempt /\ schedule[s].run < schedule[t].run
  \/ schedule[s].attempt = schedule[t].attempt /\ schedule[s].run = schedule[t].run /\ s < t

ClaimSchedule(s) ==
  /\ scheduleClaims < MaxScheduleClaims
  /\ DueSchedule(s)
  /\ \A t \in ScheduleIds : schedule[t].status # "processing"
  /\ \A t \in ScheduleIds \ {s} : DueSchedule(t) => ~Before(t, s)
  /\ scheduleClaims' = scheduleClaims + 1
  /\ schedule' = [schedule EXCEPT ![s].status = "processing", ![s].attempts = @ + 1,
                                  ![s].token = scheduleClaims']
  /\ executing' = executing \cup {[of |-> s, run |-> schedule[s].run, token |-> scheduleClaims',
                                   attempts |-> schedule[s].attempts + 1,
                                   step |-> "claimed", observed |-> 0]}
  /\ UNCHANGED <<instant, fired, edits, scheduleFaults>>

OwnsSchedule(c) == schedule[c.of].status = "processing" /\ schedule[c.of].token = c.token

Drop(c) == executing' = executing \ {c}

(* Mutant of NextRun: an occurrence at the very instant is still to come. *)
NextRunFromNow(s, run, after) ==
  IF run >= after THEN run ELSE run + ((after - run) \div Every[s] + 1) * Every[s]

(* next_occurrence: the intervals that were missed are passed over. *)
NextRun(s, run, after) ==
  IF run > after THEN run ELSE run + ((after - run) \div Every[s] + 1) * Every[s]

(* The row goes on to the next occurrence, or ends. *)
MovedOn(c, end) ==
  IF Every[c.of] = 0
    THEN [schedule[c.of] EXCEPT !.status = end, !.attempts = 0, !.token = 0]
    ELSE Waiting(NextRun(c.of, c.run, c.observed))

Missed(c) == c.of \in Skipping /\ instant > c.run

(* The beginning of an attempt reads the clock once, for all it does; a    *)
(* claim that used up the budget by losing leases fails for good instead.  *)
ObserveOccurrence(c) ==
  /\ c.step = "claimed"
  /\ c.attempts <= MaxOccurrenceAttempts
  /\ executing' = (executing \ {c}) \cup
       {[c EXCEPT !.observed = instant, !.step = IF Missed(c) THEN "skip" ELSE "accept"]}
  /\ UNCHANGED <<instant, schedule, fired, scheduleClaims, edits, scheduleFaults>>

SkipMisfire(c) ==
  /\ c.step = "skip"
  /\ Drop(c)
  /\ schedule' = IF OwnsSchedule(c) THEN [schedule EXCEPT ![c.of] = MovedOn(c, "expired")]
                                    ELSE schedule
  /\ UNCHANGED <<instant, fired, scheduleClaims, edits, scheduleFaults>>

(* accept: the turn and the cursor in one transaction. *)
AcceptOccurrence(c) ==
  /\ c.step = "accept"
  /\ Drop(c)
  /\ IF OwnsSchedule(c)
       THEN /\ fired' = [fired EXCEPT ![c.of] = IF Contains(@, c.run) THEN @ ELSE Append(@, c.run)]
            /\ schedule' = [schedule EXCEPT ![c.of] = MovedOn(c, "completed")]
       ELSE UNCHANGED <<fired, schedule>>
  /\ UNCHANGED <<instant, scheduleClaims, edits, scheduleFaults>>

(* fail_final: no budget left, or an error that no retry mends. *)
FailOccurrence(c) ==
  /\ \/ c.attempts > MaxOccurrenceAttempts /\ UNCHANGED scheduleFaults
     \/ c.attempts <= MaxOccurrenceAttempts /\ ScheduleFault
  /\ Drop(c)
  /\ IF OwnsSchedule(c) THEN Close(c.of, "failed_final") ELSE UNCHANGED schedule
  /\ UNCHANGED <<instant, fired, scheduleClaims, edits>>

(* _retry_or_fail, after a timeout or an error that may pass; the delay is *)
(* at random.                                                              *)
RetryOccurrence(c, delay) ==
  /\ c.step # "claimed"
  /\ c.attempts < MaxOccurrenceAttempts
  /\ ScheduleFault
  /\ Drop(c)
  /\ schedule' = IF OwnsSchedule(c)
                   THEN [schedule EXCEPT ![c.of].status = "retry_wait", ![c.of].token = 0,
                                         ![c.of].attempt = instant + delay]
                   ELSE schedule
  /\ UNCHANGED <<instant, fired, scheduleClaims, edits>>

(* That a lease elapses while the claim is being worked on is a fault. *)
RecoverSchedule(s) ==
  /\ schedule[s].status = "processing"
  /\ IF \E c \in executing : c.of = s /\ c.token = schedule[s].token
       THEN ScheduleFault ELSE UNCHANGED scheduleFaults
  /\ schedule' = [schedule EXCEPT ![s].status = "retry_wait", ![s].token = 0,
                                  ![s].attempt = instant]
  /\ UNCHANGED <<instant, fired, executing, scheduleClaims, edits>>

ScheduleCrash ==
  /\ ScheduleFault
  /\ executing' = {}
  /\ UNCHANGED <<instant, schedule, fired, scheduleClaims, edits>>

----------------------------------------------------------------------------
SchedulesNext ==
  \/ ScheduleTick \/ ScheduleCrash
  \/ \E s \in ScheduleIds :
       \/ \E first \in Instants : CreateSchedule(s, first) \/ ReplaceSchedule(s, first)
       \/ CancelSchedule(s) \/ ClaimSchedule(s) \/ RecoverSchedule(s)
  \/ \E c \in executing :
       \/ ObserveOccurrence(c) \/ SkipMisfire(c) \/ AcceptOccurrence(c) \/ FailOccurrence(c)
       \/ \E delay \in 0 .. 1 : RetryOccurrence(c, delay)

SchedulesSpec == SchedulesInit /\ [][SchedulesNext]_scheduleVars

----------------------------------------------------------------------------
ScheduleStatus == Live \cup {"none", "completed", "cancelled", "expired", "failed_final"}

SchedulesTypeOK ==
  /\ instant \in Nat
  /\ schedule \in [ScheduleIds -> [status : ScheduleStatus, run : Nat, attempt : Nat,
                                   attempts : Nat, token : Nat]]
  /\ fired \in [ScheduleIds -> Seq(Nat)]
  /\ executing \subseteq [of : ScheduleIds, run : Nat, token : Nat, attempts : Nat,
                          step : {"claimed", "skip", "accept"}, observed : Nat]
  /\ scheduleClaims \in Nat /\ edits \in Nat /\ scheduleFaults \in Nat

(* An occurrence becomes a turn once, in its order, and no turn stands for  *)
(* a time the schedule has yet to reach: also when attempts that lost their *)
(* lease, a cancellation, a replacement and a retry meet (postgres.py:567). *)
FiresInOrder ==
  \A s \in ScheduleIds :
    /\ \A i, j \in DOMAIN fired[s] : i < j => fired[s][i] < fired[s][j]
    /\ \A i \in DOMAIN fired[s] : fired[s][i] <= instant
    /\ \A i \in DOMAIN fired[s] : schedule[s].status \in Live => fired[s][i] < schedule[s].run
=============================================================================
