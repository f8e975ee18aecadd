---------------------------- MODULE UserProfile -----------------------------
(***************************************************************************)
(* The profile of one user and the dreams that consolidate it: completed   *)
(* turns become evidence, a frozen batch of evidence becomes a dream, a    *)
(* model's answer to it the next revision; /resetprofile forgets and       *)
(* /regen asks for a dream (infrastructure/database/user_profile and       *)
(* application/user_profile/worker.py).  Each transaction holds the user's *)
(* advisory lock or the rows it changes, so it is one action.              *)
(*                                                                         *)
(* Simplifications.  Turns are numbered by their created_at; the instant   *)
(* of a command is the number of turns created before it.  A revision is   *)
(* what it was made from.  When the next dream is due is left out, but     *)
(* whether one ever is, is not.  A batch is cut anywhere.                  *)
(***************************************************************************)
EXTENDS Naturals, Sequences, SequencesExt

CONSTANTS
  MaxTurn,          \* bound on the turns
  MaxDreamAttempts, \* max_attempts of the worker
  MaxCommands,      \* bound on /resetprofile and /regen
  MaxDreamFaults    \* bound on crashes and lost leases

ASSUME UserProfileAssumption ==
  /\ MaxTurn \in Nat /\ MaxCommands \in Nat /\ MaxDreamFaults \in Nat
  /\ MaxDreamAttempts \in Nat \ {0}

VARIABLES
  created,    \* number of turns so far
  completed,  \* those that are completed, in that order
  reading,    \* places in completed of what the coordinator has read and not projected yet
  evidence,   \* user_profile.evidence_events, the turn by event id
  lastEvent,  \* the sequence of event ids
  profile,    \* the row of user_profile.profiles
  considered, \* how often each turn was consolidated since the profile was last empty
  dream,      \* the row of user_profile.dreams that is not completed
  dreaming,   \* claims whose model call is under way
  dreamClaims,
  commands,
  dreamFaults

dreamVars == <<created, completed, reading, evidence, lastEvent, profile, considered, dream,
               dreaming, dreamClaims, commands, dreamFaults>>

Turns == 1 .. MaxTurn
NoProfile == [exists |-> FALSE, revision |-> 0, observed |-> 0, eligible |-> FALSE,
              forgotten |-> 0]
NoDream == [status |-> "none", id |-> <<0, 0, 0>>, version |-> 0, attempts |-> 0, token |-> 0]

UserProfileInit ==
  /\ created = 0 /\ completed = <<>> /\ reading = {}
  /\ evidence = <<>> /\ lastEvent = 0
  /\ profile = NoProfile /\ considered = [t \in Turns |-> 0]
  /\ dream = NoDream /\ dreaming = {} /\ dreamClaims = 0
  /\ commands = 0 /\ dreamFaults = 0

DreamFault == dreamFaults < MaxDreamFaults /\ dreamFaults' = dreamFaults + 1

----------------------------------------------------------------------------
(* Evidence *)

CreateTurn ==
  /\ created < MaxTurn
  /\ created' = created + 1
  /\ UNCHANGED <<completed, reading, evidence, lastEvent, profile, considered, dream, dreaming,
                 dreamClaims, commands, dreamFaults>>

CompleteTurn(t) ==
  /\ t <= created /\ t \notin ToSet(completed)
  /\ completed' = Append(completed, t)
  /\ UNCHANGED <<created, reading, evidence, lastEvent, profile, considered, dream, dreaming,
                 dreamClaims, commands, dreamFaults>>

Projected == {evidence[e] : e \in DOMAIN evidence}

Unprojected(t) == t \notin Projected /\ t > profile.forgotten

(* read_unprojected, in a transaction of its own *)
ReadSources ==
  /\ reading = {}
  /\ \E last \in DOMAIN completed :
       reading' = {i \in 1 .. last : Unprojected(completed[i])}
  /\ UNCHANGED <<created, completed, evidence, lastEvent, profile, considered, dream, dreaming,
                 dreamClaims, commands, dreamFaults>>

(* Mutant of Remembered: only the discovery looks at the boundary. *)
RememberedWhenRead(t) == TRUE

Remembered(t) == t > profile.forgotten

Insert(t) ==
  /\ lastEvent' = lastEvent + 1
  /\ evidence' = [e \in DOMAIN evidence \cup {lastEvent + 1} |->
                    IF e = lastEvent + 1 THEN t ELSE evidence[e]]

(* project_evidence: the boundary is looked at again under the lock, a     *)
(* turn is inserted once; only a profile without revision becomes eligible *)
(* by new evidence.                                                        *)
ProjectEvidence ==
  \E i \in reading :
    LET t == completed[i] IN
    /\ \A j \in reading : i <= j
    /\ reading' = reading \ {i}
    /\ IF Remembered(t)
         THEN profile' = [profile EXCEPT !.exists = TRUE, !.eligible = @ \/ profile.revision = 0]
         ELSE UNCHANGED profile
    /\ IF Remembered(t) /\ t \notin Projected THEN Insert(t) ELSE UNCHANGED <<lastEvent, evidence>>
    /\ UNCHANGED <<created, completed, considered, dream, dreaming, dreamClaims, commands,
                   dreamFaults>>

----------------------------------------------------------------------------
(* Dreams *)

Backlog(from) == {e \in DOMAIN evidence : e > from}

(* enqueue_eligible: the batch is what comes after the watermark, up to    *)
(* through; a dream that failed for good keeps its user from another.  The *)
(* identity of a dream is made from its baseline and its last event.       *)
EnqueueDream(through) ==
  /\ reading = {}
  /\ profile.exists /\ profile.eligible
  /\ through \in Backlog(profile.observed)
  /\ dream.status = "none"
  /\ dream' = [NoDream EXCEPT !.status = "pending",
                              !.id = <<profile.revision, profile.observed, through>>]
  /\ profile' = [profile EXCEPT !.eligible = FALSE]
  /\ UNCHANGED <<created, completed, reading, evidence, lastEvent, considered, dreaming,
                 dreamClaims, commands, dreamFaults>>

Sources(id) == {<<e, evidence[e]>> : e \in {e \in DOMAIN evidence : id[2] < e /\ e <= id[3]}}

ClaimDream ==
  /\ dream.status \in {"pending", "retry_wait"}
  /\ dreamClaims' = dreamClaims + 1
  /\ dream' = [dream EXCEPT !.status = "processing", !.version = @ + 1, !.attempts = @ + 1,
                            !.token = dreamClaims']
  /\ dreaming' = dreaming \cup {[activity |-> dream', sources |-> Sources(dream.id)]}
  /\ UNCHANGED <<created, completed, reading, evidence, lastEvent, profile, considered, commands,
                 dreamFaults>>

(* _require_current_claim, the token and the workload *)
OwnsDream(c) == dream = c.activity /\ Sources(dream.id) = c.sources

(* The revision and the watermark that the dream was made for. *)
BaselineStands(c) ==
  /\ profile.exists
  /\ profile.revision = c.activity.id[1] /\ profile.observed = c.activity.id[2]

(* Mutant of Watermark: everything projected so far counts as considered. *)
WatermarkOfAll(c) == lastEvent

Watermark(c) == c.activity.id[3]

(* complete_dream: with or without a new revision the watermark advances;  *)
(* the next dream is due now or after refresh_after.                       *)
CompleteDream(c, changed) ==
  /\ dreaming' = dreaming \ {c}
  /\ IF OwnsDream(c) /\ BaselineStands(c)
       THEN /\ profile' = [profile EXCEPT !.revision = IF changed THEN @ + 1 ELSE @,
                                          !.observed = Watermark(c), !.eligible = TRUE]
            /\ considered' = [t \in Turns |->
                 considered[t] + IF \E s \in c.sources : s[2] = t THEN 1 ELSE 0]
            /\ dream' = NoDream
       ELSE UNCHANGED <<profile, considered, dream>>
  /\ UNCHANGED <<created, completed, reading, evidence, lastEvent, dreamClaims, commands,
                 dreamFaults>>

Postponed == [dream EXCEPT !.status = "retry_wait", !.version = @ + 1, !.token = 0]
GivenUp == [dream EXCEPT !.status = "failed_final", !.version = @ + 1, !.token = 0]

(* _handle_failure: a failure that cannot be retried ends the dream. *)
DreamFails(c, retryable) ==
  /\ dreaming' = dreaming \ {c}
  /\ dream' = IF dream # c.activity THEN dream
              ELSE IF retryable /\ dream.attempts < MaxDreamAttempts THEN Postponed ELSE GivenUp
  /\ UNCHANGED <<created, completed, reading, evidence, lastEvent, profile, considered,
                 dreamClaims, commands, dreamFaults>>

(* The lease outlives an attempt; that it elapses while the attempt is     *)
(* still going on, or its settlement was not acknowledged, is a fault.     *)
RecoverDream ==
  /\ dream.status = "processing"
  /\ IF \E c \in dreaming : c.activity = dream THEN DreamFault ELSE UNCHANGED dreamFaults
  /\ dream' = IF dream.attempts < MaxDreamAttempts THEN Postponed ELSE GivenUp
  /\ UNCHANGED <<created, completed, reading, evidence, lastEvent, profile, considered, dreaming,
                 dreamClaims, commands>>

DreamCrash ==
  /\ DreamFault
  /\ reading' = {}
  /\ dreaming' = {}
  /\ UNCHANGED <<created, completed, evidence, lastEvent, profile, considered, dream, dreamClaims,
                 commands>>

----------------------------------------------------------------------------
(* Commands, carried out once, at or after the instant they were given: a  *)
(* command from before the last forgetting has no effect any more.         *)

ResetProfile(at) ==
  /\ commands < MaxCommands
  /\ commands' = commands + 1
  /\ IF profile.forgotten > at
       THEN UNCHANGED <<evidence, profile, considered, dream>>
       ELSE /\ profile' = [NoProfile EXCEPT !.exists = TRUE, !.forgotten = at]
            /\ considered' = [t \in Turns |-> 0]
            /\ dream' = NoDream
            /\ evidence' = [e \in {e \in DOMAIN evidence : evidence[e] > at} |-> evidence[e]]
  /\ UNCHANGED <<created, completed, reading, lastEvent, dreaming, dreamClaims, dreamFaults>>

Regenerate(at) ==
  /\ commands < MaxCommands
  /\ commands' = commands + 1
  /\ IF profile.forgotten > at
       THEN UNCHANGED <<profile, dream>>
       ELSE /\ profile' = [profile EXCEPT !.exists = TRUE, !.eligible = TRUE]
            /\ dream' = IF dream.status = "failed_final" THEN NoDream ELSE dream
  /\ UNCHANGED <<created, completed, reading, evidence, lastEvent, considered, dreaming,
                 dreamClaims, dreamFaults>>

----------------------------------------------------------------------------
UserProfileNext ==
  \/ CreateTurn \/ ReadSources \/ ProjectEvidence
  \/ \E t \in Turns : CompleteTurn(t)
  \/ \E through \in 1 .. lastEvent : EnqueueDream(through)
  \/ ClaimDream \/ RecoverDream \/ DreamCrash
  \/ \E c \in dreaming, b \in BOOLEAN : CompleteDream(c, b) \/ DreamFails(c, b)
  \/ \E at \in 0 .. created : ResetProfile(at) \/ Regenerate(at)

UserProfileSpec == UserProfileInit /\ [][UserProfileNext]_dreamVars

----------------------------------------------------------------------------
DreamRow == [status : {"none", "pending", "processing", "retry_wait", "failed_final"},
             id : Nat \X Nat \X Nat, version : Nat, attempts : Nat, token : Nat]

UserProfileTypeOK ==
  /\ created \in 0 .. MaxTurn
  /\ completed \in Seq(Turns) /\ reading \subseteq DOMAIN completed
  /\ considered \in [Turns -> Nat]
  /\ lastEvent \in Nat
  /\ DOMAIN evidence \subseteq 1 .. lastEvent
  /\ evidence \in [DOMAIN evidence -> Turns]
  /\ profile \in [exists : BOOLEAN, revision : Nat, observed : Nat, eligible : BOOLEAN,
                  forgotten : Nat]
  /\ dream \in DreamRow
  /\ dreaming \subseteq [activity : DreamRow, sources : SUBSET (Nat \X Turns)]
  /\ dreamClaims \in Nat /\ commands \in Nat /\ dreamFaults \in Nat

(* What was said up to a reset is neither evidence nor in the profile      *)
(* afterwards: not from a turn the coordinator had read before, nor from a *)
(* dream that was being dreamt, whose baseline, an empty profile, is the   *)
(* one a reset leaves (store.py:551, management.py:69).                    *)
ForgottenStays ==
  \A t \in Turns : t \in Projected \/ considered[t] > 0 => t > profile.forgotten

(* The evidence up to the watermark has been consolidated, each turn once, *)
(* and nothing else: retried, recovered and late dreams skip nothing and   *)
(* repeat nothing (store.py:592).                                          *)
Behind(t) == \E e \in DOMAIN evidence : e <= profile.observed /\ evidence[e] = t

EachEventOnce == \A t \in Turns : considered[t] = IF Behind(t) THEN 1 ELSE 0
=============================================================================
