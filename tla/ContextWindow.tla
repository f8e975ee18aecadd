---------------------------- MODULE ContextWindow ----------------------------
(***************************************************************************)
(* What one conversation shows the model: the projection of its rows       *)
(* (context_window/projection.py) with the cache of past projections       *)
(* (cache.py), the compaction of old rows into summaries and its worker    *)
(* (context_window.py, worker.py), and the import of a turn's attachment   *)
(* (workspace_attachment_preprocessor.py and its two stores) that makes a  *)
(* row visible.  Rows are counted instead of tokens.  One step is one      *)
(* transaction, or the code between two awaits.                            *)
(***************************************************************************)
EXTENDS Naturals, Sequences, FiniteSets, FiniteSetsExt

CONSTANTS
  MaxContextTurns,       \* bound on the turns
  MaxOpened,             \* bound on the turns accepted: the other turns never come
  Uploads,               \* the turns whose message carries a file
  Translations,          \* the turns that translate: their rows are kept out of the history
  WarningMessages,       \* ContextTokenBudget.warning_messages
  HardMessages,          \* ContextTokenBudget.hard_messages
  KeptRows,              \* minimum_recent_non_tool_messages
  SegmentRows,           \* segment_input_tokens, in rows
  ContextBudget,         \* FullJitterInferenceRetryPolicy.max_attempts
  MaxSummaryAttempts,    \* FullJitterCompactionRetryPolicy.max_attempts
  MaxTroubles            \* bound on resets, crashes, failures and leases that elapse in use

ASSUME ContextAssumption ==
  /\ {MaxContextTurns, KeptRows, SegmentRows, ContextBudget, MaxSummaryAttempts}
       \subseteq Nat \ {0}
  /\ WarningMessages \in Nat /\ HardMessages \in Nat /\ WarningMessages < HardMessages
  /\ MaxTroubles \in Nat /\ MaxOpened \in Nat
  /\ Uploads \subseteq 1 .. MaxContextTurns
  /\ Translations \subseteq (1 .. MaxContextTurns) \ Uploads

VARIABLES
  transcript,     \* conversation_messages: [turn, mark], row i has sequence i
  clears,         \* through_sequence of conversation_history_resets
  inferring,      \* inference_activities: [status, token, budget] of a turn
  imports,        \* [intent, native, receipt] of a turn: the two tables and the file
  compactions,    \* compaction_id :> [status, token, attempts, covers]
  windowCache,    \* the cache's slot of this conversation
  projecting,     \* the attempts of inference workers
  summarizing,    \* the claims that compaction workers hold: [id, token, attempts]
  troubles

contextVars == <<transcript, clears, inferring, imports, compactions, windowCache, projecting,
                 summarizing, troubles>>

tables == <<transcript, clears, inferring, imports>>

ContextTurns == 1 .. MaxContextTurns
OpenedTurns == {transcript[i].turn : i \in DOMAIN transcript}
OpenStatuses == {"pending", "processing", "retry"}
NoImport == [intent |-> FALSE, native |-> FALSE, receipt |-> FALSE]
NoCompaction == [floor |-> 0, from |-> 0, through |-> 0]
EmptySlot ==
  [floor |-> 0, checkpoint |-> NoCompaction, start |-> 0, history |-> TRUE, marks |-> <<>>]

ContextInit ==
  /\ transcript = <<>> /\ clears = {} /\ imports = [t \in ContextTurns |-> NoImport]
  /\ inferring = [t \in ContextTurns |-> [status |-> "none", token |-> 0, budget |-> 0]]
  /\ compactions = <<>> /\ windowCache = EmptySlot
  /\ projecting = {} /\ summarizing = {} /\ troubles = 0

RowsOf(t) == {i \in DOMAIN transcript : transcript[i].turn = t}
SourceRow(t) == Min(RowsOf(t))
(* The mark of a row without a file: exclude_from_assistant for a translation. *)
MarkOf(t) == IF t \in Translations THEN "excluded" ELSE "plain"
(* A row that the model may see: a file's only once it is imported. *)
Visible(mark) == mark \in {"plain", "imported"}
VisibleAmong(marks) == {i \in DOMAIN marks : Visible(marks[i])}
(* A claim token that no worker holds. *)
Fresh(held) == CHOOSE n \in 1 .. Cardinality(held) + 1 : n \notin {h.token : h \in held}

Trouble == troubles < MaxTroubles /\ troubles' = troubles + 1
-----------------------------------------------------------------------------
(* A message is accepted: its row, its turn and its activity together.  Turns *)
(* come in their order; a translation may be left out.                        *)
OpenTurn ==
  \E t \in ContextTurns \ OpenedTurns :
    /\ Cardinality(OpenedTurns) < MaxOpened /\ \A u \in OpenedTurns : u < t
    /\ \A u \in ContextTurns \ Translations : u < t => u \in OpenedTurns
    /\ transcript' = Append(transcript,
         [turn |-> t, mark |-> IF t \in Uploads THEN "pending" ELSE MarkOf(t)])
    /\ inferring' = [inferring EXCEPT ![t].status = "pending"]
    /\ UNCHANGED <<clears, imports, compactions, windowCache, projecting, summarizing,
                   troubles>>

(* A reset hides the rows so far and cancels what is still being answered. *)
ClearHistory ==
  /\ transcript # <<>> /\ Trouble
  /\ clears' = clears \cup {Len(transcript)}
  /\ inferring' = [t \in ContextTurns |->
       IF inferring[t].status \in OpenStatuses
       THEN [inferring[t] EXCEPT !.status = "cancelled", !.token = 0] ELSE inferring[t]]
  /\ UNCHANGED <<transcript, imports, compactions, windowCache, projecting, summarizing>>

(* What a worker knows at the start of an attempt. *)
Attempt(t, n) ==
  [turn |-> t, token |-> n, at |-> "bounds", first |-> 0, last |-> 0, floor |-> 0,
   checkpoint |-> NoCompaction, start |-> 0, marks |-> <<>>]

(* An activity is claimed once every earlier one of its conversation has ended. *)
ClaimTurn ==
  \E t \in OpenedTurns :
    /\ inferring[t].status \in {"pending", "retry"}
    /\ \A u \in ContextTurns : u < t => inferring[u].status \notin OpenStatuses
    /\ LET n == Fresh(projecting) IN
       /\ inferring' = [inferring EXCEPT ![t].status = "processing", ![t].token = n]
       /\ projecting' = projecting \cup {Attempt(t, n)}
    /\ UNCHANGED <<transcript, clears, imports, compactions, windowCache, summarizing,
                   troubles>>

LeaseKept(a) == inferring[a.turn].status = "processing" /\ inferring[a.turn].token = a.token

(* A lease that no worker holds elapses by itself; one in use, as a fault. *)
RecoverTurn ==
  \E t \in OpenedTurns :
    /\ inferring[t].status = "processing"
    /\ inferring' = [inferring EXCEPT ![t].status = "retry", ![t].token = 0]
    /\ \/ (\E a \in projecting : a.turn = t /\ LeaseKept(a)) /\ Trouble
       \/ ~(\E a \in projecting : a.turn = t /\ LeaseKept(a)) /\ UNCHANGED troubles
    /\ UNCHANGED <<transcript, clears, imports, compactions, windowCache, projecting,
                   summarizing>>

(* The process dies with its workers and its cache. *)
ContextCrash ==
  /\ Trouble /\ (projecting # {} \/ summarizing # {})
  /\ projecting' = {} /\ summarizing' = {} /\ windowCache' = EmptySlot
  /\ UNCHANGED <<tables, compactions>>

(* The slot's time to live has passed, or another conversation took its place. *)
CacheExpires ==
  /\ windowCache # EmptySlot /\ windowCache' = EmptySlot
  /\ UNCHANGED <<tables, compactions, projecting, summarizing, troubles>>

Becomes(a, b) == projecting' = (projecting \ {a}) \cup {b}
Goes(a, where) == Becomes(a, [a EXCEPT !.at = where])
-----------------------------------------------------------------------------
(* The sequences of the turn's rows, and the last reset before them. *)
ReadBounds(a) ==
  LET rows == RowsOf(a.turn) IN
  /\ a.at = "bounds"
  /\ Becomes(a, [a EXCEPT !.at = "checkpoint", !.first = Min(rows), !.last = Max(rows),
                          !.floor = Max({0} \cup {c \in clears : c < Min(rows)})])
  /\ UNCHANGED <<tables, compactions, windowCache, summarizing, troubles>>

(* The completed compaction of this epoch that reaches furthest before the turn. *)
Checkpoints(a) == {id \in DOMAIN compactions : /\ compactions[id].status = "completed"
                                               /\ id.floor = a.floor /\ id.through < a.first}
LatestCheckpoint(a) ==
  IF Checkpoints(a) = {} THEN NoCompaction
  ELSE CHOOSE id \in Checkpoints(a) : \A other \in Checkpoints(a) : other.through <= id.through

(* A translation reads its own rows and no summary. *)
CheckpointOf(a) == IF a.turn \in Translations THEN NoCompaction ELSE LatestCheckpoint(a)
StartAfter(a, id) ==
  IF a.turn \in Translations THEN a.first - 1
  ELSE IF id = NoCompaction THEN a.floor ELSE id.through

(* Mutant of CacheGet: where the rows of the slot begin is not looked at. *)
CacheGetAnyEpoch(a, id) ==
  IF /\ windowCache # EmptySlot /\ windowCache.checkpoint = id
     /\ windowCache.history = (a.turn \notin Translations)
     /\ Max(DOMAIN windowCache.marks) <= a.last
  THEN windowCache.marks ELSE <<>>

(* The rows that the cache has: of the same epoch, start, checkpoint and kind. *)
CacheGet(a, id) ==
  IF /\ windowCache # EmptySlot /\ windowCache.floor = a.floor
     /\ windowCache.start = StartAfter(a, id) /\ windowCache.checkpoint = id
     /\ windowCache.history = (a.turn \notin Translations)
     /\ Max(DOMAIN windowCache.marks) <= a.last
  THEN windowCache.marks ELSE <<>>

ReadCheckpoint(a) ==
  LET id == CheckpointOf(a) IN
  /\ a.at = "checkpoint"
  /\ Becomes(a, [a EXCEPT !.at = "rows", !.checkpoint = id, !.start = StartAfter(a, id),
                          !.marks = CacheGet(a, id)])
  /\ UNCHANGED <<tables, compactions, windowCache, summarizing, troubles>>

(* The rows after those of the cache, as one statement reads them.  One page *)
(* is enough for the rows of this model.                                     *)
MarksRead(a) ==
  [i \in DOMAIN a.marks \cup (Max({a.start} \cup DOMAIN a.marks) + 1) .. a.last |->
     IF i \in DOMAIN a.marks THEN a.marks[i] ELSE transcript[i].mark]

Messages(a) == Cardinality(VisibleAmong(a.marks)) + (IF a.checkpoint = NoCompaction THEN 0 ELSE 1)

(* A projection is cached unless one of its rows still waits for its file. *)
CacheReady(a) ==
  windowCache' =
    IF \E i \in DOMAIN a.marks : a.marks[i] = "pending" THEN windowCache
    ELSE [floor |-> a.floor, checkpoint |-> a.checkpoint, start |-> a.start,
          history |-> a.turn \notin Translations, marks |-> a.marks]

(* _validate_anchor: the row of a file must be pending or imported. *)
AfterProjection(a) ==
  IF a.turn \notin Uploads THEN "infer"
  ELSE IF a.marks[a.first] \in {"pending", "imported"} THEN "find" ELSE "fail"

(* A long history is looked after, a translation only refused when too long. *)
ReadRows(a) ==
  LET b == [a EXCEPT !.marks = MarksRead(a)]
      translates == a.turn \in Translations
  IN
  /\ a.at = "rows"
  /\ IF Messages(b) <= (IF translates THEN HardMessages ELSE WarningMessages)
     THEN CacheReady(b) /\ Becomes(a, [b EXCEPT !.at = AfterProjection(b)])
     ELSE /\ Becomes(a, [b EXCEPT !.at = IF translates THEN "fail" ELSE "active"])
          /\ UNCHANGED windowCache
  /\ UNCHANGED <<tables, compactions, summarizing, troubles>>
-----------------------------------------------------------------------------
(* The compaction of this epoch that is under way, if any. *)
Active(floor) == {id \in DOMAIN compactions : /\ id.floor = floor
                                              /\ compactions[id].status \in OpenStatuses}

(* The rows before the turn that stay: enough to make KeptRows messages. *)
TailStart(a) ==
  Max({a.start + 1} \cup {j \in a.start + 1 .. a.first :
         Cardinality({i \in VisibleAmong(a.marks) : i >= j}) >= KeptRows})

(* Nothing is summarized from a row on that still waits for its file. *)
CompactionStop(a) ==
  Min({TailStart(a)} \cup {j \in a.start + 1 .. TailStart(a) - 1 : a.marks[j] = "pending"})

(* Rows start + 1 .. k as one segment, with the summary before them. *)
SegmentLoad(a, k) ==
  Cardinality({i \in VisibleAmong(a.marks) : i <= k})
  + (IF a.checkpoint = NoCompaction THEN 0 ELSE 1)

Segments(a) ==
  {k \in a.start + 1 .. CompactionStop(a) - 1 : SegmentLoad(a, k) \in 1 .. SegmentRows}

Plan(a) ==
  IF Segments(a) = {} THEN NoCompaction
  ELSE [floor |-> a.floor, from |-> a.start + 1, through |-> Max(Segments(a))]

(* What the rest of the attempt does about a projection that is long. *)
Judge(a, id) ==
  IF Messages(a) > HardMessages
  THEN /\ Goes(a, IF id = NoCompaction THEN "fail" ELSE "wait") /\ UNCHANGED windowCache
  ELSE /\ CacheReady(a) /\ Goes(a, AfterProjection(a))

ReadActive(a) ==
  /\ a.at = "active"
  /\ IF Active(a.floor) # {} THEN \E id \in Active(a.floor) : Judge(a, id)
     ELSE IF Plan(a) = NoCompaction THEN Judge(a, NoCompaction)
     ELSE Goes(a, "enqueue") /\ UNCHANGED windowCache
  /\ UNCHANGED <<tables, compactions, summarizing, troubles>>

(* What the summary of a plan is made of: the predecessor's and its own rows. *)
CoversOf(a) ==
  {i \in VisibleAmong(a.marks) : i <= Plan(a).through}
  \cup (IF a.checkpoint = NoCompaction THEN {} ELSE compactions[a.checkpoint].covers)

(* Another compaction of the epoch under way is used as it is.  A plan whose  *)
(* id exists, failed for good included, has another created_at than that row  *)
(* and is refused for that: what project does about a failed one is not       *)
(* reached.                                                                   *)
EnqueueCompaction(a) ==
  /\ a.at = "enqueue"
  /\ \/ /\ Active(a.floor) \ {Plan(a)} # {}
        /\ \E id \in Active(a.floor) : Judge(a, id)
        /\ UNCHANGED compactions
     \/ /\ Active(a.floor) \subseteq {Plan(a)} /\ Plan(a) \in DOMAIN compactions
        /\ Goes(a, "retry") /\ UNCHANGED <<compactions, windowCache>>
     \/ /\ Active(a.floor) = {} /\ Plan(a) \notin DOMAIN compactions
        /\ compactions' = [id \in DOMAIN compactions \cup {Plan(a)} |->
             IF id = Plan(a)
             THEN [status |-> "pending", token |-> 0, attempts |-> 0, covers |-> CoversOf(a)]
             ELSE compactions[id]]
        /\ Judge(a, Plan(a))
  /\ UNCHANGED <<tables, summarizing, troubles>>
-----------------------------------------------------------------------------
(* The import of the turn's file.  With an intent on record its bytes are     *)
(* taken from there; else they are fetched from Telegram first, which may     *)
(* fail for now or for good.                                                  *)
FindIntent(a) ==
  /\ a.at = "find"
  /\ \E where \in IF imports[a.turn].intent THEN {"native"} ELSE {"prepare", "retry", "fail"} :
       /\ Goes(a, where)
       /\ where = "retry" => troubles < MaxTroubles
       /\ troubles' = troubles + (IF where = "retry" THEN 1 ELSE 0)
  /\ UNCHANGED <<tables, compactions, windowCache, summarizing>>

(* An intent may be written while the locked row still waits for its file. *)
MayPrepare(a) == transcript[SourceRow(a.turn)].mark = "pending"

(* What the file will be is written down before it is imported.  The claim is *)
(* not looked at.                                                             *)
PrepareIntent(a) ==
  /\ a.at = "prepare"
  /\ IF imports[a.turn].intent \/ MayPrepare(a)
     THEN imports' = [imports EXCEPT ![a.turn].intent = TRUE] /\ Goes(a, "native")
     ELSE UNCHANGED imports /\ Goes(a, "fail")
  /\ UNCHANGED <<transcript, clears, inferring, compactions, windowCache, summarizing,
                 troubles>>

(* wspctl imports the file or replays its receipt.  Whatever goes wrong now,  *)
(* the file there or not, is to be settled by a later attempt.                *)
ImportFile(a) ==
  /\ a.at = "native"
  /\ \/ /\ imports' = [imports EXCEPT ![a.turn].native = TRUE]
        /\ Goes(a, "record") /\ UNCHANGED troubles
     \/ /\ Trouble /\ Goes(a, "wait")
        /\ \/ imports' = [imports EXCEPT ![a.turn].native = TRUE]
           \/ UNCHANGED imports
  /\ UNCHANGED <<transcript, clears, inferring, compactions, windowCache, summarizing>>

(* The receipt and the mark that shows the row, in one transaction; the cache *)
(* forgets the conversation.  A row that has become unavailable is refused.   *)
RecordImport(a) ==
  LET row == SourceRow(a.turn) IN
  /\ a.at = "record"
  /\ IF transcript[row].mark = "unavailable"
     THEN Goes(a, "wait") /\ UNCHANGED <<transcript, imports, windowCache>>
     ELSE /\ transcript' = [transcript EXCEPT ![row].mark = "imported"]
          /\ imports' = [imports EXCEPT ![a.turn].receipt = TRUE]
          /\ windowCache' = EmptySlot /\ Goes(a, "infer")
  /\ UNCHANGED <<clears, inferring, compactions, summarizing, troubles>>
-----------------------------------------------------------------------------
(* The database or a provider fails an attempt: it is to be retried. *)
AttemptFails(a) ==
  /\ a.at \in {"bounds", "checkpoint", "rows", "active", "enqueue", "find", "prepare", "infer"}
  /\ Trouble /\ Goes(a, "retry")
  /\ UNCHANGED <<tables, compactions, windowCache, summarizing>>

(* The model answers, or refuses for good. *)
ModelAnswers(a) ==
  /\ a.at = "infer"
  /\ \E where \in {"reply", "fail"} : Goes(a, where)
  /\ UNCHANGED <<tables, compactions, windowCache, summarizing, troubles>>

EndsAttempt(a) == projecting' = projecting \ {a}

(* The reply is appended and the activity completed, if its claim is kept. *)
CommitReply(a) ==
  /\ a.at = "reply" /\ EndsAttempt(a)
  /\ IF LeaseKept(a)
     THEN /\ transcript' = Append(transcript, [turn |-> a.turn, mark |-> MarkOf(a.turn)])
          /\ inferring' = [inferring EXCEPT ![a.turn].status = "completed", ![a.turn].token = 0]
     ELSE UNCHANGED <<transcript, inferring>>
  /\ UNCHANGED <<clears, imports, compactions, windowCache, summarizing, troubles>>

BudgetUsed(a) == inferring[a.turn].budget + (IF a.at = "wait" THEN 0 ELSE 1)
GivesUp(a) == a.at = "fail" \/ (a.at = "retry" /\ BudgetUsed(a) >= ContextBudget)

(* A dependency is waited for without an end, anything else while budget lasts. *)
TryLater(a) ==
  /\ a.at \in {"wait", "retry"} /\ ~GivesUp(a) /\ EndsAttempt(a)
  /\ inferring' = IF LeaseKept(a)
       THEN [inferring EXCEPT ![a.turn] =
               [status |-> "retry", token |-> 0, budget |-> BudgetUsed(a)]]
       ELSE inferring
  /\ UNCHANGED <<transcript, clears, imports, compactions, windowCache, summarizing,
                 troubles>>

(* Mutant of MayHide: an import under way does not keep the row. *)
MayHideDuringImport(t) == ~imports[t].receipt

(* The trigger on the row: a file that has an intent is never given up. *)
MayHide(t) == ~imports[t].intent /\ ~imports[t].receipt

(* The failure is told in a row of its own, and a row that waits for its file *)
(* is hidden for good.  Where the trigger refuses that, the transaction rolls *)
(* back and the activity stays claimed until its lease elapses.               *)
FailTurn(a) ==
  LET row == SourceRow(a.turn)
      waits == transcript[row].mark = "pending"
      told == Append(transcript, [turn |-> a.turn, mark |-> MarkOf(a.turn)])
  IN
  /\ GivesUp(a) /\ EndsAttempt(a)
  /\ IF LeaseKept(a) /\ (waits => MayHide(a.turn))
     THEN /\ transcript' = IF waits THEN [told EXCEPT ![row].mark = "unavailable"] ELSE told
          /\ inferring' = [inferring EXCEPT ![a.turn] =
               [status |-> "failed", token |-> 0, budget |-> BudgetUsed(a)]]
     ELSE UNCHANGED <<transcript, inferring>>
  /\ UNCHANGED <<clears, imports, compactions, windowCache, summarizing, troubles>>
-----------------------------------------------------------------------------
(* Compaction workers: one summary per claim. *)
ClaimCompaction ==
  \E id \in DOMAIN compactions :
    /\ compactions[id].status \in {"pending", "retry"}
    /\ LET n == Fresh(summarizing)
           tries == compactions[id].attempts + 1
       IN
       /\ compactions' = [compactions EXCEPT ![id].status = "processing", ![id].token = n,
                                             ![id].attempts = tries]
       /\ summarizing' = summarizing \cup {[id |-> id, token |-> n, attempts |-> tries]}
    /\ UNCHANGED <<tables, windowCache, projecting, troubles>>

SummaryKept(c) == compactions[c.id].status = "processing" /\ compactions[c.id].token = c.token

(* A claim that was superseded changes nothing. *)
SettlesSummary(c, status) ==
  /\ summarizing' = summarizing \ {c}
  /\ compactions' = IF SummaryKept(c)
       THEN [compactions EXCEPT ![c.id].status = status, ![c.id].token = 0]
       ELSE compactions
  /\ UNCHANGED <<tables, windowCache, projecting>>

CompleteCompaction(c) == SettlesSummary(c, "completed") /\ UNCHANGED troubles

(* After the last attempt the summary is an extract of the rows. *)
SummaryFails(c) ==
  /\ Trouble
  /\ SettlesSummary(c, IF c.attempts >= MaxSummaryAttempts THEN "completed" ELSE "retry")

(* Rows that are not those of the plan end a compaction for good, at once. *)
FailCompaction(c) == Trouble /\ SettlesSummary(c, "failed")

RecoverCompaction ==
  \E id \in DOMAIN compactions :
    /\ compactions[id].status = "processing"
    /\ compactions' = [compactions EXCEPT ![id].status = "retry", ![id].token = 0]
    /\ \/ (\E c \in summarizing : c.id = id /\ SummaryKept(c)) /\ Trouble
       \/ ~(\E c \in summarizing : c.id = id /\ SummaryKept(c)) /\ UNCHANGED troubles
    /\ UNCHANGED <<tables, windowCache, projecting, summarizing>>
-----------------------------------------------------------------------------
ContextNext ==
  \/ OpenTurn \/ ClearHistory \/ ClaimTurn \/ RecoverTurn \/ ContextCrash \/ CacheExpires
  \/ \E a \in projecting :
       \/ ReadBounds(a) \/ ReadCheckpoint(a) \/ ReadRows(a) \/ ReadActive(a)
       \/ EnqueueCompaction(a) \/ FindIntent(a) \/ PrepareIntent(a) \/ ImportFile(a)
       \/ RecordImport(a) \/ AttemptFails(a) \/ ModelAnswers(a) \/ CommitReply(a)
       \/ TryLater(a) \/ FailTurn(a)
  \/ ClaimCompaction \/ RecoverCompaction
  \/ \E c \in summarizing : CompleteCompaction(c) \/ SummaryFails(c) \/ FailCompaction(c)

ContextSpec == ContextInit /\ [][ContextNext]_contextVars
-----------------------------------------------------------------------------
ContextTypeOK ==
  /\ \A i \in DOMAIN transcript :
       transcript[i] \in [turn : ContextTurns,
                          mark : {"plain", "excluded", "pending", "imported", "unavailable"}]
  /\ clears \subseteq Nat /\ troubles \in 0 .. MaxTroubles
  /\ \A t \in ContextTurns :
       /\ inferring[t].status \in OpenStatuses \cup {"none", "completed", "failed", "cancelled"}
       /\ inferring[t].budget \in 0 .. ContextBudget
  /\ \A a \in projecting : a.turn \in ContextTurns /\ a.first <= a.last

(* projection.py and cache.py: whatever was cached, summarized, reset or      *)
(* imported meanwhile, the model is shown every visible row of the epoch up   *)
(* to its turn, and none twice: what the summary does not tell is there.  A   *)
(* translation is shown none of them.  An attempt that lost its claim may see *)
(* more, and its answer is discarded.                                         *)
ContextIsWhole ==
  \A a \in projecting : a.at = "infer" /\ LeaseKept(a) =>
    LET row == SourceRow(a.turn)
        told == IF a.checkpoint = NoCompaction THEN {} ELSE compactions[a.checkpoint].covers
        seen == VisibleAmong(a.marks) \cup (IF a.turn \in Uploads THEN {row} ELSE {})
    IN
    /\ told \cap seen = {}
    /\ told \cup seen =
         IF a.turn \in Translations THEN {}
         ELSE {i \in 1 .. a.last : /\ Visible(transcript[i].mark)
                                  /\ \A c \in clears : c < row => c < i}

(* workspace_attachment_*.py and the triggers in schema.sql: a row shows its  *)
(* file exactly when a receipt says that it is there, and a file that a       *)
(* failed turn hides for good was never imported, nor may it be.              *)
FilesAreAccounted ==
  \A t \in Uploads \cap OpenedTurns :
    LET mark == transcript[SourceRow(t)].mark IN
    /\ (mark = "imported") = imports[t].receipt
    /\ imports[t].receipt => imports[t].native
    /\ imports[t].native => imports[t].intent
    /\ mark = "unavailable" => ~imports[t].intent
    /\ inferring[t].status = "completed" => mark = "imported"
    /\ inferring[t].status = "failed" => mark # "pending"
=============================================================================
