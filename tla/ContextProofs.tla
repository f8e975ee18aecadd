--------------------------- MODULE ContextProofs ----------------------------
(***************************************************************************)
(* What the model is shown and what becomes of a file, proved for any      *)
(* number of turns and workers, any budgets and any order of steps.        *)
(***************************************************************************)
EXTENDS ContextWindow, WellFoundedInduction, SequenceTheorems, FiniteSetTheorems, TLAPS

Marks == {"plain", "excluded", "pending", "imported", "unavailable"}

TranscriptRow == [turn : ContextTurns, mark : Marks]

TurnActivity ==
  [status : OpenStatuses \cup {"none", "completed", "failed", "cancelled"},
   token : Nat, budget : 0 .. ContextBudget]

CompactionIds == [floor : Nat, from : Nat, through : Nat]

Summaries == [status : OpenStatuses \cup {"completed", "failed"}, token : Nat, attempts : Nat,
              covers : SUBSET Nat]

(* The marks of some rows, by sequence. *)
MarkLists == UNION {[S -> Marks] : S \in SUBSET Nat}

Cache ==
  [floor : Nat, checkpoint : CompactionIds, start : Nat, history : BOOLEAN, marks : MarkLists]

Located == {"checkpoint", "rows", "active", "enqueue", "find", "prepare", "native", "record",
            "infer"}

Assembled == Located \ {"checkpoint", "rows"}

Attempts ==
  [turn : ContextTurns, token : Nat,
   at : Located \cup {"bounds", "reply", "fail", "wait", "retry"},
   first : Nat, last : Nat, floor : Nat, checkpoint : CompactionIds, start : Nat,
   marks : MarkLists]

Types ==
  /\ transcript \in Seq(TranscriptRow)
  /\ clears \in SUBSET (0 .. Len(transcript)) /\ troubles \in 0 .. MaxTroubles
  /\ inferring \in [ContextTurns -> TurnActivity]
  /\ imports \in [ContextTurns -> [intent : BOOLEAN, native : BOOLEAN, receipt : BOOLEAN]]
  /\ DOMAIN compactions \subseteq CompactionIds
  /\ compactions \in [DOMAIN compactions -> Summaries]
  /\ windowCache \in Cache
  /\ projecting \in SUBSET Attempts /\ IsFiniteSet(projecting)
  /\ summarizing \in SUBSET [id : CompactionIds, token : Nat, attempts : Nat]
  /\ IsFiniteSet(summarizing)

(* The last reset before a turn: where its epoch begins. *)
FloorOf(t) == Max({0} \cup {c \in clears : c < SourceRow(t)})

(* Only the row that opened the turn of an upload has a file. *)
RowTells(t, mark, opening) ==
  IF t \in Uploads /\ opening THEN mark \in {"pending", "imported", "unavailable"}
                              ELSE mark = MarkOf(t)

(* Turns are opened in their order, and their rows are marked as they are.   *)
TranscriptTells ==
  /\ \A t \in OpenedTurns, i \in DOMAIN transcript :
       i < SourceRow(t) => transcript[i].turn < t
  /\ \A t \in ContextTurns : \A i \in RowsOf(t) :
       RowTells(t, transcript[i].mark, i = SourceRow(t))

(* A turn under way has one row, and was not reset.  While one is processed,  *)
(* every earlier one has ended; and what still waits for its file belongs to *)
(* a turn under way, or is behind a reset.                                   *)
ActivitiesTell ==
  /\ \A t \in ContextTurns \ OpenedTurns :
       inferring[t].status = "none" /\ inferring[t].budget = 0 /\ imports[t] = NoImport
  /\ \A t \in ContextTurns : inferring[t].status \in OpenStatuses =>
       /\ t \in OpenedTurns /\ inferring[t].budget < ContextBudget
       /\ RowsOf(t) = {SourceRow(t)}
       /\ \A c \in clears : c < SourceRow(t)
  /\ \A t, u \in ContextTurns :
       inferring[t].status = "processing" /\ u < t => inferring[u].status \notin OpenStatuses
  /\ \A i \in DOMAIN transcript : transcript[i].mark = "pending" =>
       \/ inferring[transcript[i].turn].status \in OpenStatuses
       \/ \E c \in clears : i <= c

(* What an attempt has already done for the file of its turn. *)
ImportTells(a) ==
  /\ a.turn \in OpenedTurns /\ a.first <= a.last
  /\ a.at \in {"find", "prepare", "native", "record"} => a.turn \in Uploads
  /\ a.at \in {"native", "record"} => imports[a.turn].intent
  /\ a.at = "record" => imports[a.turn].native
  /\ a.at \in {"infer", "reply"} /\ a.turn \in Uploads =>
       transcript[SourceRow(a.turn)].mark = "imported"

(* Marks that were read may be behind the transcript in one way only: a file *)
(* that was waited for has come, or never will.                              *)
Agree(marks) ==
  \A i \in DOMAIN marks :
    /\ i \in DOMAIN transcript
    /\ marks[i] = transcript[i].mark \/ (marks[i] = "pending" /\ transcript[i].mark # "plain")

NonePending(marks) == \A i \in DOMAIN marks : marks[i] # "pending"

(* Where the rows that an attempt reads begin and end. *)
BoundsTell(a) ==
  /\ a.first = SourceRow(a.turn) /\ a.last \in RowsOf(a.turn) /\ a.floor = FloorOf(a.turn)
  /\ LeaseKept(a) => a.last = a.first

(* The rows of an attempt begin where its checkpoint ends, or at the epoch;  *)
(* those of a translation with its own.                                      *)
StartTells(a) ==
  /\ a.floor <= a.start /\ a.start < a.first
  /\ \/ a.turn \in Translations /\ a.checkpoint = NoCompaction /\ a.start + 1 = a.first
     \/ a.turn \notin Translations /\ a.checkpoint = NoCompaction /\ a.start = a.floor
     \/ /\ a.turn \notin Translations
        /\ a.checkpoint \in DOMAIN compactions /\ a.checkpoint # NoCompaction
        /\ a.checkpoint.floor = a.floor /\ a.checkpoint.through = a.start

(* What an attempt has read, by its stage. *)
AttemptTells(a) ==
  /\ a.at \in Located => BoundsTell(a)
  /\ a.at \in Located \ {"checkpoint"} => StartTells(a) /\ Agree(a.marks)
  /\ a.at = "rows" =>
       NonePending(a.marks) /\ \E n \in a.start .. a.last : DOMAIN a.marks = a.start + 1 .. n
  /\ a.at \in Assembled =>
       /\ DOMAIN a.marks = a.start + 1 .. a.last
       /\ LeaseKept(a) => \A i \in DOMAIN a.marks : i < a.first => a.marks[i] # "pending"
  /\ a.at \in {"active", "enqueue"} => a.turn \notin Translations
  /\ a.at = "enqueue" => Segments(a) # {}

(* A summary tells every visible row from the epoch's first to its last, and *)
(* none of them waits for a file.                                            *)
SummariesTell ==
  \A id \in DOMAIN compactions :
    /\ id.floor < id.through /\ id.through <= Len(transcript)
    /\ \A i \in id.floor + 1 .. id.through : transcript[i].mark # "pending"
    /\ compactions[id].covers =
         {i \in id.floor + 1 .. id.through : Visible(transcript[i].mark)}

SlotTells ==
  windowCache # EmptySlot =>
    /\ Agree(windowCache.marks) /\ NonePending(windowCache.marks)
    /\ \E n \in windowCache.start + 1 .. Len(transcript) :
         DOMAIN windowCache.marks = windowCache.start + 1 .. n

ContextInv ==
  /\ Types /\ TranscriptTells /\ ActivitiesTell /\ FilesAreAccounted
  /\ \A a \in projecting : ImportTells(a) /\ AttemptTells(a)
  /\ SummariesTell /\ SlotTells
-----------------------------------------------------------------------------
(* The least and the greatest of a set of numbers, and a token nobody has. *)

LEMMA MinOfNaturals ==
  ASSUME NEW S \in SUBSET Nat, S # {}
  PROVE  Min(S) \in S /\ \A y \in S : Min(S) <= y
<1> DEFINE R == {ss \in Nat \X Nat : ss[1] < ss[2]}
<1>1. IsWellFoundedOn(R, Nat)
  BY NatLessThanWellFounded DEF OpToRel
<1>2. PICK x \in S : \A y \in S : <<y, x>> \notin R
  BY <1>1, WFMin
<1>3. \A y \in S : x <= y
  <2> SUFFICES ASSUME NEW y \in S, y < x PROVE FALSE
    BY <1>2
  <2> QED
    BY <1>2
<1> QED
  BY <1>2, <1>3 DEF Min

LEMMA MaxOfNaturals ==
  ASSUME NEW n \in Nat, NEW S \in SUBSET (0 .. n), S # {}
  PROVE  Max(S) \in S /\ \A y \in S : y <= Max(S)
<1> DEFINE D == {n - s : s \in S}
<1>1. D \in SUBSET Nat /\ D # {}
  <2>1. \A s \in S : n - s \in Nat
    OBVIOUS
  <2> QED
    BY <2>1
<1>2. Min(D) \in D /\ \A d \in D : Min(D) <= d
  BY <1>1, MinOfNaturals
<1>3. PICK x \in S : Min(D) = n - x
  BY <1>2
<1>4. \A y \in S : x >= y
  <2> SUFFICES ASSUME NEW y \in S PROVE x >= y
    OBVIOUS
  <2>1. n - x <= n - y
    BY <1>2, <1>3
  <2> QED
    BY <2>1
<1> HIDE DEF D
<1>5. Max(S) \in S /\ \A y \in S : Max(S) >= y
  BY <1>4 DEF Max
<1> QED
  BY <1>5

LEMMA FreshIsNew ==
  ASSUME NEW held, IsFiniteSet(held), \A h \in held : h.token \in Nat
  PROVE  Fresh(held) \in Nat /\ \A h \in held : h.token # Fresh(held)
<1> DEFINE used == {h.token : h \in held}
           n == Cardinality(held)
<1>1. n \in Nat
  BY FS_CardinalityType
<1>2. IsFiniteSet(used) /\ Cardinality(used) <= n
  <2>1. [h \in held |-> h.token] \in Surjection(held, used)
    BY DEF Surjection
  <2> QED
    BY <2>1, FS_Surjection
<1>3. Cardinality(1 .. n + 1) = n + 1
  BY <1>1, FS_Interval
<1>4. ~(1 .. n + 1 \subseteq used)
  <2> SUFFICES ASSUME 1 .. n + 1 \subseteq used PROVE FALSE
    OBVIOUS
  <2>1. 1 .. n + 1 \in SUBSET used
    OBVIOUS
  <2>2. Cardinality(1 .. n + 1) <= Cardinality(used)
    BY <2>1, <1>2, FS_Subset
  <2>3. Cardinality(used) \in Nat
    BY <1>2, FS_CardinalityType
  <2> QED
    BY <1>1, <1>2, <1>3, <2>2, <2>3
<1>5. Fresh(held) \in 1 .. n + 1 /\ Fresh(held) \notin used
  BY <1>4 DEF Fresh
<1> QED
  BY <1>1, <1>5
-----------------------------------------------------------------------------
(* How a step may change what was read before it. *)

(* Rows are appended, and a file that is waited for comes or never will. *)
RowsGrow ==
  /\ transcript' \in Seq(TranscriptRow) /\ Len(transcript) <= Len(transcript')
  /\ \A i \in DOMAIN transcript :
       /\ transcript'[i].turn = transcript[i].turn
       /\ \/ transcript'[i].mark = transcript[i].mark
          \/ /\ transcript[i].mark = "pending"
             /\ transcript'[i].mark \in {"imported", "unavailable"}

ClearsGrow ==
  /\ clears \subseteq clears'
  /\ \A c \in clears' : c \in clears \/ c >= Len(transcript)

(* No step gives back a claim, an intent, a file or a compaction.  *)
NothingGivenBack ==
  /\ \A a \in projecting : LeaseKept(a)' => LeaseKept(a)
  /\ \A t \in ContextTurns :
       /\ imports[t].intent => imports'[t].intent
       /\ imports[t].native => imports'[t].native
  /\ DOMAIN compactions \subseteq DOMAIN compactions'

LEMMA SourceIsFirst ==
  ASSUME transcript \in Seq(TranscriptRow), NEW t \in OpenedTurns
  PROVE  /\ SourceRow(t) \in RowsOf(t) /\ SourceRow(t) \in DOMAIN transcript
         /\ SourceRow(t) \in Nat \ {0} /\ transcript[SourceRow(t)].turn = t
         /\ \A i \in RowsOf(t) : SourceRow(t) <= i
<1>1. RowsOf(t) \in SUBSET (Nat \ {0}) /\ RowsOf(t) # {}
  BY DEF RowsOf, OpenedTurns
<1>2. SourceRow(t) \in RowsOf(t) /\ \A i \in RowsOf(t) : SourceRow(t) <= i
  BY <1>1, MinOfNaturals DEF SourceRow
<1> QED
  BY <1>1, <1>2 DEF RowsOf

LEMMA SourceStays ==
  ASSUME transcript \in Seq(TranscriptRow), RowsGrow, NEW t \in OpenedTurns
  PROVE  t \in OpenedTurns' /\ SourceRow(t)' = SourceRow(t) /\ RowsOf(t) \subseteq RowsOf(t)'
<1>1. SourceRow(t) \in RowsOf(t) /\ \A i \in RowsOf(t) : SourceRow(t) <= i
  BY SourceIsFirst
<1>2. /\ DOMAIN transcript = 1 .. Len(transcript) /\ Len(transcript) \in Nat
      /\ DOMAIN transcript' = 1 .. Len(transcript') /\ Len(transcript') \in Nat
  BY DEF RowsGrow
<1>3. RowsOf(t) \subseteq RowsOf(t)'
  BY <1>2 DEF RowsGrow, RowsOf
<1>4. \A i \in RowsOf(t)' : SourceRow(t) <= i
  <2> SUFFICES ASSUME NEW i \in RowsOf(t)' PROVE SourceRow(t) <= i
    OBVIOUS
  <2>1. CASE i \in DOMAIN transcript
    BY <1>1, <2>1 DEF RowsOf, RowsGrow
  <2>2. CASE i \notin DOMAIN transcript
    BY <1>1, <1>2, <2>2 DEF RowsOf, RowsGrow
  <2> QED
    BY <2>1, <2>2
<1>5. SourceRow(t)' \in RowsOf(t)' /\ \A i \in RowsOf(t)' : SourceRow(t)' <= i
  <2>1. RowsOf(t)' \in SUBSET Nat /\ RowsOf(t)' # {}
    BY <1>1, <1>2, <1>3 DEF RowsOf
  <2> QED
    BY <2>1, MinOfNaturals DEF SourceRow
<1>6. t \in OpenedTurns'
  BY <1>1, <1>3 DEF RowsOf, OpenedTurns
<1>7. SourceRow(t) \in Nat /\ SourceRow(t)' \in Nat
  BY <1>1, <1>2, <1>5 DEF RowsOf
<1> QED
  BY <1>1, <1>3, <1>4, <1>5, <1>6, <1>7

LEMMA FloorStays ==
  ASSUME transcript \in Seq(TranscriptRow), RowsGrow, ClearsGrow, NEW t \in OpenedTurns,
         clears' \subseteq Nat
  PROVE  FloorOf(t)' = FloorOf(t)
<1>1. SourceRow(t)' = SourceRow(t) /\ SourceRow(t) \in DOMAIN transcript
  BY SourceStays, SourceIsFirst
<1>2. DOMAIN transcript = 1 .. Len(transcript) /\ Len(transcript) \in Nat
  OBVIOUS
<1>3. \A c : (c \in clears' /\ c < SourceRow(t)) <=> (c \in clears /\ c < SourceRow(t))
  <2>1. SourceRow(t) \in Nat /\ SourceRow(t) <= Len(transcript)
    BY <1>1, <1>2
  <2>2. \A c \in clears' : c \in clears \/ ~(c < SourceRow(t))
    BY <1>2, <2>1 DEF ClearsGrow
  <2> QED
    BY <2>2 DEF ClearsGrow
<1>4. {c \in clears' : c < SourceRow(t)'} = {c \in clears : c < SourceRow(t)}
  BY <1>1, <1>3
<1> QED
  BY <1>4 DEF FloorOf

LEMMA AgreeStays ==
  ASSUME transcript \in Seq(TranscriptRow), RowsGrow, NEW marks, Agree(marks)
  PROVE  Agree(marks)'
<1>1. DOMAIN transcript \subseteq DOMAIN transcript'
  BY DEF RowsGrow
<1> QED
  BY <1>1 DEF RowsGrow, Agree

LEMMA AttemptStays ==
  ASSUME Types, RowsGrow, ClearsGrow, NothingGivenBack, clears' \subseteq Nat,
         NEW a \in Attempts, LeaseKept(a)' => LeaseKept(a), a.turn \in OpenedTurns
  PROVE  /\ ImportTells(a) => ImportTells(a)'
         /\ AttemptTells(a) => AttemptTells(a)'
<1>1. transcript \in Seq(TranscriptRow) /\ a.turn \in OpenedTurns /\ a.turn \in ContextTurns
  BY DEF Types, Attempts
<1>2. /\ a.turn \in OpenedTurns' /\ SourceRow(a.turn)' = SourceRow(a.turn)
      /\ RowsOf(a.turn) \subseteq RowsOf(a.turn)' /\ FloorOf(a.turn)' = FloorOf(a.turn)
  BY <1>1, SourceStays, FloorStays
<1>3. transcript[SourceRow(a.turn)].mark = "imported"
        => transcript'[SourceRow(a.turn)].mark = "imported"
  BY <1>1, SourceIsFirst DEF RowsGrow
<1>4. ImportTells(a) => ImportTells(a)'
  BY <1>1, <1>2, <1>3 DEF ImportTells, NothingGivenBack
<1>5. BoundsTell(a) => BoundsTell(a)'
  BY <1>2 DEF BoundsTell
<1>6. StartTells(a) => StartTells(a)'
  BY DEF StartTells, NothingGivenBack
<1>7. Agree(a.marks) => Agree(a.marks)'
  BY <1>1, AgreeStays
<1>8. AttemptTells(a) => AttemptTells(a)'
  BY <1>5, <1>6, <1>7 DEF AttemptTells, NonePending
<1> QED
  BY <1>4, <1>8

LEMMA SummariesStay ==
  ASSUME transcript \in Seq(TranscriptRow), RowsGrow, UNCHANGED compactions, SummariesTell,
         DOMAIN compactions \subseteq CompactionIds
  PROVE  SummariesTell'
<1> SUFFICES ASSUME NEW id \in DOMAIN compactions
             PROVE  /\ id.through <= Len(transcript')
                    /\ \A i \in id.floor + 1 .. id.through : transcript'[i].mark # "pending"
                    /\ compactions[id].covers =
                         {i \in id.floor + 1 .. id.through : Visible(transcript'[i].mark)}
  BY DEF SummariesTell
<1>1. id.floor \in Nat /\ id.through \in Nat /\ id.through <= Len(transcript)
  BY DEF CompactionIds, SummariesTell
<1>2. \A i \in id.floor + 1 .. id.through : i \in DOMAIN transcript
  BY <1>1
<1>3. \A i \in id.floor + 1 .. id.through :
        transcript'[i].mark = transcript[i].mark /\ transcript[i].mark # "pending"
  BY <1>2 DEF SummariesTell, RowsGrow
<1>4. id.through <= Len(transcript')
  BY <1>1 DEF RowsGrow
<1> QED
  BY <1>3, <1>4 DEF SummariesTell

LEMMA SlotStays ==
  ASSUME transcript \in Seq(TranscriptRow), RowsGrow, SlotTells, windowCache \in Cache,
         windowCache' \in {windowCache, EmptySlot}
  PROVE  SlotTells'
<1> SUFFICES ASSUME windowCache' = windowCache, windowCache # EmptySlot PROVE SlotTells'
  BY DEF SlotTells
<1>1. Agree(windowCache.marks)'
  BY AgreeStays DEF SlotTells, Agree
<1>2. windowCache.start \in Nat /\ Len(transcript) \in Nat /\ Len(transcript') \in Nat
  BY DEF Cache, RowsGrow
<1>3. PICK n \in windowCache.start + 1 .. Len(transcript) :
        DOMAIN windowCache.marks = windowCache.start + 1 .. n
  BY DEF SlotTells
<1>4. n \in windowCache'.start + 1 .. Len(transcript')
  BY <1>2 DEF RowsGrow
<1> QED
  BY <1>1, <1>3, <1>4 DEF SlotTells, NonePending
-----------------------------------------------------------------------------
(* What keeps the invariant: no step changes more than the attempts it moves. *)

LEMMA InvStays ==
  ASSUME ContextInv, RowsGrow, ClearsGrow, NothingGivenBack,
         Types', TranscriptTells', ActivitiesTell', FilesAreAccounted',
         SummariesTell', SlotTells',
         \A b \in projecting' : b \in projecting \/ (ImportTells(b)' /\ AttemptTells(b)')
  PROVE  ContextInv'
<1>1. \A b \in projecting : ImportTells(b)' /\ AttemptTells(b)'
  <2> SUFFICES ASSUME NEW b \in projecting PROVE ImportTells(b)' /\ AttemptTells(b)'
    OBVIOUS
  <2>1. b \in Attempts /\ b.turn \in OpenedTurns /\ ImportTells(b) /\ AttemptTells(b)
    BY DEF ContextInv, Types, ImportTells
  <2>2. clears' \subseteq Nat
    BY DEF Types
  <2> QED
    BY <2>1, <2>2, AttemptStays DEF ContextInv, NothingGivenBack
<1> QED
  BY <1>1 DEF ContextInv

LEMMA TablesSame ==
  ASSUME ContextInv, UNCHANGED tables
  PROVE  /\ RowsGrow /\ ClearsGrow /\ TranscriptTells' /\ ActivitiesTell' /\ FilesAreAccounted'
         /\ \A a : LeaseKept(a)' = LeaseKept(a)
         /\ clears' \subseteq Nat
<1> USE DEF tables, ContextInv
<1>1. RowsGrow /\ ClearsGrow /\ clears' \subseteq Nat
  BY DEF RowsGrow, ClearsGrow, Types
<1>2. OpenedTurns' = OpenedTurns /\ \A t : RowsOf(t)' = RowsOf(t) /\ SourceRow(t)' = SourceRow(t)
  BY DEF OpenedTurns, RowsOf, SourceRow
<1>3. TranscriptTells' /\ ActivitiesTell'
  BY <1>2 DEF TranscriptTells, ActivitiesTell
<1>4. FilesAreAccounted'
  BY <1>2 DEF FilesAreAccounted
<1> QED
  BY <1>1, <1>3, <1>4 DEF LeaseKept

(* A step that reads or writes no table of the conversation. *)
LEMMA QuietStays ==
  ASSUME ContextInv, UNCHANGED tables, Types', SummariesTell', SlotTells',
         DOMAIN compactions \subseteq DOMAIN compactions',
         \A b \in projecting' : b \in projecting \/ (ImportTells(b) /\ AttemptTells(b))
  PROVE  ContextInv'
<1>1. /\ RowsGrow /\ ClearsGrow /\ TranscriptTells' /\ ActivitiesTell' /\ FilesAreAccounted'
      /\ \A a : LeaseKept(a)' = LeaseKept(a)
      /\ clears' \subseteq Nat
  BY TablesSame
<1>2. NothingGivenBack
  BY <1>1 DEF NothingGivenBack, tables
<1>3. ASSUME NEW b \in projecting', ImportTells(b), AttemptTells(b)
      PROVE  ImportTells(b)' /\ AttemptTells(b)'
  <2>1. b \in Attempts /\ b.turn \in OpenedTurns
    BY <1>3 DEF Types, ImportTells
  <2> QED
    BY <1>1, <1>2, <1>3, <2>1, AttemptStays DEF ContextInv
<1> QED
  BY <1>1, <1>2, <1>3, InvStays

LEMMA BecomesTyped ==
  ASSUME projecting \in SUBSET Attempts, IsFiniteSet(projecting), NEW a, NEW b \in Attempts,
         Becomes(a, b)
  PROVE  projecting' \in SUBSET Attempts /\ IsFiniteSet(projecting')
<1>1. IsFiniteSet(projecting \ {a})
  BY FS_RemoveElement
<1>2. IsFiniteSet((projecting \ {a}) \cup {b})
  BY <1>1, FS_AddElement
<1> QED
  BY <1>2 DEF Becomes

(* An attempt that goes on with what it has read. *)
LEMMA StageChanges ==
  ASSUME NEW a \in Attempts, ImportTells(a), AttemptTells(a),
         NEW where \in Assembled \cup {"reply", "fail", "wait", "retry"},
         where \in Assembled => a.at \in Assembled,
         where \in {"active", "enqueue"} => a.turn \notin Translations,
         where = "enqueue" => Segments(a) # {}
  PROVE  LET b == [a EXCEPT !.at = where] IN
         /\ b \in Attempts /\ AttemptTells(b) /\ LeaseKept(b) = LeaseKept(a)
         /\ b.turn = a.turn /\ b.at = where /\ b.first = a.first /\ b.last = a.last
<1> DEFINE b == [a EXCEPT !.at = where]
<1>1. /\ b.turn = a.turn /\ b.at = where /\ b.first = a.first /\ b.last = a.last
      /\ b.token = a.token /\ b.floor = a.floor /\ b.checkpoint = a.checkpoint
      /\ b.start = a.start /\ b.marks = a.marks
  BY DEF Attempts
<1>2. b \in Attempts
  BY DEF Attempts, Located, Assembled
<1> HIDE DEF b
<1>3. LeaseKept(b) = LeaseKept(a) /\ Segments(b) = Segments(a)
  BY <1>1 DEF LeaseKept, Segments, CompactionStop, TailStart, SegmentLoad
<1>4. AttemptTells(b)
  <2>1. CASE where \in Assembled
    <3>1. where \in Located \ {"checkpoint"} /\ where # "rows" /\ a.at \in Located \ {"checkpoint"}
      BY <2>1 DEF Assembled
    <3>2. BoundsTell(b) /\ StartTells(b)
      BY <1>1, <1>3, <3>1 DEF AttemptTells, BoundsTell, StartTells
    <3> QED
      BY <1>1, <1>3, <2>1, <3>1, <3>2 DEF AttemptTells
  <2>2. CASE where \notin Assembled
    BY <1>1, <2>2 DEF AttemptTells, Located, Assembled
  <2> QED
    BY <2>1, <2>2
<1> QED
  BY <1>1, <1>2, <1>3, <1>4 DEF b
-----------------------------------------------------------------------------
LEMMA ContextInvInit == ContextInit => ContextInv
<1> SUFFICES ASSUME ContextInit PROVE ContextInv
  OBVIOUS
<1> USE DEF ContextInit
<1>1. <<>> \in MarkLists
  <2>1. <<>> \in [{} -> Marks]
    OBVIOUS
  <2> QED
    BY <2>1 DEF MarkLists
<1>2. EmptySlot \in Cache
  BY <1>1 DEF EmptySlot, Cache, CompactionIds, NoCompaction
<1>3. inferring \in [ContextTurns -> TurnActivity]
  BY ContextAssumption DEF TurnActivity
<1>4. imports \in [ContextTurns -> [intent : BOOLEAN, native : BOOLEAN, receipt : BOOLEAN]]
  BY DEF NoImport
<1>5. transcript \in Seq(TranscriptRow) /\ DOMAIN transcript = {} /\ Len(transcript) = 0
  OBVIOUS
<1>6. DOMAIN compactions = {} /\ compactions \in [DOMAIN compactions -> Summaries]
  OBVIOUS
<1>7. IsFiniteSet({})
  BY FS_EmptySet
<1>8. 0 \in 0 .. MaxTroubles
  BY ContextAssumption
<1>9. clears \in SUBSET (0 .. Len(transcript))
  OBVIOUS
<1>10. Types
  <2>1. projecting \in SUBSET Attempts /\ IsFiniteSet(projecting)
    BY <1>7
  <2>2. summarizing \in SUBSET [id : CompactionIds, token : Nat, attempts : Nat]
        /\ IsFiniteSet(summarizing)
    BY <1>7
  <2>3. troubles \in 0 .. MaxTroubles /\ windowCache \in Cache
    BY <1>2, <1>8
  <2>4. DOMAIN compactions \subseteq CompactionIds
    BY <1>6
  <2> QED
    BY <1>3, <1>4, <1>5, <1>6, <1>9, <2>1, <2>2, <2>3, <2>4 DEF Types
<1>11. OpenedTurns = {}
  BY <1>5 DEF OpenedTurns
<1>12. TranscriptTells /\ FilesAreAccounted
  BY <1>5, <1>11 DEF TranscriptTells, FilesAreAccounted, RowsOf
<1>13. ActivitiesTell
  BY <1>5, <1>11 DEF ActivitiesTell, OpenStatuses
<1>14. SummariesTell /\ SlotTells
  BY <1>6 DEF SummariesTell, SlotTells
<1> QED
  BY <1>10, <1>12, <1>13, <1>14 DEF ContextInv
-----------------------------------------------------------------------------
(* What an attempt reads. *)

(* An attempt moves, and at most the slot changes with it. *)
LEMMA AttemptMoves ==
  ASSUME ContextInv, NEW a \in projecting, NEW b \in Attempts, Becomes(a, b),
         UNCHANGED <<tables, compactions, summarizing>>, troubles' \in 0 .. MaxTroubles,
         ImportTells(b), AttemptTells(b),
         \/ windowCache' \in {windowCache, EmptySlot}
         \/ windowCache' \in Cache /\ SlotTells'
  PROVE  ContextInv'
<1>1. projecting' \in SUBSET Attempts /\ IsFiniteSet(projecting')
  BY BecomesTyped DEF ContextInv, Types
<1>2. RowsGrow
  BY TablesSame DEF tables
<1>3. <<>> \in MarkLists
  <2>1. <<>> \in [{} -> Marks]
    OBVIOUS
  <2> QED
    BY <2>1 DEF MarkLists
<1>4. EmptySlot \in Cache
  BY <1>3 DEF EmptySlot, Cache, CompactionIds, NoCompaction
<1>5. windowCache' \in Cache /\ SlotTells'
  BY <1>2, <1>4, SlotStays DEF ContextInv, Types
<1>6. SummariesTell'
  BY <1>2, SummariesStay DEF ContextInv, Types
<1>7. Types'
  BY <1>1, <1>5 DEF ContextInv, Types, tables
<1>8. \A c \in projecting' : c \in projecting \/ (ImportTells(c) /\ AttemptTells(c))
  BY DEF Becomes
<1> QED
  BY <1>5, <1>6, <1>7, <1>8, QuietStays DEF tables

LEMMA ReadBoundsStep == ASSUME ContextInv, NEW a \in projecting, ReadBounds(a) PROVE ContextInv'
<1>1. /\ a \in Attempts /\ ImportTells(a) /\ a.turn \in OpenedTurns /\ a.turn \in ContextTurns
      /\ transcript \in Seq(TranscriptRow) /\ Len(transcript) \in Nat
      /\ clears \in SUBSET (0 .. Len(transcript))
  BY DEF ContextInv, Types, ImportTells, Attempts
<1> DEFINE rows == RowsOf(a.turn)
           b == [a EXCEPT !.at = "checkpoint", !.first = Min(rows), !.last = Max(rows),
                          !.floor = Max({0} \cup {c \in clears : c < Min(rows)})]
<1>2. Becomes(a, b) /\ UNCHANGED <<tables, compactions, windowCache, summarizing, troubles>>
  BY DEF ReadBounds
<1>3. Min(rows) = SourceRow(a.turn)
  BY DEF SourceRow
<1>4. Max({0} \cup {c \in clears : c < Min(rows)}) = FloorOf(a.turn)
  BY DEF FloorOf, SourceRow
<1>5. /\ Max(rows) \in rows /\ SourceRow(a.turn) <= Max(rows)
      /\ Max(rows) \in Nat /\ SourceRow(a.turn) \in Nat
  <2>1. rows \in SUBSET (0 .. Len(transcript)) /\ rows # {}
    BY <1>1, SourceIsFirst DEF RowsOf
  <2> QED
    BY <1>1, <2>1, SourceIsFirst, MaxOfNaturals
<1>6. FloorOf(a.turn) \in Nat
  <2> DEFINE S == {0} \cup {c \in clears : c < SourceRow(a.turn)}
  <2>1. 0 \in 0 .. Len(transcript)
    BY <1>1
  <2>2. S \in SUBSET (0 .. Len(transcript)) /\ S # {}
    BY <1>1, <2>1
  <2>3. FloorOf(a.turn) = Max(S)
    BY DEF FloorOf
  <2> HIDE DEF S
  <2>4. Max(S) \in S
    BY <1>1, <2>2, MaxOfNaturals
  <2>5. Max(S) \in 0 .. Len(transcript)
    BY <2>2, <2>4
  <2>6. Max(S) \in Nat
    BY <1>1, <2>5
  <2> QED
    BY <2>3, <2>6
<1>7. /\ b.turn = a.turn /\ b.at = "checkpoint" /\ b.first = SourceRow(a.turn)
      /\ b.last = Max(rows) /\ b.floor = FloorOf(a.turn) /\ b.token = a.token
      /\ b.checkpoint = a.checkpoint /\ b.start = a.start /\ b.marks = a.marks
  BY <1>1, <1>3, <1>4 DEF Attempts
<1>8. b \in Attempts
  BY <1>1, <1>3, <1>4, <1>5, <1>6 DEF Attempts, Located
<1> HIDE DEF b
<1>9. LeaseKept(b) => b.last = b.first
  <2> SUFFICES ASSUME LeaseKept(b) PROVE Max(rows) = SourceRow(a.turn)
    BY <1>7
  <2>1. inferring[a.turn].status \in OpenStatuses
    BY <1>7 DEF LeaseKept, OpenStatuses
  <2>2. rows = {SourceRow(a.turn)}
    BY <1>1, <2>1 DEF ContextInv, ActivitiesTell
  <2> QED
    BY <1>5, <2>2
<1>10. AttemptTells(b)
  BY <1>5, <1>7, <1>9 DEF AttemptTells, BoundsTell, Located, Assembled
<1>11. ImportTells(b)
  BY <1>1, <1>5, <1>7 DEF ImportTells
<1>12. troubles' \in 0 .. MaxTroubles
  BY <1>2 DEF ContextInv, Types
<1> HIDE DEF rows
<1> QED
  BY <1>2, <1>8, <1>10, <1>11, <1>12, AttemptMoves

LEMMA LatestIsOne ==
  ASSUME NEW a \in Attempts, DOMAIN compactions \subseteq CompactionIds
  PROVE  /\ CheckpointOf(a) \in Checkpoints(a) \cup {NoCompaction}
         /\ a.turn \in Translations => CheckpointOf(a) = NoCompaction
<1> SUFFICES ASSUME Checkpoints(a) # {} PROVE LatestCheckpoint(a) \in Checkpoints(a)
  BY DEF LatestCheckpoint, CheckpointOf
<1> DEFINE S == {id.through : id \in Checkpoints(a)}
<1>1. \A id \in Checkpoints(a) : id.through \in 0 .. a.first
  BY DEF Checkpoints, CompactionIds, Attempts
<1>2. S \in SUBSET (0 .. a.first) /\ S # {}
  BY <1>1
<1>3. a.first \in Nat
  BY DEF Attempts
<1> HIDE DEF S
<1>4. Max(S) \in S /\ \A n \in S : n <= Max(S)
  BY <1>2, <1>3, MaxOfNaturals
<1>5. \E id \in Checkpoints(a) : \A other \in Checkpoints(a) : other.through <= id.through
  BY <1>4 DEF S
<1> QED
  BY <1>5 DEF LatestCheckpoint

LEMMA EndOfInterval ==
  ASSUME NEW s \in Nat, NEW n \in Nat, s <= n
  PROVE  /\ Max({s} \cup s + 1 .. n) = n
         /\ s < n => Max(s + 1 .. n) = n
<1>1. {s} \cup s + 1 .. n \in SUBSET (0 .. n) /\ {s} \cup s + 1 .. n # {}
  OBVIOUS
<1>2. /\ Max({s} \cup s + 1 .. n) \in {s} \cup s + 1 .. n
      /\ \A y \in {s} \cup s + 1 .. n : y <= Max({s} \cup s + 1 .. n)
  BY <1>1, MaxOfNaturals
<1>3. n \in {s} \cup s + 1 .. n
  OBVIOUS
<1>4. Max({s} \cup s + 1 .. n) = n
  BY <1>1, <1>2, <1>3
<1>5. ASSUME s < n PROVE Max(s + 1 .. n) = n
  <2>1. s + 1 .. n \in SUBSET (0 .. n) /\ n \in s + 1 .. n
    BY <1>5
  <2>2. Max(s + 1 .. n) \in s + 1 .. n /\ \A y \in s + 1 .. n : y <= Max(s + 1 .. n)
    BY <2>1, MaxOfNaturals
  <2> QED
    BY <2>1, <2>2
<1> QED
  BY <1>4, <1>5

LEMMA ReadCheckpointStep ==
  ASSUME ContextInv, NEW a \in projecting, ReadCheckpoint(a)
  PROVE  ContextInv'
<1>1. /\ a \in Attempts /\ ImportTells(a) /\ AttemptTells(a) /\ a.at = "checkpoint"
      /\ a.turn \in OpenedTurns /\ transcript \in Seq(TranscriptRow) /\ windowCache \in Cache
      /\ DOMAIN compactions \subseteq CompactionIds
  BY DEF ContextInv, Types, ImportTells, ReadCheckpoint
<1>2. BoundsTell(a)
  BY <1>1 DEF AttemptTells, Located
<1> DEFINE id == CheckpointOf(a)
           marks == CacheGet(a, id)
           b == [a EXCEPT !.at = "rows", !.checkpoint = id, !.start = StartAfter(a, id),
                          !.marks = marks]
<1>3. Becomes(a, b) /\ UNCHANGED <<tables, compactions, windowCache, summarizing, troubles>>
  BY DEF ReadCheckpoint
<1>4. /\ a.first \in Nat /\ a.last \in Nat /\ a.floor \in Nat /\ a.first <= a.last
      /\ a.first = SourceRow(a.turn)
  BY <1>1, <1>2 DEF Attempts, ImportTells, BoundsTell
<1>5. id \in Checkpoints(a) \cup {NoCompaction} /\ (a.turn \in Translations => id = NoCompaction)
  BY <1>1, LatestIsOne
<1> HIDE DEF id
<1>6. a.floor < a.first
  <2>1. a.floor = Max({0} \cup {c \in clears : c < SourceRow(a.turn)})
    BY <1>2 DEF BoundsTell, FloorOf
  <2> DEFINE S == {0} \cup {c \in clears : c < SourceRow(a.turn)}
  <2>2. Len(transcript) \in Nat /\ clears \in SUBSET (0 .. Len(transcript))
    BY <1>1 DEF ContextInv, Types
  <2>3. 0 \in 0 .. Len(transcript)
    BY <2>2
  <2>4. S \in SUBSET (0 .. Len(transcript)) /\ S # {}
    BY <2>2, <2>3
  <2>5. \A c \in S : c < SourceRow(a.turn)
    BY <1>1, SourceIsFirst
  <2> HIDE DEF S
  <2>6. Max(S) \in S
    BY <2>2, <2>4, MaxOfNaturals
  <2>7. Max(S) < SourceRow(a.turn)
    BY <2>5, <2>6
  <2> QED
    BY <1>4, <2>1, <2>7 DEF S
<1>7. /\ id \in CompactionIds /\ StartAfter(a, id) \in Nat
      /\ a.floor <= StartAfter(a, id) /\ StartAfter(a, id) < a.first
      /\ \/ a.turn \in Translations /\ id = NoCompaction /\ StartAfter(a, id) + 1 = a.first
         \/ a.turn \notin Translations /\ id = NoCompaction /\ StartAfter(a, id) = a.floor
         \/ /\ a.turn \notin Translations /\ id \in DOMAIN compactions /\ id # NoCompaction
            /\ id.floor = a.floor /\ id.through = StartAfter(a, id)
  <2>1. CASE id = NoCompaction
    BY <1>4, <1>6, <2>1 DEF StartAfter, NoCompaction, CompactionIds
  <2>2. CASE id # NoCompaction
    <3>1. id \in DOMAIN compactions /\ id.floor = a.floor /\ id.through < a.first
      BY <1>5, <2>2 DEF Checkpoints
    <3>2. id \in CompactionIds /\ id.floor \in Nat /\ id.through \in Nat
      BY <1>1, <3>1 DEF CompactionIds
    <3>3. id.floor < id.through
      BY <3>1 DEF ContextInv, SummariesTell
    <3> QED
      BY <1>5, <2>2, <3>1, <3>2, <3>3 DEF StartAfter
  <2> QED
    BY <2>1, <2>2
<1>8. /\ marks \in MarkLists /\ Agree(marks) /\ NonePending(marks)
      /\ \E n \in StartAfter(a, id) .. a.last : DOMAIN marks = StartAfter(a, id) + 1 .. n
  <2>1. CASE marks = <<>>
    <3>1. <<>> \in [{} -> Marks] /\ DOMAIN marks = {}
      BY <2>1
    <3>2. marks \in MarkLists
      BY <2>1, <3>1 DEF MarkLists
    <3>3. DOMAIN marks = StartAfter(a, id) + 1 .. StartAfter(a, id)
      BY <1>7, <3>1
    <3>4. StartAfter(a, id) \in StartAfter(a, id) .. a.last
      BY <1>4, <1>7
    <3> QED
      BY <3>1, <3>2, <3>3, <3>4 DEF Agree, NonePending
  <2>2. CASE marks # <<>>
    <3>1. /\ marks = windowCache.marks /\ windowCache # EmptySlot
          /\ windowCache.start = StartAfter(a, id) /\ Max(DOMAIN windowCache.marks) <= a.last
      BY <2>2 DEF CacheGet
    <3>2. PICK n \in windowCache.start + 1 .. Len(transcript) :
            DOMAIN windowCache.marks = windowCache.start + 1 .. n
      BY <3>1 DEF ContextInv, SlotTells
    <3>3. n \in Nat /\ StartAfter(a, id) < n /\ Len(transcript) \in Nat
      BY <1>1, <1>7, <3>1, <3>2
    <3>4. n <= a.last
      BY <1>7, <3>1, <3>2, <3>3, EndOfInterval
    <3>5. n \in StartAfter(a, id) .. a.last
      BY <1>4, <1>7, <3>3, <3>4
    <3>6. marks \in MarkLists /\ Agree(marks) /\ NonePending(marks)
      BY <1>1, <3>1 DEF Cache, ContextInv, SlotTells
    <3> QED
      BY <3>1, <3>2, <3>5, <3>6
  <2> QED
    BY <2>1, <2>2
<1> HIDE DEF marks
<1>9. /\ b.turn = a.turn /\ b.at = "rows" /\ b.first = a.first /\ b.last = a.last
      /\ b.floor = a.floor /\ b.token = a.token /\ b.checkpoint = id
      /\ b.start = StartAfter(a, id) /\ b.marks = marks
  BY <1>1 DEF Attempts
<1>10. b \in Attempts
  BY <1>1, <1>7, <1>8 DEF Attempts, Located
<1> HIDE DEF b
<1>11. BoundsTell(b)
  BY <1>2, <1>9 DEF BoundsTell, LeaseKept
<1>12. StartTells(b)
  BY <1>7, <1>9 DEF StartTells
<1>13. AttemptTells(b)
  BY <1>8, <1>9, <1>11, <1>12 DEF AttemptTells, Assembled
<1>14. ImportTells(b)
  BY <1>1, <1>9 DEF ImportTells
<1>15. troubles' \in 0 .. MaxTroubles
  BY <1>3 DEF ContextInv, Types
<1> QED
  BY <1>3, <1>10, <1>13, <1>14, <1>15, AttemptMoves

(* A row before the turn that still waits for its file is behind a reset as *)
(* long as the claim is kept.                                               *)
LEMMA EarlierRowsSettled ==
  ASSUME ContextInv, NEW a \in projecting, BoundsTell(a), LeaseKept(a),
         NEW i \in DOMAIN transcript, a.floor < i, i < a.first
  PROVE  transcript[i].mark # "pending"
<1> SUFFICES ASSUME transcript[i].mark = "pending" PROVE FALSE
  OBVIOUS
<1>1. /\ a \in Attempts /\ a.turn \in OpenedTurns /\ a.turn \in ContextTurns
      /\ transcript \in Seq(TranscriptRow) /\ clears \in SUBSET (0 .. Len(transcript))
  BY DEF ContextInv, Types, ImportTells, Attempts
<1>0. /\ Len(transcript) \in Nat /\ DOMAIN transcript = 1 .. Len(transcript)
      /\ transcript[i].turn \in ContextTurns
  <2>1. transcript[i] \in TranscriptRow
    BY <1>1
  <2> QED
    BY <1>1, <2>1 DEF TranscriptRow
<1>2. transcript[i].turn < a.turn
  BY <1>0, <1>1 DEF ContextInv, TranscriptTells, BoundsTell
<1>3. inferring[transcript[i].turn].status \notin OpenStatuses
  BY <1>0, <1>1, <1>2 DEF ContextInv, ActivitiesTell, LeaseKept
<1>4. PICK c \in clears : i <= c
  BY <1>3 DEF ContextInv, ActivitiesTell
<1>5. c < SourceRow(a.turn)
  BY <1>1 DEF ContextInv, ActivitiesTell, LeaseKept, OpenStatuses
<1> DEFINE S == {0} \cup {d \in clears : d < SourceRow(a.turn)}
<1>6. c \in S /\ a.floor = Max(S)
  BY <1>5 DEF BoundsTell, FloorOf
<1>7. 0 \in 0 .. Len(transcript)
  BY <1>0
<1>8. S \in SUBSET (0 .. Len(transcript))
  BY <1>1, <1>7
<1> HIDE DEF S
<1>9. c <= Max(S) /\ Max(S) \in S
  BY <1>0, <1>6, <1>8, MaxOfNaturals
<1>10. c \in 0 .. Len(transcript) /\ Max(S) \in 0 .. Len(transcript)
  BY <1>1, <1>8, <1>9
<1>11. c \in Nat /\ Max(S) \in Nat /\ i \in Nat
  BY <1>0, <1>10
<1> QED
  BY <1>4, <1>6, <1>9, <1>11

LEMMA RowsAreRead ==
  ASSUME ContextInv, NEW a \in projecting, a.at = "rows"
  PROVE  /\ MarksRead(a) \in MarkLists /\ Agree(MarksRead(a))
         /\ DOMAIN MarksRead(a) = a.start + 1 .. a.last
         /\ LeaseKept(a) =>
              \A i \in DOMAIN MarksRead(a) : i < a.first => MarksRead(a)[i] # "pending"
<1>1. /\ a \in Attempts /\ AttemptTells(a) /\ transcript \in Seq(TranscriptRow)
      /\ a.start \in Nat /\ a.last \in Nat /\ a.first \in Nat /\ a.floor \in Nat
      /\ a.marks \in MarkLists
  BY DEF ContextInv, Types, Attempts
<1>2. BoundsTell(a) /\ StartTells(a) /\ Agree(a.marks) /\ NonePending(a.marks)
  BY <1>1 DEF AttemptTells, Located
<1>3. PICK n \in a.start .. a.last : DOMAIN a.marks = a.start + 1 .. n
  BY <1>1 DEF AttemptTells
<1>4. n \in Nat /\ a.start <= n /\ n <= a.last /\ a.start < a.first /\ a.floor <= a.start
  BY <1>1, <1>2, <1>3 DEF StartTells
<1>5. Max({a.start} \cup DOMAIN a.marks) = n
  BY <1>1, <1>3, <1>4, EndOfInterval
<1>6. DOMAIN a.marks \cup (n + 1) .. a.last = a.start + 1 .. a.last
  BY <1>1, <1>3, <1>4
<1> DEFINE m == [i \in a.start + 1 .. a.last |->
                   IF i \in DOMAIN a.marks THEN a.marks[i] ELSE transcript[i].mark]
<1>7. MarksRead(a) = m
  BY <1>5, <1>6 DEF MarksRead
<1>8. \A i \in a.start + 1 .. a.last : i \in DOMAIN transcript /\ i \in Nat
  <2>1. a.last \in DOMAIN transcript
    BY <1>2 DEF BoundsTell, RowsOf
  <2>2. DOMAIN transcript = 1 .. Len(transcript) /\ Len(transcript) \in Nat
    BY <1>1
  <2> QED
    BY <1>1, <2>1, <2>2
<1>9. \A i \in a.start + 1 .. a.last : transcript[i].mark \in Marks
  <2> SUFFICES ASSUME NEW i \in a.start + 1 .. a.last PROVE transcript[i].mark \in Marks
    OBVIOUS
  <2>1. transcript[i] \in TranscriptRow
    BY <1>1, <1>8
  <2> QED
    BY <2>1 DEF TranscriptRow
<1>10. \A i \in DOMAIN a.marks : a.marks[i] \in Marks
  BY <1>1 DEF MarkLists
<1>11. m \in [a.start + 1 .. a.last -> Marks]
  BY <1>9, <1>10
<1>12. m \in MarkLists
  <2>1. a.start + 1 .. a.last \in SUBSET Nat
    BY <1>8
  <2> QED
    BY <1>11, <2>1 DEF MarkLists
<1>13. Agree(m)
  BY <1>2, <1>8 DEF Agree
<1>14. ASSUME LeaseKept(a), NEW i \in DOMAIN m, i < a.first PROVE m[i] # "pending"
  <2>1. CASE i \in DOMAIN a.marks
    BY <1>2, <2>1 DEF NonePending
  <2>2. CASE i \notin DOMAIN a.marks
    <3>1. a.floor < i
      BY <1>1, <1>4, <1>8
    <3> QED
      BY <1>2, <1>8, <1>14, <2>2, <3>1, EarlierRowsSettled
  <2> QED
    BY <2>1, <2>2
<1> QED
  BY <1>7, <1>11, <1>12, <1>13, <1>14

(* What is cached waits for no file. *)
LEMMA CachedIsReady ==
  ASSUME NEW b \in Attempts, UNCHANGED transcript, transcript \in Seq(TranscriptRow),
         BoundsTell(b), StartTells(b), Agree(b.marks), b.first <= b.last,
         DOMAIN b.marks = b.start + 1 .. b.last, CacheReady(b)
  PROVE  windowCache' \in {windowCache} \/ (windowCache' \in Cache /\ SlotTells')
<1> DEFINE slot == [floor |-> b.floor, checkpoint |-> b.checkpoint, start |-> b.start,
                    history |-> b.turn \notin Translations, marks |-> b.marks]
<1> SUFFICES ASSUME windowCache' = slot, NonePending(b.marks)
             PROVE  windowCache' \in Cache /\ SlotTells'
  BY DEF CacheReady, NonePending
<1>1. /\ b.floor \in Nat /\ b.start \in Nat /\ b.first \in Nat /\ b.last \in Nat
      /\ b.checkpoint \in CompactionIds /\ b.marks \in MarkLists
  BY DEF Attempts
<1>2. slot \in Cache
  BY <1>1 DEF Cache
<1>3. b.last \in DOMAIN transcript /\ b.start < b.first
  BY DEF BoundsTell, RowsOf, StartTells
<1>4. b.last <= Len(transcript) /\ Len(transcript) \in Nat
  BY <1>3
<1>5. b.last \in b.start + 1 .. Len(transcript)
  BY <1>1, <1>3, <1>4
<1>6. Agree(b.marks)' /\ NonePending(b.marks)'
  BY DEF Agree, NonePending
<1> QED
  BY <1>2, <1>5, <1>6 DEF SlotTells, Agree, NonePending

LEMMA ReadRowsStep == ASSUME ContextInv, NEW a \in projecting, ReadRows(a) PROVE ContextInv'
<1>1. /\ a \in Attempts /\ ImportTells(a) /\ AttemptTells(a) /\ a.at = "rows"
      /\ transcript \in Seq(TranscriptRow) /\ UNCHANGED <<tables, compactions, summarizing>>
  BY DEF ContextInv, Types, ReadRows
<1>2. BoundsTell(a) /\ StartTells(a)
  BY <1>1 DEF AttemptTells, Located
<1>3. /\ MarksRead(a) \in MarkLists /\ Agree(MarksRead(a))
      /\ DOMAIN MarksRead(a) = a.start + 1 .. a.last
      /\ LeaseKept(a) =>
           \A i \in DOMAIN MarksRead(a) : i < a.first => MarksRead(a)[i] # "pending"
  BY <1>1, RowsAreRead
<1> DEFINE b == [a EXCEPT !.marks = MarksRead(a)]
<1>4. PICK where :
        /\ \/ where \in {"fail", AfterProjection(b)}
           \/ where = "active" /\ a.turn \notin Translations
        /\ Becomes(a, [b EXCEPT !.at = where])
        /\ windowCache' = windowCache \/ CacheReady(b)
  BY DEF ReadRows
<1>5. \/ where = "active" /\ a.turn \notin Translations
      \/ where = "fail" \/ (where = "find" /\ a.turn \in Uploads)
      \/ (where = "infer" /\ a.turn \notin Uploads)
  <2>1. b.turn = a.turn
    BY <1>1 DEF Attempts
  <2> QED
    BY <1>4, <2>1 DEF AfterProjection
<1>6. /\ b \in Attempts /\ b.turn = a.turn /\ b.at = "rows" /\ b.first = a.first
      /\ b.last = a.last /\ b.floor = a.floor /\ b.token = a.token
      /\ b.checkpoint = a.checkpoint /\ b.start = a.start /\ b.marks = MarksRead(a)
  BY <1>1, <1>3 DEF Attempts
<1>7. BoundsTell(b) /\ StartTells(b)
  BY <1>2, <1>6 DEF BoundsTell, StartTells, LeaseKept
<1> DEFINE d == [b EXCEPT !.at = where]
<1> HIDE DEF b
<1>8. /\ d.turn = a.turn /\ d.at = where /\ d.first = a.first
      /\ d.last = a.last /\ d.floor = a.floor /\ d.token = a.token
      /\ d.checkpoint = a.checkpoint /\ d.start = a.start /\ d.marks = MarksRead(a)
  BY <1>6 DEF Attempts
<1>9. d \in Attempts
  BY <1>5, <1>6 DEF Attempts, Located
<1> HIDE DEF d
<1>10. LeaseKept(d) = LeaseKept(a)
  BY <1>8 DEF LeaseKept
<1>11. BoundsTell(d) /\ StartTells(d)
  BY <1>2, <1>8, <1>10 DEF BoundsTell, StartTells
<1>12. AttemptTells(d)
  BY <1>3, <1>5, <1>8, <1>10, <1>11 DEF AttemptTells, Located, Assembled
<1>13. ImportTells(d)
  BY <1>1, <1>5, <1>8 DEF ImportTells
<1>14. windowCache' \in {windowCache} \/ (windowCache' \in Cache /\ SlotTells')
  BY <1>1, <1>3, <1>4, <1>6, <1>7, CachedIsReady DEF ImportTells, tables
<1>15. troubles' \in 0 .. MaxTroubles
  BY DEF ContextInv, Types, ReadRows
<1> QED
  BY <1>1, <1>4, <1>9, <1>12, <1>13, <1>14, <1>15, AttemptMoves DEF d

(* What a plan takes: rows before the turn, up to the first that waits. *)
LEMMA PlanTells ==
  ASSUME NEW a \in Attempts, StartTells(a), Segments(a) # {}
  PROVE  \E k \in Nat :
           /\ a.start < k /\ k < a.first
           /\ \A j \in a.start + 1 .. k : a.marks[j] # "pending"
           /\ Plan(a) = [floor |-> a.floor, from |-> a.start + 1, through |-> k]
<1>1. a.start \in Nat /\ a.first \in Nat /\ a.start < a.first
  BY DEF Attempts, StartTells
<1> DEFINE T == {a.start + 1} \cup {j \in a.start + 1 .. a.first :
                   Cardinality({i \in VisibleAmong(a.marks) : i >= j}) >= KeptRows}
<1>2. T \in SUBSET (0 .. a.first) /\ T # {} /\ T \subseteq a.start + 1 .. a.first
  BY <1>1
<1>3. TailStart(a) = Max(T)
  BY DEF TailStart
<1> HIDE DEF T
<1>4. Max(T) \in T
  BY <1>1, <1>2, MaxOfNaturals
<1>5. TailStart(a) \in a.start + 1 .. a.first
  BY <1>2, <1>3, <1>4
<1> DEFINE P == {TailStart(a)}
                  \cup {j \in a.start + 1 .. TailStart(a) - 1 : a.marks[j] = "pending"}
<1>6. P \in SUBSET Nat /\ P # {}
  BY <1>1, <1>5
<1>7. CompactionStop(a) = Min(P)
  BY DEF CompactionStop
<1>8. TailStart(a) \in P
        /\ \A j \in a.start + 1 .. TailStart(a) - 1 : a.marks[j] = "pending" => j \in P
  OBVIOUS
<1> HIDE DEF P
<1>9. CompactionStop(a) \in Nat /\ \A y \in P : CompactionStop(a) <= y
  <2>1. Min(P) \in P /\ \A y \in P : Min(P) <= y
    BY <1>6, MinOfNaturals
  <2>2. Min(P) \in Nat
    BY <1>6, <2>1
  <2> QED
    BY <1>7, <2>1, <2>2
<1>10. CompactionStop(a) <= a.first
  BY <1>1, <1>5, <1>8, <1>9
<1>11. /\ Segments(a) \in SUBSET (0 .. a.first)
       /\ Segments(a) \subseteq a.start + 1 .. CompactionStop(a) - 1
  BY <1>1, <1>9, <1>10 DEF Segments
<1> DEFINE k == Max(Segments(a))
<1>12. k \in Segments(a)
  BY <1>1, <1>11, MaxOfNaturals
<1> HIDE DEF k
<1>13. k \in Nat /\ a.start < k /\ k < CompactionStop(a)
  BY <1>1, <1>9, <1>11, <1>12
<1>14. ASSUME NEW j \in a.start + 1 .. k PROVE a.marks[j] # "pending"
  <2> SUFFICES ASSUME a.marks[j] = "pending" PROVE FALSE
    OBVIOUS
  <2>1. j \in Nat /\ j < CompactionStop(a) /\ CompactionStop(a) <= TailStart(a)
    BY <1>1, <1>8, <1>9, <1>13
  <2>2. j \in P
    BY <1>1, <1>5, <1>8, <1>9, <2>1
  <2> QED
    BY <1>9, <2>1, <2>2
<1>15. Plan(a) = [floor |-> a.floor, from |-> a.start + 1, through |-> k]
  BY DEF Plan, k
<1>16. k < a.first
  BY <1>1, <1>9, <1>10, <1>13
<1> QED
  BY <1>13, <1>14, <1>15, <1>16

(* A long projection is taken, waited for or refused. *)
LEMMA JudgeTells ==
  ASSUME ContextInv, NEW a \in projecting, a.at \in {"active", "enqueue"}, NEW id, Judge(a, id),
         UNCHANGED transcript
  PROVE  /\ \E b \in Attempts : Becomes(a, b) /\ ImportTells(b) /\ AttemptTells(b)
         /\ windowCache' \in {windowCache} \/ (windowCache' \in Cache /\ SlotTells')
<1>1. /\ a \in Attempts /\ ImportTells(a) /\ AttemptTells(a) /\ transcript \in Seq(TranscriptRow)
  BY DEF ContextInv, Types
<1>2. /\ BoundsTell(a) /\ StartTells(a) /\ Agree(a.marks)
      /\ DOMAIN a.marks = a.start + 1 .. a.last
  BY <1>1 DEF AttemptTells, Located, Assembled
<1>3. PICK where : /\ Goes(a, where)
                   /\ where \in {"fail", "wait", AfterProjection(a)}
                   /\ windowCache' = windowCache \/ CacheReady(a)
  BY DEF Judge
<1>4. \/ where \in {"fail", "wait"}
      \/ where = "find" /\ a.turn \in Uploads
      \/ where = "infer" /\ a.turn \notin Uploads
  BY <1>3 DEF AfterProjection
<1> DEFINE b == [a EXCEPT !.at = where]
<1>5. /\ b \in Attempts /\ AttemptTells(b) /\ b.turn = a.turn /\ b.at = where
      /\ b.first = a.first /\ b.last = a.last
  BY <1>1, <1>4, StageChanges DEF Assembled, Located
<1>6. Becomes(a, b)
  BY <1>3 DEF Goes
<1> HIDE DEF b
<1>7. ImportTells(b)
  BY <1>1, <1>4, <1>5 DEF ImportTells
<1>8. windowCache' \in {windowCache} \/ (windowCache' \in Cache /\ SlotTells')
  BY <1>1, <1>2, <1>3, CachedIsReady DEF ImportTells
<1> QED
  BY <1>5, <1>6, <1>7, <1>8

LEMMA ReadActiveStep == ASSUME ContextInv, NEW a \in projecting, ReadActive(a) PROVE ContextInv'
<1>1. /\ a \in Attempts /\ ImportTells(a) /\ AttemptTells(a) /\ a.at = "active"
      /\ UNCHANGED <<tables, compactions, summarizing>> /\ troubles' \in 0 .. MaxTroubles
  BY DEF ContextInv, Types, ReadActive
<1>2. CASE \E id : Judge(a, id)
  BY <1>1, <1>2, JudgeTells, AttemptMoves DEF tables
<1>3. CASE Segments(a) # {} /\ Goes(a, "enqueue") /\ UNCHANGED windowCache
  <2> DEFINE b == [a EXCEPT !.at = "enqueue"]
  <2>1. /\ b \in Attempts /\ AttemptTells(b) /\ b.turn = a.turn /\ b.at = "enqueue"
        /\ b.first = a.first /\ b.last = a.last
    <3>1. a.turn \notin Translations
      BY <1>1 DEF AttemptTells
    <3> QED
      BY <1>1, <1>3, <3>1, StageChanges DEF Assembled, Located
  <2>2. Becomes(a, b)
    BY <1>3 DEF Goes
  <2> HIDE DEF b
  <2>3. ImportTells(b)
    BY <1>1, <2>1 DEF ImportTells
  <2> QED
    BY <1>1, <1>3, <2>1, <2>2, <2>3, AttemptMoves
<1>4. \/ \E id : Judge(a, id)
      \/ Plan(a) # NoCompaction /\ Goes(a, "enqueue") /\ UNCHANGED windowCache
  BY DEF ReadActive
<1>5. Plan(a) # NoCompaction => Segments(a) # {}
  BY DEF Plan
<1> QED
  BY <1>2, <1>3, <1>4, <1>5

(* The summary of a plan will tell every visible row of the epoch so far. *)
LEMMA CoversTell ==
  ASSUME ContextInv, NEW a \in projecting, a.at = "enqueue"
  PROVE  /\ Plan(a) \in CompactionIds /\ Plan(a).floor < Plan(a).through
         /\ Plan(a).through <= Len(transcript)
         /\ \A i \in Plan(a).floor + 1 .. Plan(a).through : transcript[i].mark # "pending"
         /\ CoversOf(a) =
              {i \in Plan(a).floor + 1 .. Plan(a).through : Visible(transcript[i].mark)}
         /\ CoversOf(a) \in SUBSET Nat
<1>1. /\ a \in Attempts /\ ImportTells(a) /\ AttemptTells(a) /\ transcript \in Seq(TranscriptRow)
      /\ DOMAIN compactions \subseteq CompactionIds
  BY DEF ContextInv, Types
<1>2. /\ BoundsTell(a) /\ StartTells(a) /\ Agree(a.marks)
      /\ DOMAIN a.marks = a.start + 1 .. a.last /\ Segments(a) # {}
  BY <1>1 DEF AttemptTells, Located, Assembled
<1>3. PICK k \in Nat :
        /\ a.start < k /\ k < a.first
        /\ \A j \in a.start + 1 .. k : a.marks[j] # "pending"
        /\ Plan(a) = [floor |-> a.floor, from |-> a.start + 1, through |-> k]
  BY <1>1, <1>2, PlanTells
<1>4. /\ a.floor \in Nat /\ a.start \in Nat /\ a.first \in Nat /\ a.last \in Nat
      /\ a.floor <= a.start /\ a.first <= a.last
  BY <1>1, <1>2 DEF Attempts, StartTells, ImportTells
<1>5. a.last \in Nat /\ a.last <= Len(transcript) /\ Len(transcript) \in Nat
  BY <1>1, <1>2 DEF BoundsTell, RowsOf
<1>6. Plan(a) \in CompactionIds /\ Plan(a).floor = a.floor /\ Plan(a).through = k
  BY <1>3, <1>4 DEF CompactionIds
<1>7. \A i \in a.start + 1 .. k :
        /\ i \in Nat /\ i \in DOMAIN a.marks
        /\ a.marks[i] = transcript[i].mark /\ transcript[i].mark # "pending"
  <2>1. \A i \in a.start + 1 .. k : i \in Nat /\ i \in DOMAIN a.marks
    BY <1>2, <1>3, <1>4
  <2> QED
    BY <1>2, <1>3, <2>1 DEF Agree
<1> DEFINE told == IF a.checkpoint = NoCompaction THEN {} ELSE compactions[a.checkpoint].covers
<1>8. /\ \A i \in a.floor + 1 .. a.start : transcript[i].mark # "pending"
      /\ told = {i \in a.floor + 1 .. a.start : Visible(transcript[i].mark)}
  <2>1. CASE a.checkpoint = NoCompaction /\ a.start = a.floor
    BY <1>4, <2>1
  <2>2. CASE /\ a.checkpoint \in DOMAIN compactions /\ a.checkpoint # NoCompaction
             /\ a.checkpoint.floor = a.floor /\ a.checkpoint.through = a.start
    BY <2>2 DEF ContextInv, SummariesTell
  <2>3. a.turn \notin Translations
    BY <1>1 DEF AttemptTells
  <2> QED
    BY <1>2, <2>1, <2>2, <2>3 DEF StartTells
<1>9. {i \in VisibleAmong(a.marks) : i <= k} =
        {i \in a.start + 1 .. k : Visible(transcript[i].mark)}
  <2>1. \A i : i \in a.start + 1 .. k <=> (i \in DOMAIN a.marks /\ i <= k)
    BY <1>2, <1>3, <1>4
  <2>2. \A i : i \in {j \in VisibleAmong(a.marks) : j <= k}
                 <=> (i \in a.start + 1 .. k /\ Visible(a.marks[i]))
    BY <2>1 DEF VisibleAmong
  <2> QED
    BY <1>7, <2>2
<1>10. CoversOf(a) = {i \in VisibleAmong(a.marks) : i <= k} \cup told
  BY <1>6 DEF CoversOf
<1> HIDE DEF told
<1>11. a.floor + 1 .. k = (a.floor + 1 .. a.start) \cup (a.start + 1 .. k)
  BY <1>3, <1>4
<1>12. CoversOf(a) = {i \in a.floor + 1 .. k : Visible(transcript[i].mark)}
  BY <1>8, <1>9, <1>10, <1>11
<1>13. CoversOf(a) \in SUBSET Nat
  BY <1>4, <1>12
<1>14. \A i \in a.floor + 1 .. k : transcript[i].mark # "pending"
  BY <1>7, <1>8, <1>11
<1>15. a.floor < k /\ k <= Len(transcript)
  BY <1>3, <1>4, <1>5
<1> QED
  BY <1>6, <1>12, <1>13, <1>14, <1>15

LEMMA EnqueueStep ==
  ASSUME ContextInv, NEW a \in projecting, EnqueueCompaction(a)
  PROVE  ContextInv'
<1>1. /\ a \in Attempts /\ ImportTells(a) /\ AttemptTells(a) /\ a.at = "enqueue"
      /\ UNCHANGED <<tables, summarizing>> /\ troubles' \in 0 .. MaxTroubles
  BY DEF ContextInv, Types, EnqueueCompaction
<1>2. CASE (\E id : Judge(a, id)) /\ UNCHANGED compactions
  BY <1>1, <1>2, JudgeTells, AttemptMoves DEF tables
<1>3. CASE Goes(a, "retry") /\ UNCHANGED <<compactions, windowCache>>
  <2> DEFINE b == [a EXCEPT !.at = "retry"]
  <2>1. /\ b \in Attempts /\ AttemptTells(b) /\ b.turn = a.turn /\ b.at = "retry"
        /\ b.first = a.first /\ b.last = a.last
    BY <1>1, StageChanges DEF Assembled, Located
  <2>2. Becomes(a, b)
    BY <1>3 DEF Goes
  <2> HIDE DEF b
  <2>3. ImportTells(b)
    BY <1>1, <2>1 DEF ImportTells
  <2> QED
    BY <1>1, <1>3, <2>1, <2>2, <2>3, AttemptMoves
<1>4. CASE /\ Plan(a) \notin DOMAIN compactions
           /\ compactions' = [id \in DOMAIN compactions \cup {Plan(a)} |->
                IF id = Plan(a)
                THEN [status |-> "pending", token |-> 0, attempts |-> 0, covers |-> CoversOf(a)]
                ELSE compactions[id]]
           /\ Judge(a, Plan(a))
  <2>1. PICK b \in Attempts : Becomes(a, b) /\ ImportTells(b) /\ AttemptTells(b)
    BY <1>1, <1>4, JudgeTells DEF tables
  <2>2. windowCache' \in {windowCache} \/ (windowCache' \in Cache /\ SlotTells')
    BY <1>1, <1>4, JudgeTells DEF tables
  <2>3. /\ Plan(a) \in CompactionIds /\ Plan(a).floor < Plan(a).through
        /\ Plan(a).through <= Len(transcript)
        /\ \A i \in Plan(a).floor + 1 .. Plan(a).through : transcript[i].mark # "pending"
        /\ CoversOf(a) =
             {i \in Plan(a).floor + 1 .. Plan(a).through : Visible(transcript[i].mark)}
        /\ CoversOf(a) \in SUBSET Nat
    BY <1>1, CoversTell
  <2>4. RowsGrow /\ transcript \in Seq(TranscriptRow) /\ windowCache \in Cache /\ SlotTells
    BY <1>1, TablesSame DEF ContextInv, Types
  <2>5. windowCache' \in Cache /\ SlotTells'
    BY <2>2, <2>4, SlotStays
  <2> DEFINE new == [status |-> "pending", token |-> 0, attempts |-> 0, covers |-> CoversOf(a)]
  <2>6. new \in Summaries /\ new.covers = CoversOf(a)
    BY <2>3 DEF Summaries, OpenStatuses
  <2>7. /\ DOMAIN compactions' = DOMAIN compactions \cup {Plan(a)} /\ compactions'[Plan(a)] = new
        /\ \A id \in DOMAIN compactions : compactions'[id] = compactions[id]
    BY <1>4
  <2> HIDE DEF new
  <2>8. /\ DOMAIN compactions' \subseteq CompactionIds
        /\ compactions' \in [DOMAIN compactions' -> Summaries]
    BY <1>4, <2>3, <2>6 DEF ContextInv, Types, new
  <2>9. SummariesTell'
    <3>1. UNCHANGED transcript
      BY <1>1 DEF tables
    <3> QED
      BY <2>3, <2>6, <2>7, <3>1 DEF ContextInv, SummariesTell
  <2>10. projecting' \in SUBSET Attempts /\ IsFiniteSet(projecting')
    BY <2>1, BecomesTyped DEF ContextInv, Types
  <2>11. Types'
    BY <1>1, <2>5, <2>8, <2>10 DEF ContextInv, Types, tables
  <2>12. \A c \in projecting' : c \in projecting \/ (ImportTells(c) /\ AttemptTells(c))
    BY <2>1 DEF Becomes
  <2> QED
    BY <1>1, <2>5, <2>7, <2>9, <2>11, <2>12, QuietStays DEF tables
<1> QED
  BY <1>2, <1>3, <1>4 DEF EnqueueCompaction

(* An attempt that only goes on: to look for a file, to answer, to give up. *)
LEMMA StageSteps ==
  ASSUME ContextInv, NEW a \in projecting,
         FindIntent(a) \/ AttemptFails(a) \/ ModelAnswers(a)
  PROVE  ContextInv'
<1>1. /\ a \in Attempts /\ ImportTells(a) /\ AttemptTells(a)
      /\ UNCHANGED <<tables, compactions, windowCache, summarizing>>
      /\ troubles \in 0 .. MaxTroubles
  BY DEF ContextInv, Types, FindIntent, AttemptFails, ModelAnswers
<1>2. MaxTroubles \in Nat
  BY ContextAssumption
<1>3. troubles' \in 0 .. MaxTroubles
  <2>1. CASE FindIntent(a)
    <3>1. \/ troubles' = troubles + 0
          \/ troubles < MaxTroubles /\ troubles' = troubles + 1
      BY <2>1 DEF FindIntent
    <3> QED
      BY <1>1, <1>2, <3>1
  <2>2. CASE AttemptFails(a) \/ ModelAnswers(a)
    BY <1>1, <1>2, <2>2 DEF AttemptFails, ModelAnswers, Trouble
  <2> QED
    BY <2>1, <2>2
<1>4. PICK where :
        /\ Goes(a, where)
        /\ \/ where \in {"prepare", "retry", "fail"} /\ a.at = "find"
           \/ where = "native" /\ a.at = "find" /\ imports[a.turn].intent
           \/ where = "retry"
           \/ where \in {"reply", "fail"} /\ a.at = "infer"
  BY DEF FindIntent, AttemptFails, ModelAnswers
<1> DEFINE b == [a EXCEPT !.at = where]
<1>5. /\ b \in Attempts /\ AttemptTells(b) /\ b.turn = a.turn /\ b.at = where
      /\ b.first = a.first /\ b.last = a.last
  BY <1>1, <1>4, StageChanges DEF Assembled, Located
<1>6. Becomes(a, b)
  BY <1>4 DEF Goes
<1> HIDE DEF b
<1>7. ImportTells(b)
  BY <1>1, <1>4, <1>5 DEF ImportTells
<1> QED
  BY <1>1, <1>3, <1>5, <1>6, <1>7, AttemptMoves
-----------------------------------------------------------------------------
(* Compaction workers, and what goes away with the process. *)

(* A compaction whose state changes tells the same rows. *)
LEMMA SummaryMoves ==
  ASSUME NEW id \in DOMAIN compactions, NEW status \in OpenStatuses \cup {"completed", "failed"},
         NEW n \in Nat, NEW tries \in Nat,
         compactions \in [DOMAIN compactions -> Summaries],
         compactions' = [compactions EXCEPT ![id].status = status, ![id].token = n,
                                            ![id].attempts = tries]
  PROVE  /\ DOMAIN compactions' = DOMAIN compactions
         /\ compactions' \in [DOMAIN compactions' -> Summaries]
         /\ \A k \in DOMAIN compactions : compactions'[k].covers = compactions[k].covers
<1>1. compactions[id] \in Summaries
  OBVIOUS
<1> DEFINE new == [compactions[id] EXCEPT !.status = status, !.token = n, !.attempts = tries]
<1>2. new \in Summaries /\ new.covers = compactions[id].covers
  BY <1>1 DEF Summaries
<1>3. compactions' = [compactions EXCEPT ![id] = new]
  OBVIOUS
<1> HIDE DEF new
<1> QED
  BY <1>2, <1>3

LEMMA SummarySteps ==
  ASSUME ContextInv,
         \/ ClaimCompaction \/ RecoverCompaction
         \/ \E c \in summarizing : CompleteCompaction(c) \/ SummaryFails(c) \/ FailCompaction(c)
  PROVE  ContextInv'
<1>1. /\ compactions \in [DOMAIN compactions -> Summaries]
      /\ DOMAIN compactions \subseteq CompactionIds /\ transcript \in Seq(TranscriptRow)
      /\ summarizing \in SUBSET [id : CompactionIds, token : Nat, attempts : Nat]
      /\ IsFiniteSet(summarizing) /\ troubles \in 0 .. MaxTroubles /\ MaxTroubles \in Nat
  BY ContextAssumption DEF ContextInv, Types
<1>2. UNCHANGED <<tables, windowCache, projecting>>
  BY DEF ClaimCompaction, RecoverCompaction, CompleteCompaction, SummaryFails, FailCompaction,
         SettlesSummary
<1>3. /\ DOMAIN compactions' = DOMAIN compactions
      /\ compactions' \in [DOMAIN compactions' -> Summaries]
      /\ \A k \in DOMAIN compactions : compactions'[k].covers = compactions[k].covers
      /\ summarizing' \in SUBSET [id : CompactionIds, token : Nat, attempts : Nat]
      /\ IsFiniteSet(summarizing') /\ troubles' \in 0 .. MaxTroubles
  <2>1. CASE ClaimCompaction
    <3>1. PICK id \in DOMAIN compactions :
            LET n == Fresh(summarizing)
                tries == compactions[id].attempts + 1
            IN
            /\ compactions' = [compactions EXCEPT ![id].status = "processing", ![id].token = n,
                                                  ![id].attempts = tries]
            /\ summarizing' = summarizing \cup {[id |-> id, token |-> n, attempts |-> tries]}
      BY <2>1 DEF ClaimCompaction
    <3> DEFINE n == Fresh(summarizing)
               tries == compactions[id].attempts + 1
    <3>2. n \in Nat
      BY <1>1, FreshIsNew
    <3>3. tries \in Nat
      <4>1. compactions[id] \in Summaries
        BY <1>1
      <4> QED
        BY <4>1 DEF Summaries
    <3>4. /\ compactions' = [compactions EXCEPT ![id].status = "processing", ![id].token = n,
                                                ![id].attempts = tries]
          /\ summarizing' = summarizing \cup {[id |-> id, token |-> n, attempts |-> tries]}
      BY <3>1
    <3> HIDE DEF n, tries
    <3>5. IsFiniteSet(summarizing')
      BY <1>1, <3>4, FS_AddElement
    <3>6. /\ DOMAIN compactions' = DOMAIN compactions
          /\ compactions' \in [DOMAIN compactions' -> Summaries]
          /\ \A k \in DOMAIN compactions : compactions'[k].covers = compactions[k].covers
      BY <1>1, <3>2, <3>3, <3>4, SummaryMoves DEF OpenStatuses
    <3>7. [id |-> id, token |-> n, attempts |-> tries]
            \in [id : CompactionIds, token : Nat, attempts : Nat]
      BY <1>1, <3>2, <3>3
    <3>8. troubles' = troubles
      BY <2>1 DEF ClaimCompaction
    <3> QED
      BY <1>1, <3>4, <3>5, <3>6, <3>7, <3>8
  <2>2. CASE \/ RecoverCompaction
             \/ \E c \in summarizing : CompleteCompaction(c) \/ SummaryFails(c) \/ FailCompaction(c)
    <3>1. \/ compactions' = compactions
          \/ \E id \in DOMAIN compactions, status \in OpenStatuses \cup {"completed", "failed"} :
               compactions' = [compactions EXCEPT ![id].status = status, ![id].token = 0]
      <4>1. CASE RecoverCompaction
        BY <4>1 DEF RecoverCompaction, OpenStatuses
      <4>2. ASSUME NEW c \in summarizing, CompleteCompaction(c) \/ SummaryFails(c) \/ FailCompaction(c)
            PROVE  \/ compactions' = compactions
                   \/ \E id \in DOMAIN compactions, status \in OpenStatuses \cup {"completed", "failed"} :
                        compactions' = [compactions EXCEPT ![id].status = status, ![id].token = 0]
        <5>1. PICK status \in {"completed", "retry", "failed"} : SettlesSummary(c, status)
          BY <4>2 DEF CompleteCompaction, SummaryFails, FailCompaction
        <5>2. \/ compactions' = compactions
              \/ compactions' = [compactions EXCEPT ![c.id].status = status, ![c.id].token = 0]
          BY <5>1 DEF SettlesSummary
        <5>3. CASE c.id \in DOMAIN compactions
          BY <5>2, <5>3 DEF OpenStatuses
        <5>4. CASE c.id \notin DOMAIN compactions
          <6>1. [compactions EXCEPT ![c.id].status = status, ![c.id].token = 0] = compactions
            BY <1>1, <5>4
          <6> QED
            BY <5>2, <6>1
        <5> QED
          BY <5>3, <5>4
      <4> QED
        BY <2>2, <4>1, <4>2
    <3>2. /\ DOMAIN compactions' = DOMAIN compactions
          /\ compactions' \in [DOMAIN compactions' -> Summaries]
          /\ \A k \in DOMAIN compactions : compactions'[k].covers = compactions[k].covers
      <4>1. CASE compactions' = compactions
        BY <1>1, <4>1
      <4>2. ASSUME NEW id \in DOMAIN compactions,
                   NEW status \in OpenStatuses \cup {"completed", "failed"},
                   compactions' = [compactions EXCEPT ![id].status = status, ![id].token = 0]
            PROVE  /\ DOMAIN compactions' = DOMAIN compactions
                   /\ compactions' \in [DOMAIN compactions' -> Summaries]
                   /\ \A k \in DOMAIN compactions : compactions'[k].covers = compactions[k].covers
        <5>1. compactions[id] \in Summaries
          BY <1>1
        <5> DEFINE new == [compactions[id] EXCEPT !.status = status, !.token = 0]
        <5>2. new \in Summaries /\ new.covers = compactions[id].covers
          BY <5>1 DEF Summaries
        <5>3. compactions' = [compactions EXCEPT ![id] = new]
          BY <4>2
        <5> HIDE DEF new
        <5> QED
          BY <1>1, <5>2, <5>3
      <4> QED
        BY <3>1, <4>1, <4>2
    <3>3. summarizing' = summarizing \/ \E c \in summarizing : summarizing' = summarizing \ {c}
      BY <2>2 DEF RecoverCompaction, CompleteCompaction, SummaryFails, FailCompaction,
         SettlesSummary
    <3>4. IsFiniteSet(summarizing')
      BY <1>1, <3>3, FS_RemoveElement
    <3>5. troubles' = troubles \/ (troubles < MaxTroubles /\ troubles' = troubles + 1)
      BY <2>2 DEF RecoverCompaction, CompleteCompaction, SummaryFails, FailCompaction, Trouble
    <3>6. troubles' \in 0 .. MaxTroubles
      BY <1>1, <3>5
    <3> QED
      BY <1>1, <3>2, <3>3, <3>4, <3>6
  <2> QED
    BY <2>1, <2>2
<1>4. RowsGrow
  BY <1>2, TablesSame
<1>5. SummariesTell'
  BY <1>2, <1>3 DEF ContextInv, SummariesTell, tables
<1>6. SlotTells'
  BY <1>1, <1>2, <1>4, SlotStays DEF ContextInv, Types
<1>7. Types'
  BY <1>1, <1>2, <1>3 DEF ContextInv, Types, tables
<1> QED
  BY <1>2, <1>3, <1>5, <1>6, <1>7, QuietStays

LEMMA LossSteps == ASSUME ContextInv, ContextCrash \/ CacheExpires PROVE ContextInv'
<1>1. /\ UNCHANGED <<tables, compactions>> /\ windowCache' = EmptySlot
      /\ projecting' \in {projecting, {}} /\ summarizing' \in {summarizing, {}}
  BY DEF ContextCrash, CacheExpires
<1>2. troubles' \in 0 .. MaxTroubles
  BY ContextAssumption DEF ContextCrash, CacheExpires, Trouble, ContextInv, Types
<1>3. <<>> \in MarkLists
  <2>1. <<>> \in [{} -> Marks]
    OBVIOUS
  <2> QED
    BY <2>1 DEF MarkLists
<1>4. EmptySlot \in Cache
  BY <1>3 DEF EmptySlot, Cache, CompactionIds, NoCompaction
<1>5. RowsGrow
  BY <1>1, TablesSame
<1>6. SlotTells' /\ SummariesTell'
  BY <1>1, <1>5, SummariesStay DEF ContextInv, Types, SlotTells
<1>7. IsFiniteSet(projecting') /\ IsFiniteSet(summarizing')
  BY <1>1, FS_EmptySet DEF ContextInv, Types
<1>8. Types'
  BY <1>1, <1>2, <1>4, <1>7 DEF ContextInv, Types, tables
<1> QED
  BY <1>1, <1>6, <1>8, QuietStays
-----------------------------------------------------------------------------
(* The import of a file. *)

LEMMA SameTranscript ==
  ASSUME ContextInv, UNCHANGED <<transcript, compactions, windowCache>>
  PROVE  /\ RowsGrow /\ TranscriptTells' /\ SummariesTell' /\ SlotTells'
         /\ OpenedTurns' = OpenedTurns
         /\ \A t : RowsOf(t)' = RowsOf(t) /\ SourceRow(t)' = SourceRow(t)
<1>1. RowsGrow
  BY DEF RowsGrow, ContextInv, Types
<1>2. /\ OpenedTurns' = OpenedTurns
      /\ \A t : RowsOf(t)' = RowsOf(t) /\ SourceRow(t)' = SourceRow(t)
  BY DEF OpenedTurns, RowsOf, SourceRow
<1>3. TranscriptTells'
  BY <1>2 DEF ContextInv, TranscriptTells
<1>4. SummariesTell' /\ SlotTells'
  BY <1>1, SummariesStay, SlotStays DEF ContextInv, Types
<1> QED
  BY <1>1, <1>2, <1>3, <1>4

(* What an import writes down for its turn. *)
LEMMA ImportWritten ==
  ASSUME ContextInv, NEW a \in projecting,
         NEW new \in [intent : BOOLEAN, native : BOOLEAN, receipt : BOOLEAN],
         imports' = [imports EXCEPT ![a.turn] = new],
         imports[a.turn].intent => new.intent, imports[a.turn].native => new.native,
         imports[a.turn].receipt = new.receipt, new.native => new.intent,
         a.turn \in Uploads,
         new.intent => imports[a.turn].intent \/ transcript[SourceRow(a.turn)].mark = "pending",
         UNCHANGED <<transcript, clears, inferring, compactions, windowCache, summarizing>>,
         NEW b \in Attempts, Becomes(a, b), troubles' \in 0 .. MaxTroubles,
         LeaseKept(b) = LeaseKept(a), AttemptTells(b),
         b.turn = a.turn, b.first <= b.last,
         b.at \in {"native", "record"} => new.intent, b.at = "record" => new.native,
         b.at \in {"native", "record", "fail", "wait"}
  PROVE  ContextInv'
<1>1. /\ a \in Attempts /\ ImportTells(a) /\ a.turn \in ContextTurns /\ a.turn \in OpenedTurns
      /\ imports \in [ContextTurns -> [intent : BOOLEAN, native : BOOLEAN, receipt : BOOLEAN]]
  BY DEF ContextInv, Types, ImportTells, Attempts
<1>2. /\ RowsGrow /\ TranscriptTells' /\ SummariesTell' /\ SlotTells'
      /\ OpenedTurns' = OpenedTurns
      /\ \A t : RowsOf(t)' = RowsOf(t) /\ SourceRow(t)' = SourceRow(t)
  BY SameTranscript
<1>3. /\ imports' \in [ContextTurns -> [intent : BOOLEAN, native : BOOLEAN, receipt : BOOLEAN]]
      /\ imports'[a.turn] = new
      /\ \A t \in ContextTurns : t # a.turn => imports'[t] = imports[t]
  BY <1>1
<1>4. projecting' \in SUBSET Attempts /\ IsFiniteSet(projecting')
  BY BecomesTyped DEF ContextInv, Types
<1>5. Types'
  BY <1>3, <1>4 DEF ContextInv, Types
<1>6. ActivitiesTell'
  BY <1>1, <1>2, <1>3 DEF ContextInv, ActivitiesTell
<1>7. FilesAreAccounted'
  <2> SUFFICES ASSUME NEW t \in Uploads \cap OpenedTurns
               PROVE  LET mark == transcript[SourceRow(t)].mark IN
                      /\ (mark = "imported") = imports'[t].receipt
                      /\ imports'[t].receipt => imports'[t].native
                      /\ imports'[t].native => imports'[t].intent
                      /\ mark = "unavailable" => ~imports'[t].intent
                      /\ inferring[t].status = "completed" => mark = "imported"
                      /\ inferring[t].status = "failed" => mark # "pending"
    BY <1>2 DEF FilesAreAccounted
  <2>1. t \in ContextTurns
    BY ContextAssumption DEF ContextTurns
  <2>2. CASE t # a.turn
    BY <1>3, <2>1, <2>2 DEF ContextInv, FilesAreAccounted
  <2>3. CASE t = a.turn
    BY <1>3, <2>3 DEF ContextInv, FilesAreAccounted
  <2> QED
    BY <2>2, <2>3
<1>8. /\ ClearsGrow /\ clears' \subseteq Nat /\ \A c : LeaseKept(c)' = LeaseKept(c)
  BY DEF ClearsGrow, ContextInv, Types, LeaseKept
<1>9. NothingGivenBack
  BY <1>1, <1>3, <1>8 DEF NothingGivenBack
<1>10. ImportTells(b)'
  BY <1>1, <1>2, <1>3 DEF ImportTells
<1>11. AttemptTells(b)'
  BY <1>1, <1>2, <1>8, <1>9, AttemptStays DEF ContextInv
<1>12. \A c \in projecting' : c \in projecting \/ (ImportTells(c)' /\ AttemptTells(c)')
  BY <1>10, <1>11 DEF Becomes
<1> QED
  BY <1>2, <1>5, <1>6, <1>7, <1>8, <1>9, <1>12, InvStays

LEMMA PrepareStep ==
  ASSUME ContextInv, NEW a \in projecting, PrepareIntent(a)
  PROVE  ContextInv'
<1>1. /\ a \in Attempts /\ ImportTells(a) /\ AttemptTells(a) /\ a.turn \in ContextTurns
      /\ imports \in [ContextTurns -> [intent : BOOLEAN, native : BOOLEAN, receipt : BOOLEAN]]
      /\ a.at = "prepare" /\ a.turn \in Uploads /\ a.first <= a.last
      /\ troubles' \in 0 .. MaxTroubles
      /\ UNCHANGED <<transcript, clears, inferring, compactions, windowCache, summarizing,
                     troubles>>
  BY DEF ContextInv, Types, ImportTells, Attempts, PrepareIntent
<1>2. CASE UNCHANGED imports /\ Goes(a, "fail")
  <2> DEFINE b == [a EXCEPT !.at = "fail"]
  <2>1. /\ b \in Attempts /\ AttemptTells(b) /\ b.turn = a.turn /\ b.at = "fail"
        /\ b.first = a.first /\ b.last = a.last
    BY <1>1, StageChanges DEF Assembled, Located
  <2>2. Becomes(a, b)
    BY <1>2 DEF Goes
  <2> HIDE DEF b
  <2>3. ImportTells(b)
    BY <1>1, <2>1 DEF ImportTells
  <2> QED
    BY <1>1, <1>2, <2>1, <2>2, <2>3, AttemptMoves DEF tables
<1>3. CASE /\ imports[a.turn].intent \/ MayPrepare(a)
           /\ imports' = [imports EXCEPT ![a.turn].intent = TRUE] /\ Goes(a, "native")
  <2> DEFINE b == [a EXCEPT !.at = "native"]
  <2>1. /\ b \in Attempts /\ AttemptTells(b) /\ b.turn = a.turn /\ b.at = "native"
        /\ b.first = a.first /\ b.last = a.last /\ LeaseKept(b) = LeaseKept(a)
    BY <1>1, StageChanges DEF Assembled, Located
  <2>2. Becomes(a, b)
    BY <1>3 DEF Goes
  <2> HIDE DEF b
  <2>3. imports[a.turn] \in [intent : BOOLEAN, native : BOOLEAN, receipt : BOOLEAN]
    BY <1>1
  <2> DEFINE new == [imports[a.turn] EXCEPT !.intent = TRUE]
  <2>4. /\ new \in [intent : BOOLEAN, native : BOOLEAN, receipt : BOOLEAN]
        /\ new.intent = TRUE /\ new.native = imports[a.turn].native
        /\ new.receipt = imports[a.turn].receipt
    BY <2>3
  <2>5. imports' = [imports EXCEPT ![a.turn] = new]
    BY <1>3
  <2> HIDE DEF new
  <2>6. imports[a.turn].intent \/ transcript[SourceRow(a.turn)].mark = "pending"
    BY <1>3 DEF MayPrepare
  <2> QED
    BY <1>1, <2>1, <2>2, <2>4, <2>5, <2>6, ImportWritten
<1> QED
  BY <1>2, <1>3 DEF PrepareIntent

LEMMA ImportStep == ASSUME ContextInv, NEW a \in projecting, ImportFile(a) PROVE ContextInv'
<1>1. /\ a \in Attempts /\ ImportTells(a) /\ AttemptTells(a) /\ a.turn \in ContextTurns
      /\ imports \in [ContextTurns -> [intent : BOOLEAN, native : BOOLEAN, receipt : BOOLEAN]]
      /\ a.at = "native" /\ a.turn \in Uploads /\ a.first <= a.last
      /\ imports[a.turn].intent
      /\ UNCHANGED <<transcript, clears, inferring, compactions, windowCache, summarizing>>
  BY DEF ContextInv, Types, ImportTells, Attempts, ImportFile
<1>2. troubles' \in 0 .. MaxTroubles
  BY ContextAssumption DEF ContextInv, Types, ImportFile, Trouble
<1>3. PICK where : /\ Goes(a, where)
                   /\ \/ /\ where \in {"record", "wait"}
                         /\ imports' = [imports EXCEPT ![a.turn].native = TRUE]
                      \/ where = "wait" /\ UNCHANGED imports
  BY DEF ImportFile
<1> DEFINE b == [a EXCEPT !.at = where]
<1>4. /\ b \in Attempts /\ AttemptTells(b) /\ b.turn = a.turn /\ b.at = where
      /\ b.first = a.first /\ b.last = a.last /\ LeaseKept(b) = LeaseKept(a)
  BY <1>1, <1>3, StageChanges DEF Assembled, Located
<1>5. Becomes(a, b)
  BY <1>3 DEF Goes
<1> HIDE DEF b
<1>6. CASE where = "wait" /\ UNCHANGED imports
  <2>1. ImportTells(b)
    BY <1>1, <1>4, <1>6 DEF ImportTells
  <2> QED
    BY <1>1, <1>2, <1>4, <1>5, <1>6, <2>1, AttemptMoves DEF tables
<1>7. CASE where \in {"record", "wait"} /\ imports' = [imports EXCEPT ![a.turn].native = TRUE]
  <2>1. imports[a.turn] \in [intent : BOOLEAN, native : BOOLEAN, receipt : BOOLEAN]
    BY <1>1
  <2> DEFINE new == [imports[a.turn] EXCEPT !.native = TRUE]
  <2>2. /\ new \in [intent : BOOLEAN, native : BOOLEAN, receipt : BOOLEAN]
        /\ new.intent = imports[a.turn].intent /\ new.native = TRUE
        /\ new.receipt = imports[a.turn].receipt
    BY <2>1
  <2>3. imports' = [imports EXCEPT ![a.turn] = new]
    BY <1>7
  <2> HIDE DEF new
  <2> QED
    BY <1>1, <1>2, <1>4, <1>5, <1>7, <2>2, <2>3, ImportWritten
<1> QED
  BY <1>3, <1>6, <1>7

(* A row that gets another mark stays where it is. *)
LEMMA RowMarked ==
  ASSUME transcript \in Seq(TranscriptRow), NEW row \in DOMAIN transcript, NEW m \in Marks,
         transcript' = [transcript EXCEPT ![row].mark = m]
  PROVE  /\ transcript' \in Seq(TranscriptRow) /\ Len(transcript') = Len(transcript)
         /\ DOMAIN transcript' = DOMAIN transcript
         /\ \A i \in DOMAIN transcript :
              /\ transcript'[i].turn = transcript[i].turn
              /\ transcript'[i].mark = IF i = row THEN m ELSE transcript[i].mark
         /\ OpenedTurns' = OpenedTurns
         /\ \A t : RowsOf(t)' = RowsOf(t) /\ SourceRow(t)' = SourceRow(t)
<1> DEFINE new == [transcript[row] EXCEPT !.mark = m]
<1>1. transcript[row] \in TranscriptRow
  OBVIOUS
<1>2. new \in TranscriptRow /\ new.turn = transcript[row].turn /\ new.mark = m
  BY <1>1 DEF TranscriptRow
<1>3. transcript' = [transcript EXCEPT ![row] = new]
  OBVIOUS
<1> HIDE DEF new
<1>4. /\ transcript' \in Seq(TranscriptRow) /\ Len(transcript') = Len(transcript)
      /\ DOMAIN transcript' = DOMAIN transcript
  BY <1>2, <1>3
<1>5. \A i \in DOMAIN transcript :
        /\ transcript'[i].turn = transcript[i].turn
        /\ transcript'[i].mark = IF i = row THEN m ELSE transcript[i].mark
  BY <1>2, <1>3
<1>6. \A t : RowsOf(t)' = RowsOf(t)
  BY <1>4, <1>5 DEF RowsOf
<1>7. OpenedTurns' = OpenedTurns
  BY <1>4, <1>5 DEF OpenedTurns
<1> QED
  BY <1>4, <1>5, <1>6, <1>7 DEF SourceRow

LEMMA RecordStep == ASSUME ContextInv, NEW a \in projecting, RecordImport(a) PROVE ContextInv'
<1>1. /\ a \in Attempts /\ ImportTells(a) /\ AttemptTells(a) /\ a.turn \in ContextTurns
      /\ imports \in [ContextTurns -> [intent : BOOLEAN, native : BOOLEAN, receipt : BOOLEAN]]
      /\ transcript \in Seq(TranscriptRow)
      /\ a.at = "record" /\ a.turn \in Uploads /\ a.first <= a.last
      /\ a.turn \in OpenedTurns
      /\ imports[a.turn].intent /\ imports[a.turn].native
      /\ UNCHANGED <<clears, inferring, compactions, summarizing, troubles>>
  BY DEF ContextInv, Types, ImportTells, Attempts, RecordImport
<1> DEFINE row == SourceRow(a.turn)
<1>2. row \in DOMAIN transcript /\ transcript[row].turn = a.turn /\ row \in RowsOf(a.turn)
  BY <1>1, SourceIsFirst
<1>3. transcript[row].mark \in {"pending", "imported"}
  <2>1. transcript[row].mark \in {"pending", "imported", "unavailable"}
    BY <1>1, <1>2 DEF ContextInv, TranscriptTells, RowTells
  <2>2. transcript[row].mark # "unavailable"
    BY <1>1 DEF ContextInv, FilesAreAccounted
  <2>3. transcript[row] \in TranscriptRow
    BY <1>1, <1>2
  <2> QED
    BY <2>1, <2>2, <2>3 DEF TranscriptRow, Marks
<1>4. /\ transcript' = [transcript EXCEPT ![row].mark = "imported"]
      /\ imports' = [imports EXCEPT ![a.turn].receipt = TRUE]
      /\ windowCache' = EmptySlot /\ Goes(a, "infer")
  BY <1>3 DEF RecordImport
<1>5. /\ transcript' \in Seq(TranscriptRow) /\ Len(transcript') = Len(transcript)
      /\ DOMAIN transcript' = DOMAIN transcript
      /\ \A i \in DOMAIN transcript :
           /\ transcript'[i].turn = transcript[i].turn
           /\ transcript'[i].mark = IF i = row THEN "imported" ELSE transcript[i].mark
      /\ OpenedTurns' = OpenedTurns
      /\ \A t : RowsOf(t)' = RowsOf(t) /\ SourceRow(t)' = SourceRow(t)
  BY <1>1, <1>2, <1>4, RowMarked DEF Marks
<1> HIDE DEF row
<1>6. RowsGrow
  <2>1. Len(transcript) <= Len(transcript')
    BY <1>1, <1>5
  <2> QED
    BY <1>3, <1>5, <2>1 DEF RowsGrow
<1>7. /\ imports' \in [ContextTurns -> [intent : BOOLEAN, native : BOOLEAN, receipt : BOOLEAN]]
      /\ imports'[a.turn].intent /\ imports'[a.turn].native /\ imports'[a.turn].receipt
      /\ \A t \in ContextTurns : t # a.turn => imports'[t] = imports[t]
  <2> DEFINE new == [imports[a.turn] EXCEPT !.receipt = TRUE]
  <2>1. imports[a.turn] \in [intent : BOOLEAN, native : BOOLEAN, receipt : BOOLEAN]
    BY <1>1
  <2>2. /\ new \in [intent : BOOLEAN, native : BOOLEAN, receipt : BOOLEAN]
        /\ new.intent = imports[a.turn].intent /\ new.native = imports[a.turn].native
        /\ new.receipt = TRUE
    BY <2>1
  <2>3. imports' = [imports EXCEPT ![a.turn] = new]
    BY <1>4
  <2> HIDE DEF new
  <2>4. /\ imports' \in [ContextTurns -> [intent : BOOLEAN, native : BOOLEAN, receipt : BOOLEAN]]
        /\ imports'[a.turn] = new
        /\ \A t \in ContextTurns : t # a.turn => imports'[t] = imports[t]
    BY <1>1, <2>2, <2>3
  <2> QED
    BY <1>1, <2>2, <2>4
<1> DEFINE b == [a EXCEPT !.at = "infer"]
<1>8. /\ b \in Attempts /\ AttemptTells(b) /\ b.turn = a.turn /\ b.at = "infer"
      /\ b.first = a.first /\ b.last = a.last /\ LeaseKept(b) = LeaseKept(a)
  BY <1>1, StageChanges DEF Assembled, Located
<1>9. Becomes(a, b)
  BY <1>4 DEF Goes
<1> HIDE DEF b
<1>10. projecting' \in SUBSET Attempts /\ IsFiniteSet(projecting')
  BY <1>8, <1>9, BecomesTyped DEF ContextInv, Types
<1>11. <<>> \in MarkLists
  <2>1. <<>> \in [{} -> Marks]
    OBVIOUS
  <2> QED
    BY <2>1 DEF MarkLists
<1>12. EmptySlot \in Cache
  BY <1>11 DEF EmptySlot, Cache, CompactionIds, NoCompaction
<1>13. Types'
  BY <1>1, <1>4, <1>5, <1>7, <1>10, <1>12 DEF ContextInv, Types
<1>14. TranscriptTells'
  <2>1. \A t \in OpenedTurns', i \in DOMAIN transcript' :
             i < SourceRow(t)' => transcript'[i].turn < t
    BY <1>5 DEF ContextInv, TranscriptTells
  <2>2. ASSUME NEW t \in ContextTurns, NEW i \in RowsOf(t)'
        PROVE  RowTells(t, transcript'[i].mark, i = SourceRow(t)')
    <3>1. i \in RowsOf(t) /\ i \in DOMAIN transcript /\ SourceRow(t)' = SourceRow(t)
      BY <1>5 DEF RowsOf
    <3>2. RowTells(t, transcript[i].mark, i = SourceRow(t))
      BY <3>1 DEF ContextInv, TranscriptTells
    <3>3. \/ transcript'[i].mark = transcript[i].mark
          \/ transcript[i].mark = "pending" /\ transcript'[i].mark = "imported"
      BY <1>3, <1>5, <3>1
    <3> QED
      BY <3>1, <3>2, <3>3 DEF RowTells, MarkOf
  <2> QED
    BY <2>1, <2>2 DEF TranscriptTells
<1>15. ActivitiesTell'
  BY <1>1, <1>3, <1>5, <1>7 DEF ContextInv, ActivitiesTell
<1>16. \A t \in OpenedTurns : t # a.turn =>
         SourceRow(t) # row /\ SourceRow(t) \in DOMAIN transcript
  BY <1>1, <1>2, SourceIsFirst DEF row
<1>17. FilesAreAccounted'
  <2> SUFFICES ASSUME NEW t \in Uploads \cap OpenedTurns
               PROVE  LET mark == transcript'[SourceRow(t)].mark IN
                      /\ (mark = "imported") = imports'[t].receipt
                      /\ imports'[t].receipt => imports'[t].native
                      /\ imports'[t].native => imports'[t].intent
                      /\ mark = "unavailable" => ~imports'[t].intent
                      /\ inferring[t].status = "completed" => mark = "imported"
                      /\ inferring[t].status = "failed" => mark # "pending"
    BY <1>1, <1>5 DEF FilesAreAccounted
  <2>1. t \in ContextTurns
    BY ContextAssumption DEF ContextTurns
  <2>2. CASE t # a.turn
    BY <1>5, <1>7, <1>16, <2>1, <2>2 DEF ContextInv, FilesAreAccounted
  <2>3. CASE t = a.turn
    <3>1. transcript'[SourceRow(t)].mark = "imported"
      BY <1>2, <1>5, <2>3 DEF row
    <3> QED
      BY <1>7, <2>3, <3>1
  <2> QED
    BY <2>2, <2>3
<1>18. SummariesTell' /\ SlotTells'
  BY <1>1, <1>4, <1>6, SummariesStay DEF ContextInv, Types, SlotTells
<1>19. /\ ClearsGrow /\ clears' \subseteq Nat /\ \A c : LeaseKept(c)' = LeaseKept(c)
  BY <1>1 DEF ClearsGrow, ContextInv, Types, LeaseKept
<1>20. NothingGivenBack
  BY <1>1, <1>7, <1>19 DEF NothingGivenBack
<1>21. ImportTells(b)'
  BY <1>1, <1>2, <1>5, <1>8 DEF ImportTells, row
<1>22. AttemptTells(b)'
  BY <1>1, <1>6, <1>8, <1>19, <1>20, AttemptStays DEF ContextInv
<1>23. \A c \in projecting' : c \in projecting \/ (ImportTells(c)' /\ AttemptTells(c)')
  BY <1>9, <1>21, <1>22 DEF Becomes
<1> QED
  BY <1>6, <1>13, <1>14, <1>15, <1>17, <1>18, <1>19, <1>20, <1>23, InvStays
-----------------------------------------------------------------------------
(* Activities: claims, leases that elapse, attempts that end. *)

(* An activity under way stays under way; nobody gains its claim but the one *)
(* who begins at the bounds.                                                 *)
LEMMA ActivityGoesOn ==
  ASSUME ContextInv, NEW t \in ContextTurns, NEW new \in TurnActivity,
         inferring' = [inferring EXCEPT ![t] = new],
         inferring[t].status \in OpenStatuses, new.status \in {"processing", "retry"},
         new.budget < ContextBudget,
         new.status = "processing" =>
           /\ \A u \in ContextTurns : u < t => inferring[u].status \notin OpenStatuses
           /\ \A a \in projecting : a.token # new.token,
         UNCHANGED <<transcript, clears, imports, compactions, windowCache, summarizing>>,
         troubles' \in 0 .. MaxTroubles,
         projecting' \in SUBSET Attempts, IsFiniteSet(projecting'),
         \A b \in projecting' : \/ b \in projecting
                                \/ b.at = "bounds" /\ b.turn = t /\ b.first <= b.last
  PROVE  ContextInv'
<1>1. /\ inferring \in [ContextTurns -> TurnActivity] /\ t \in OpenedTurns
      /\ transcript \in Seq(TranscriptRow)
  BY DEF ContextInv, Types, ActivitiesTell
<1>2. /\ inferring' \in [ContextTurns -> TurnActivity] /\ inferring'[t] = new
      /\ \A u \in ContextTurns : u # t => inferring'[u] = inferring[u]
  BY <1>1
<1>3. /\ RowsGrow /\ TranscriptTells' /\ SummariesTell' /\ SlotTells'
      /\ OpenedTurns' = OpenedTurns
      /\ \A u : RowsOf(u)' = RowsOf(u) /\ SourceRow(u)' = SourceRow(u)
  BY SameTranscript
<1>4. Types'
  BY <1>2 DEF ContextInv, Types
<1>5. \A u \in ContextTurns :
        inferring'[u].status \in OpenStatuses <=> inferring[u].status \in OpenStatuses
  BY <1>2 DEF OpenStatuses
<1>6. ActivitiesTell'
  <2>1. \A u \in ContextTurns \ OpenedTurns :
          inferring'[u].status = "none" /\ inferring'[u].budget = 0 /\ imports'[u] = NoImport
    BY <1>1, <1>2 DEF ContextInv, ActivitiesTell
  <2>2. \A u \in ContextTurns : inferring'[u].status \in OpenStatuses =>
          /\ u \in OpenedTurns /\ inferring'[u].budget < ContextBudget
          /\ RowsOf(u) = {SourceRow(u)}
          /\ \A c \in clears : c < SourceRow(u)
    BY <1>2, <1>5 DEF ContextInv, ActivitiesTell
  <2>3. ASSUME NEW s \in ContextTurns, NEW u \in ContextTurns,
               inferring'[s].status = "processing", u < s
        PROVE  inferring'[u].status \notin OpenStatuses
    <3>1. CASE s = t
      BY <1>2, <1>5, <2>3, <3>1
    <3>2. CASE s # t
      BY <1>2, <1>5, <2>3, <3>2 DEF ContextInv, ActivitiesTell
    <3> QED
      BY <3>1, <3>2
  <2>4. \A i \in DOMAIN transcript : transcript[i].mark = "pending" =>
          \/ inferring'[transcript[i].turn].status \in OpenStatuses
          \/ \E c \in clears : i <= c
    <3>1. \A i \in DOMAIN transcript : transcript[i].turn \in ContextTurns
      <4> SUFFICES ASSUME NEW i \in DOMAIN transcript PROVE transcript[i].turn \in ContextTurns
        OBVIOUS
      <4>1. transcript[i] \in TranscriptRow
        BY <1>1
      <4> QED
        BY <4>1 DEF TranscriptRow
    <3> QED
      BY <1>5, <3>1 DEF ContextInv, ActivitiesTell
  <2> QED
    BY <1>3, <2>1, <2>2, <2>3, <2>4 DEF ActivitiesTell
<1>7. FilesAreAccounted'
  <2>1. \A u \in Uploads : u \in ContextTurns
    BY ContextAssumption DEF ContextTurns
  <2>2. \A u \in ContextTurns :
          inferring'[u].status \in {"completed", "failed"} => inferring'[u] = inferring[u]
    BY <1>2
  <2> QED
    BY <1>3, <2>1, <2>2 DEF ContextInv, FilesAreAccounted
<1>8. ClearsGrow /\ clears' \subseteq Nat
  BY DEF ClearsGrow, ContextInv, Types
<1>9. ASSUME NEW a \in projecting, LeaseKept(a)' PROVE LeaseKept(a)
  <2>1. a.turn \in ContextTurns
    BY DEF ContextInv, Types, Attempts
  <2> QED
    BY <1>2, <1>9, <2>1 DEF LeaseKept
<1>10. NothingGivenBack
  BY <1>9 DEF NothingGivenBack
<1>11. ASSUME NEW b \in projecting', b.at = "bounds", b.turn = t, b.first <= b.last
       PROVE  ImportTells(b)' /\ AttemptTells(b)'
  BY <1>1, <1>3, <1>11 DEF ImportTells, AttemptTells, Located, Assembled
<1> QED
  BY <1>3, <1>4, <1>6, <1>7, <1>8, <1>10, <1>11, InvStays

LEMMA ClaimTurnStep == ASSUME ContextInv, ClaimTurn PROVE ContextInv'
<1>1. PICK t \in OpenedTurns :
        /\ inferring[t].status \in {"pending", "retry"}
        /\ \A u \in ContextTurns : u < t => inferring[u].status \notin OpenStatuses
        /\ inferring' = [inferring EXCEPT ![t].status = "processing",
                                          ![t].token = Fresh(projecting)]
        /\ projecting' = projecting \cup {Attempt(t, Fresh(projecting))}
        /\ UNCHANGED <<transcript, clears, imports, compactions, windowCache, summarizing,
                       troubles>>
  BY DEF ClaimTurn
<1>2. /\ inferring \in [ContextTurns -> TurnActivity] /\ transcript \in Seq(TranscriptRow)
      /\ projecting \in SUBSET Attempts /\ IsFiniteSet(projecting)
      /\ troubles \in 0 .. MaxTroubles
  BY DEF ContextInv, Types
<1>3. t \in ContextTurns
  <2>1. PICK i \in DOMAIN transcript : transcript[i].turn = t
    BY DEF OpenedTurns
  <2>2. transcript[i] \in TranscriptRow
    BY <1>2
  <2> QED
    BY <2>1, <2>2 DEF TranscriptRow
<1> DEFINE n == Fresh(projecting)
<1>4. n \in Nat /\ \A a \in projecting : a.token # n
  <2>1. \A a \in projecting : a.token \in Nat
    BY <1>2 DEF Attempts
  <2> QED
    BY <1>2, <2>1, FreshIsNew
<1> HIDE DEF n
<1> DEFINE new == [inferring[t] EXCEPT !.status = "processing", !.token = n]
<1>5. /\ new \in TurnActivity /\ new.status = "processing" /\ new.token = n
      /\ new.budget = inferring[t].budget
  <2>1. inferring[t] \in TurnActivity
    BY <1>2, <1>3
  <2> QED
    BY <1>4, <2>1 DEF TurnActivity, OpenStatuses
<1>6. inferring' = [inferring EXCEPT ![t] = new]
  BY <1>1 DEF n
<1> HIDE DEF new
<1>7. inferring[t].status \in OpenStatuses
  BY <1>1 DEF OpenStatuses
<1>8. inferring[t].budget < ContextBudget
  BY <1>3, <1>7 DEF ContextInv, ActivitiesTell
<1> DEFINE b == Attempt(t, n)
<1>9. b \in Attempts /\ b.at = "bounds" /\ b.turn = t /\ b.first <= b.last
  <2>1. <<>> \in MarkLists
    <3>1. <<>> \in [{} -> Marks]
      OBVIOUS
    <3> QED
      BY <3>1 DEF MarkLists
  <2> QED
    BY <1>3, <1>4, <2>1 DEF Attempt, Attempts, NoCompaction, CompactionIds
<1>10. projecting' = projecting \cup {b}
  BY <1>1 DEF n
<1> HIDE DEF b
<1>11. projecting' \in SUBSET Attempts /\ IsFiniteSet(projecting')
  BY <1>2, <1>9, <1>10, FS_AddElement
<1>12. \A c \in projecting' : \/ c \in projecting
                              \/ c.at = "bounds" /\ c.turn = t /\ c.first <= c.last
  BY <1>9, <1>10
<1>13. /\ \A u \in ContextTurns : u < t => inferring[u].status \notin OpenStatuses
       /\ \A a \in projecting : a.token # new.token
       /\ new.budget < ContextBudget /\ new.status \in {"processing", "retry"}
  BY <1>1, <1>4, <1>5, <1>8
<1>14. /\ UNCHANGED <<transcript, clears, imports, compactions, windowCache, summarizing>>
       /\ troubles' \in 0 .. MaxTroubles
  BY <1>1, <1>2
<1> QED
  BY <1>3, <1>5, <1>6, <1>7, <1>11, <1>12, <1>13, <1>14, ActivityGoesOn

LEMMA RecoverTurnStep == ASSUME ContextInv, RecoverTurn PROVE ContextInv'
<1>1. PICK t \in OpenedTurns :
        /\ inferring[t].status = "processing"
        /\ inferring' = [inferring EXCEPT ![t].status = "retry", ![t].token = 0]
  BY DEF RecoverTurn
<1>2. /\ UNCHANGED <<transcript, clears, imports, compactions, windowCache, projecting,
                     summarizing>>
      /\ troubles' \in 0 .. MaxTroubles
  BY ContextAssumption DEF RecoverTurn, Trouble, ContextInv, Types
<1>3. inferring \in [ContextTurns -> TurnActivity] /\ transcript \in Seq(TranscriptRow)
  BY DEF ContextInv, Types
<1>4. t \in ContextTurns
  <2>1. PICK i \in DOMAIN transcript : transcript[i].turn = t
    BY DEF OpenedTurns
  <2>2. transcript[i] \in TranscriptRow
    BY <1>3
  <2> QED
    BY <2>1, <2>2 DEF TranscriptRow
<1> DEFINE new == [inferring[t] EXCEPT !.status = "retry", !.token = 0]
<1>5. new \in TurnActivity /\ new.status = "retry" /\ new.budget = inferring[t].budget
  <2>1. inferring[t] \in TurnActivity
    BY <1>3, <1>4
  <2> QED
    BY <2>1 DEF TurnActivity, OpenStatuses
<1>6. inferring' = [inferring EXCEPT ![t] = new]
  BY <1>1
<1> HIDE DEF new
<1>7. inferring[t].status \in OpenStatuses /\ inferring[t].budget < ContextBudget
  BY <1>1, <1>4 DEF OpenStatuses, ContextInv, ActivitiesTell
<1>8. projecting' \in SUBSET Attempts /\ IsFiniteSet(projecting')
  BY <1>2 DEF ContextInv, Types
<1> QED
  BY <1>2, <1>4, <1>5, <1>6, <1>7, <1>8, ActivityGoesOn

(* An attempt ends, and nothing else happens. *)
LEMMA AttemptEnds ==
  ASSUME ContextInv, NEW a \in projecting, EndsAttempt(a),
         UNCHANGED <<tables, compactions, windowCache, summarizing, troubles>>
  PROVE  ContextInv'
<1>1. /\ RowsGrow /\ TranscriptTells' /\ SummariesTell' /\ SlotTells'
  BY SameTranscript DEF tables
<1>2. projecting' \in SUBSET Attempts /\ IsFiniteSet(projecting')
  BY FS_RemoveElement DEF EndsAttempt, ContextInv, Types
<1>3. Types'
  BY <1>2 DEF ContextInv, Types, tables
<1>4. \A b \in projecting' : b \in projecting
  BY DEF EndsAttempt
<1> QED
  BY <1>1, <1>3, <1>4, QuietStays

LEMMA TryLaterStep == ASSUME ContextInv, NEW a \in projecting, TryLater(a) PROVE ContextInv'
<1>1. CASE ~LeaseKept(a)
  BY <1>1, AttemptEnds DEF TryLater, tables
<1>2. CASE LeaseKept(a)
  <2>1. /\ a.turn \in ContextTurns /\ inferring \in [ContextTurns -> TurnActivity]
        /\ projecting \in SUBSET Attempts /\ IsFiniteSet(projecting)
    BY DEF ContextInv, Types, Attempts
  <2>2. inferring[a.turn].status \in OpenStatuses
    BY <1>2 DEF LeaseKept, OpenStatuses
  <2>3. inferring[a.turn].budget < ContextBudget
    BY <2>1, <2>2 DEF ContextInv, ActivitiesTell
  <2>4. inferring[a.turn].budget \in Nat /\ ContextBudget \in Nat
    BY <2>1, ContextAssumption DEF TurnActivity
  <2>5. BudgetUsed(a) \in Nat /\ BudgetUsed(a) < ContextBudget
    <3>1. CASE a.at = "wait"
      BY <2>3, <2>4, <3>1 DEF BudgetUsed
    <3>2. CASE a.at = "retry"
      <4>1. ~(BudgetUsed(a) >= ContextBudget)
        BY <3>2 DEF TryLater, GivesUp
      <4>2. BudgetUsed(a) \in Nat
        BY <2>4, <3>2 DEF BudgetUsed
      <4> QED
        BY <2>4, <4>1, <4>2
    <3> QED
      BY <3>1, <3>2 DEF TryLater
  <2> DEFINE new == [status |-> "retry", token |-> 0, budget |-> BudgetUsed(a)]
  <2>6. new \in TurnActivity /\ new.status = "retry" /\ new.budget = BudgetUsed(a)
    BY <2>4, <2>5 DEF TurnActivity, OpenStatuses
  <2>7. inferring' = [inferring EXCEPT ![a.turn] = new]
    BY <1>2 DEF TryLater
  <2> HIDE DEF new
  <2>8. projecting' \in SUBSET Attempts /\ IsFiniteSet(projecting')
    BY <2>1, FS_RemoveElement DEF TryLater, EndsAttempt
  <2>9. /\ UNCHANGED <<transcript, clears, imports, compactions, windowCache, summarizing>>
        /\ troubles' \in 0 .. MaxTroubles /\ \A b \in projecting' : b \in projecting
    BY DEF TryLater, EndsAttempt, ContextInv, Types
  <2> QED
    BY <2>1, <2>2, <2>5, <2>6, <2>7, <2>8, <2>9, ActivityGoesOn
<1> QED
  BY <1>1, <1>2
-----------------------------------------------------------------------------
(* Rows are appended, and resets. *)

LEMMA ClearHistoryStep == ASSUME ContextInv, ClearHistory PROVE ContextInv'
<1>1. /\ clears' = clears \cup {Len(transcript)}
      /\ inferring' = [t \in ContextTurns |->
           IF inferring[t].status \in OpenStatuses
           THEN [inferring[t] EXCEPT !.status = "cancelled", !.token = 0] ELSE inferring[t]]
      /\ UNCHANGED <<transcript, imports, compactions, windowCache, projecting, summarizing>>
  BY DEF ClearHistory
<1>2. /\ inferring \in [ContextTurns -> TurnActivity] /\ transcript \in Seq(TranscriptRow)
      /\ Len(transcript) \in Nat /\ clears \in SUBSET (0 .. Len(transcript))
  BY DEF ContextInv, Types
<1>3. troubles' \in 0 .. MaxTroubles
  <2>1. troubles \in 0 .. MaxTroubles /\ MaxTroubles \in Nat
    BY ContextAssumption DEF ContextInv, Types
  <2>2. troubles < MaxTroubles /\ troubles' = troubles + 1
    BY DEF ClearHistory, Trouble
  <2> QED
    BY <2>1, <2>2
<1>4. /\ RowsGrow /\ TranscriptTells' /\ SummariesTell' /\ SlotTells'
      /\ OpenedTurns' = OpenedTurns
      /\ \A u : RowsOf(u)' = RowsOf(u) /\ SourceRow(u)' = SourceRow(u)
  BY <1>1, SameTranscript
<1>5. \A t \in ContextTurns :
        /\ inferring'[t] \in TurnActivity /\ inferring'[t].status \notin OpenStatuses
        /\ inferring'[t].status \in {"none", "completed", "failed"} =>
             inferring'[t] = inferring[t]
        /\ inferring[t].status \notin OpenStatuses => inferring'[t] = inferring[t]
  <2> SUFFICES ASSUME NEW t \in ContextTurns
               PROVE  /\ inferring'[t] \in TurnActivity
                      /\ inferring'[t].status \notin OpenStatuses
                      /\ inferring'[t].status \in {"none", "completed", "failed"} =>
                           inferring'[t] = inferring[t]
                      /\ inferring[t].status \notin OpenStatuses => inferring'[t] = inferring[t]
    OBVIOUS
  <2>1. inferring[t] \in TurnActivity
    BY <1>2
  <2>2. CASE inferring[t].status \in OpenStatuses
    <3> DEFINE new == [inferring[t] EXCEPT !.status = "cancelled", !.token = 0]
    <3>1. new \in TurnActivity /\ new.status = "cancelled"
      BY <2>1 DEF TurnActivity
    <3>2. inferring'[t] = new
      BY <1>1, <2>2
    <3> QED
      BY <2>2, <3>1, <3>2 DEF OpenStatuses
  <2>3. CASE inferring[t].status \notin OpenStatuses
    BY <1>1, <2>1, <2>3
  <2> QED
    BY <2>2, <2>3
<1>6. clears' \in SUBSET (0 .. Len(transcript))
  <2>1. Len(transcript) \in 0 .. Len(transcript)
    BY <1>2
  <2> QED
    BY <1>1, <1>2, <2>1
<1>7. inferring' \in [ContextTurns -> TurnActivity]
  <2>1. DOMAIN inferring' = ContextTurns /\ inferring' = [t \in ContextTurns |-> inferring'[t]]
    BY <1>1
  <2> QED
    BY <1>5, <2>1
<1>8. Types'
  BY <1>1, <1>3, <1>6, <1>7 DEF ContextInv, Types
<1>9. ActivitiesTell'
  <2>1. \A t \in ContextTurns \ OpenedTurns :
          inferring'[t].status = "none" /\ inferring'[t].budget = 0 /\ imports'[t] = NoImport
    BY <1>1, <1>5 DEF ContextInv, ActivitiesTell, OpenStatuses
  <2>2. \A i \in DOMAIN transcript : \E c \in clears' : i <= c
    <3>1. \A i \in DOMAIN transcript : i <= Len(transcript)
      BY <1>2
    <3> QED
      BY <1>1, <3>1
  <2>3. \A t \in ContextTurns : inferring'[t].status \notin OpenStatuses
    BY <1>5
  <2>4. \A t \in ContextTurns : inferring'[t].status # "processing"
    BY <2>3 DEF OpenStatuses
  <2> QED
    BY <1>1, <1>4, <2>1, <2>2, <2>3, <2>4 DEF ActivitiesTell
<1>10. FilesAreAccounted'
  <2>1. \A u \in Uploads : u \in ContextTurns
    BY ContextAssumption DEF ContextTurns
  <2> QED
    BY <1>1, <1>4, <1>5, <2>1 DEF ContextInv, FilesAreAccounted
<1>11. ClearsGrow
  <2>1. Len(transcript) >= Len(transcript)
    BY <1>2
  <2>2. clears' = clears \cup {Len(transcript)}
    BY <1>1
  <2> QED
    BY <2>1, <2>2 DEF ClearsGrow
<1>12. \A a \in projecting : ~LeaseKept(a)'
  <2>1. \A a \in projecting : a.turn \in ContextTurns
    BY DEF ContextInv, Types, Attempts
  <2> QED
    BY <1>5, <2>1 DEF LeaseKept, OpenStatuses
<1>13. NothingGivenBack
  BY <1>1, <1>12 DEF NothingGivenBack
<1> QED
  BY <1>1, <1>4, <1>8, <1>9, <1>10, <1>11, <1>13, InvStays

(* What a row more changes. *)
LEMMA RowAppended ==
  ASSUME transcript \in Seq(TranscriptRow), NEW row \in TranscriptRow,
         transcript' = Append(transcript, row)
  PROVE  /\ transcript' \in Seq(TranscriptRow) /\ Len(transcript') = Len(transcript) + 1
         /\ Len(transcript) \in Nat
         /\ transcript'[Len(transcript) + 1] = row
         /\ \A i \in DOMAIN transcript : transcript'[i] = transcript[i]
         /\ DOMAIN transcript = 1 .. Len(transcript)
         /\ DOMAIN transcript' = DOMAIN transcript \cup {Len(transcript) + 1}
         /\ Len(transcript) + 1 \notin DOMAIN transcript
         /\ RowsGrow
<1>1. /\ transcript' \in Seq(TranscriptRow) /\ Len(transcript') = Len(transcript) + 1
      /\ Len(transcript) \in Nat
      /\ transcript'[Len(transcript) + 1] = row
      /\ \A i \in 1 .. Len(transcript) : transcript'[i] = transcript[i]
      /\ DOMAIN transcript = 1 .. Len(transcript)
      /\ DOMAIN transcript' = 1 .. Len(transcript')
  BY AppendProperties
<1>2. DOMAIN transcript' = DOMAIN transcript \cup {Len(transcript) + 1}
  BY <1>1
<1>3. Len(transcript) + 1 \notin DOMAIN transcript /\ Len(transcript) <= Len(transcript')
  BY <1>1
<1> QED
  BY <1>1, <1>2, <1>3 DEF RowsGrow

LEMMA OpenTurnStep == ASSUME ContextInv, OpenTurn PROVE ContextInv'
<1>1. PICK t \in ContextTurns \ OpenedTurns :
        /\ \A u \in OpenedTurns : u < t
        /\ transcript' = Append(transcript,
             [turn |-> t, mark |-> IF t \in Uploads THEN "pending" ELSE MarkOf(t)])
        /\ inferring' = [inferring EXCEPT ![t].status = "pending"]
  BY DEF OpenTurn
<1>2. /\ UNCHANGED <<clears, imports, compactions, windowCache, projecting, summarizing,
                     troubles>>
      /\ inferring \in [ContextTurns -> TurnActivity] /\ transcript \in Seq(TranscriptRow)
      /\ clears \in SUBSET (0 .. Len(transcript))
  BY DEF OpenTurn, ContextInv, Types
<1> DEFINE m == IF t \in Uploads THEN "pending" ELSE MarkOf(t)
           row == [turn |-> t, mark |-> m]
           new == [inferring[t] EXCEPT !.status = "pending"]
           last == Len(transcript) + 1
<1>3. row \in TranscriptRow /\ row.turn = t /\ row.mark = m
  BY DEF TranscriptRow, Marks, MarkOf
<1>4. m = IF t \in Uploads THEN "pending" ELSE MarkOf(t)
  OBVIOUS
<1>5. transcript' = Append(transcript, row)
  BY <1>1
<1>6. inferring[t].status = "none" /\ inferring[t].budget = 0 /\ imports[t] = NoImport
  BY DEF ContextInv, ActivitiesTell
<1>7. new \in TurnActivity /\ new.status = "pending" /\ new.budget = 0
  <2>1. inferring[t] \in TurnActivity
    BY <1>2
  <2> QED
    BY <1>6, <2>1 DEF TurnActivity, OpenStatuses
<1>8. inferring' = [inferring EXCEPT ![t] = new]
  BY <1>1
<1> HIDE DEF new, row, m
<1>9. /\ inferring' \in [ContextTurns -> TurnActivity] /\ inferring'[t] = new
      /\ \A u \in ContextTurns : u # t => inferring'[u] = inferring[u]
  BY <1>2, <1>7, <1>8
<1>10. /\ transcript' \in Seq(TranscriptRow) /\ Len(transcript') = last
       /\ Len(transcript) \in Nat /\ transcript'[last] = row
       /\ \A i \in DOMAIN transcript : transcript'[i] = transcript[i]
       /\ DOMAIN transcript = 1 .. Len(transcript)
       /\ DOMAIN transcript' = DOMAIN transcript \cup {last}
       /\ last \notin DOMAIN transcript
       /\ RowsGrow
  BY <1>2, <1>3, <1>5, RowAppended
<1>11. last \in Nat /\ (\A i \in DOMAIN transcript : i \in Nat /\ i < last)
  BY <1>10
<1> HIDE DEF last
<1>12. \A i \in DOMAIN transcript : transcript[i].turn \in OpenedTurns /\ transcript[i].turn # t
  BY DEF OpenedTurns
<1>13. OpenedTurns' = OpenedTurns \cup {t}
  <2>1. \A u : u \in OpenedTurns' <=> u \in OpenedTurns \/ u = t
    BY <1>3, <1>10 DEF OpenedTurns
  <2> QED
    BY <2>1
<1>14. RowsOf(t)' = {last}
  BY <1>3, <1>10, <1>12 DEF RowsOf
<1>15. \A u : u # t => RowsOf(u)' = RowsOf(u)
  BY <1>3, <1>10 DEF RowsOf
<1>16. SourceRow(t)' = last
  <2>1. {last} \in SUBSET Nat
    BY <1>11
  <2>2. Min({last}) \in {last}
    BY <2>1, MinOfNaturals
  <2> QED
    BY <1>14, <2>2 DEF SourceRow
<1>17. \A u : u # t => SourceRow(u)' = SourceRow(u)
  BY <1>15 DEF SourceRow
<1>18. \A u \in OpenedTurns : SourceRow(u) \in DOMAIN transcript /\ SourceRow(u) \in Nat
                             /\ SourceRow(u) < last /\ u # t /\ u \in ContextTurns
  <2> SUFFICES ASSUME NEW u \in OpenedTurns
               PROVE  SourceRow(u) \in DOMAIN transcript /\ SourceRow(u) \in Nat
                             /\ SourceRow(u) < last /\ u # t /\ u \in ContextTurns
    OBVIOUS
  <2>1. SourceRow(u) \in DOMAIN transcript /\ transcript[SourceRow(u)].turn = u
    BY <1>2, SourceIsFirst
  <2>2. transcript[SourceRow(u)] \in TranscriptRow
    BY <1>2, <2>1
  <2> QED
    BY <1>11, <1>12, <2>1, <2>2 DEF TranscriptRow
<1>19. clears' \in SUBSET (0 .. Len(transcript')) /\ \A c \in clears : c \in Nat /\ c < last
  <2>1. \A c \in clears : c \in Nat /\ c <= Len(transcript)
    BY <1>2, <1>10
  <2>2. Len(transcript) < last /\ Len(transcript') = last
    BY <1>10 DEF last
  <2>3. \A c \in clears : c \in Nat /\ c < last /\ c \in 0 .. last
    BY <1>10, <1>11, <2>1, <2>2
  <2> QED
    BY <1>2, <2>2, <2>3
<1>20. Types'
  BY <1>2, <1>9, <1>10, <1>19 DEF ContextInv, Types
<1>21. t \in Nat /\ ContextTurns \subseteq Nat
  BY DEF ContextTurns
<1>22. \A u \in OpenedTurns : u < t
  BY <1>1
<1>23. TranscriptTells'
  <2>1. ASSUME NEW s \in OpenedTurns', NEW i \in DOMAIN transcript', i < SourceRow(s)'
        PROVE  transcript'[i].turn < s
    <3>1. CASE s = t
      <4>1. i \in DOMAIN transcript
        BY <1>10, <1>11, <1>16, <2>1, <3>1
      <4> QED
        BY <1>10, <1>12, <1>22, <3>1, <4>1
    <3>2. CASE s # t
      <4>1. s \in OpenedTurns /\ SourceRow(s)' = SourceRow(s) /\ SourceRow(s) < last
        BY <1>13, <1>17, <1>18, <3>2
      <4>2. i \in DOMAIN transcript
        BY <1>10, <1>11, <1>18, <2>1, <4>1
      <4> QED
        BY <1>10, <2>1, <4>1, <4>2 DEF ContextInv, TranscriptTells
    <3> QED
      BY <3>1, <3>2
  <2>2. ASSUME NEW s \in ContextTurns, NEW i \in RowsOf(s)'
        PROVE  RowTells(s, transcript'[i].mark, i = SourceRow(s)')
    <3>1. CASE s = t
      <4>1. i = last
        BY <1>14, <3>1
      <4> QED
        BY <1>3, <1>4, <1>10, <1>16, <3>1, <4>1 DEF RowTells
    <3>2. CASE s # t
      <4>1. i \in RowsOf(s) /\ SourceRow(s)' = SourceRow(s)
        BY <1>15, <1>17, <3>2
      <4>2. i \in DOMAIN transcript
        BY <4>1 DEF RowsOf
      <4>3. transcript'[i] = transcript[i]
        BY <1>10, <4>2
      <4> QED
        BY <4>1, <4>3 DEF ContextInv, TranscriptTells
    <3> QED
      BY <3>1, <3>2
  <2> QED
    BY <2>1, <2>2 DEF TranscriptTells
<1>24. ActivitiesTell'
  <2>1. \A u \in ContextTurns \ OpenedTurns' :
          inferring'[u].status = "none" /\ inferring'[u].budget = 0 /\ imports'[u] = NoImport
    BY <1>2, <1>9, <1>13 DEF ContextInv, ActivitiesTell
  <2>2. ASSUME NEW u \in ContextTurns, inferring'[u].status \in OpenStatuses
        PROVE  /\ u \in OpenedTurns' /\ inferring'[u].budget < ContextBudget
               /\ RowsOf(u)' = {SourceRow(u)'}
               /\ \A c \in clears' : c < SourceRow(u)'
    <3>1. CASE u = t
      <4>1. 0 < ContextBudget
        BY ContextAssumption
      <4> QED
        BY <1>2, <1>7, <1>9, <1>13, <1>14, <1>16, <1>19, <3>1, <4>1
    <3>2. CASE u # t
      BY <1>2, <1>9, <1>13, <1>15, <1>17, <2>2, <3>2 DEF ContextInv, ActivitiesTell
    <3> QED
      BY <3>1, <3>2
  <2>3. ASSUME NEW s \in ContextTurns, NEW u \in ContextTurns,
               inferring'[s].status = "processing", u < s
        PROVE  inferring'[u].status \notin OpenStatuses
    <3>1. s # t /\ inferring'[s] = inferring[s]
      BY <1>7, <1>9, <2>3
    <3>2. s \in OpenedTurns
      BY <2>3, <3>1 DEF ContextInv, ActivitiesTell, OpenStatuses
    <3>3. u # t
      BY <1>21, <1>22, <2>3, <3>2
    <3> QED
      BY <1>9, <2>3, <3>1, <3>3 DEF ContextInv, ActivitiesTell
  <2>4. ASSUME NEW i \in DOMAIN transcript', transcript'[i].mark = "pending"
        PROVE  \/ inferring'[transcript'[i].turn].status \in OpenStatuses
               \/ \E c \in clears' : i <= c
    <3>1. CASE i = last
      BY <1>3, <1>7, <1>9, <1>10, <3>1 DEF OpenStatuses
    <3>2. CASE i \in DOMAIN transcript
      <4>1. transcript'[i] = transcript[i] /\ transcript[i].turn # t
              /\ transcript[i].turn \in ContextTurns
        BY <1>10, <1>12, <1>18, <3>2
      <4> QED
        BY <1>2, <1>9, <2>4, <3>2, <4>1 DEF ContextInv, ActivitiesTell
    <3> QED
      BY <1>10, <3>1, <3>2
  <2> QED
    BY <2>1, <2>2, <2>3, <2>4 DEF ActivitiesTell
<1>25. FilesAreAccounted'
  <2> SUFFICES ASSUME NEW u \in Uploads \cap OpenedTurns'
               PROVE  LET mark == transcript'[SourceRow(u)'].mark IN
                      /\ (mark = "imported") = imports[u].receipt
                      /\ imports[u].receipt => imports[u].native
                      /\ imports[u].native => imports[u].intent
                      /\ mark = "unavailable" => ~imports[u].intent
                      /\ inferring'[u].status = "completed" => mark = "imported"
                      /\ inferring'[u].status = "failed" => mark # "pending"
    BY <1>2 DEF FilesAreAccounted
  <2>1. CASE u = t
    <3>1. transcript'[SourceRow(u)'].mark = "pending"
      BY <1>3, <1>4, <1>10, <1>16, <2>1
    <3>2. inferring'[u].status = "pending"
      BY <1>7, <1>9, <2>1
    <3>3. ~imports[u].intent /\ ~imports[u].native /\ imports[u].receipt = FALSE
      BY <1>6, <2>1 DEF NoImport
    <3> QED
      BY <3>1, <3>2, <3>3
  <2>2. CASE u # t
    <3>1. u \in OpenedTurns /\ SourceRow(u)' = SourceRow(u) /\ u \in ContextTurns
      BY <1>13, <1>17, <1>18, <2>2
    <3>2. transcript'[SourceRow(u)'] = transcript[SourceRow(u)] /\ inferring'[u] = inferring[u]
      BY <1>9, <1>10, <1>18, <2>2, <3>1
    <3> QED
      BY <3>1, <3>2 DEF ContextInv, FilesAreAccounted
  <2> QED
    BY <2>1, <2>2
<1>26. SummariesTell' /\ SlotTells'
  BY <1>2, <1>10, SummariesStay, SlotStays DEF ContextInv, Types
<1>27. ClearsGrow
  BY <1>2 DEF ClearsGrow
<1>28. NothingGivenBack
  <2>1. ASSUME NEW a \in projecting PROVE inferring'[a.turn] = inferring[a.turn]
    <3>1. a.turn \in OpenedTurns
      BY DEF ContextInv, ImportTells
    <3> QED
      BY <1>9, <1>18, <3>1
  <2> QED
    BY <1>2, <2>1 DEF NothingGivenBack, LeaseKept
<1> QED
  BY <1>2, <1>10, <1>20, <1>23, <1>24, <1>25, <1>26, <1>27, <1>28, InvStays

(* A turn ends: one row more, and its file, if it still waited, is hidden. *)
LEMMA TurnEnds ==
  ASSUME ContextInv, NEW a \in projecting, LeaseKept(a), EndsAttempt(a),
         NEW new \in TurnActivity, new.status \in {"completed", "failed"},
         inferring' = [inferring EXCEPT ![a.turn] = new],
         transcript' \in Seq(TranscriptRow), Len(transcript') = Len(transcript) + 1,
         \A i \in DOMAIN transcript :
           /\ transcript'[i].turn = transcript[i].turn
           /\ transcript'[i].mark =
                IF i = SourceRow(a.turn) /\ transcript[i].mark = "pending"
                THEN "unavailable" ELSE transcript[i].mark,
         transcript'[Len(transcript) + 1] = [turn |-> a.turn, mark |-> MarkOf(a.turn)],
         transcript[SourceRow(a.turn)].mark = "pending" => ~imports[a.turn].intent,
         new.status = "completed" /\ a.turn \in Uploads =>
           transcript[SourceRow(a.turn)].mark = "imported",
         UNCHANGED <<clears, imports, compactions, windowCache, summarizing, troubles>>
  PROVE  ContextInv'
<1>1. /\ inferring \in [ContextTurns -> TurnActivity] /\ transcript \in Seq(TranscriptRow)
      /\ clears \in SUBSET (0 .. Len(transcript))
      /\ a.turn \in ContextTurns /\ a.turn \in OpenedTurns
      /\ projecting \in SUBSET Attempts /\ IsFiniteSet(projecting)
  BY DEF ContextInv, Types, ImportTells, Attempts
<1> DEFINE last == Len(transcript) + 1
           row == SourceRow(a.turn)
<1>2. /\ Len(transcript) \in Nat /\ DOMAIN transcript = 1 .. Len(transcript)
      /\ DOMAIN transcript' = DOMAIN transcript \cup {last} /\ last \notin DOMAIN transcript
      /\ last \in Nat /\ \A i \in DOMAIN transcript : i \in Nat /\ i < last
  <2>1. DOMAIN transcript' = 1 .. Len(transcript')
    OBVIOUS
  <2> QED
    BY <1>1, <2>1
<1>3. RowsGrow
  BY <1>2 DEF RowsGrow
<1>4. /\ transcript'[last].turn = a.turn /\ transcript'[last].mark = MarkOf(a.turn)
      /\ Len(transcript') = last
  OBVIOUS
<1> HIDE DEF last
<1>5. row \in DOMAIN transcript /\ transcript[row].turn = a.turn /\ row \in RowsOf(a.turn)
  BY <1>1, SourceIsFirst
<1>6. OpenedTurns' = OpenedTurns
  <2>1. \A u : u \in OpenedTurns' <=> u \in OpenedTurns
    BY <1>1, <1>2, <1>4 DEF OpenedTurns
  <2> QED
    BY <2>1
<1>7. \A u \in OpenedTurns : /\ SourceRow(u)' = SourceRow(u) /\ SourceRow(u) \in DOMAIN transcript
                            /\ transcript[SourceRow(u)].turn = u
  BY <1>1, <1>3, SourceStays, SourceIsFirst
<1>8. \A u : u # a.turn => RowsOf(u)' = RowsOf(u)
  BY <1>2, <1>4 DEF RowsOf
<1>9. RowsOf(a.turn)' = RowsOf(a.turn) \cup {last}
  BY <1>2, <1>4 DEF RowsOf
<1>10. /\ inferring' \in [ContextTurns -> TurnActivity] /\ inferring'[a.turn] = new
       /\ \A u \in ContextTurns : u # a.turn => inferring'[u] = inferring[u]
  BY <1>1
<1> HIDE DEF row
<1>11. \A i \in DOMAIN transcript : transcript[i].turn \in ContextTurns
  <2> SUFFICES ASSUME NEW i \in DOMAIN transcript PROVE transcript[i].turn \in ContextTurns
    OBVIOUS
  <2>1. transcript[i] \in TranscriptRow
    BY <1>1
  <2> QED
    BY <2>1 DEF TranscriptRow
<1>12. \A i \in DOMAIN transcript : transcript[i].mark \notin {"plain", "excluded"} =>
         transcript[i].turn \in Uploads /\ i = SourceRow(transcript[i].turn)
  <2> SUFFICES ASSUME NEW i \in DOMAIN transcript, transcript[i].mark \notin {"plain", "excluded"}
               PROVE  transcript[i].turn \in Uploads /\ i = SourceRow(transcript[i].turn)
    OBVIOUS
  <2>1. i \in RowsOf(transcript[i].turn) /\ transcript[i].turn \in ContextTurns
    BY <1>11 DEF RowsOf
  <2> QED
    BY <2>1 DEF ContextInv, TranscriptTells, RowTells, MarkOf
<1>13. projecting' \in SUBSET Attempts /\ IsFiniteSet(projecting')
  BY <1>1, FS_RemoveElement DEF EndsAttempt
<1>14. clears' \in SUBSET (0 .. Len(transcript'))
  <2>1. \A c \in clears : c \in Nat /\ c <= Len(transcript)
    BY <1>1, <1>2
  <2>2. \A c \in clears : c \in 0 .. last
    BY <1>2, <2>1 DEF last
  <2> QED
    BY <1>4, <2>2
<1>15. Types'
  BY <1>10, <1>13, <1>14 DEF ContextInv, Types
<1>16. TranscriptTells'
  <2>1. ASSUME NEW t \in OpenedTurns', NEW i \in DOMAIN transcript', i < SourceRow(t)'
        PROVE  transcript'[i].turn < t
    <3>1. t \in OpenedTurns /\ i < SourceRow(t) /\ SourceRow(t) \in DOMAIN transcript
      BY <1>6, <1>7, <2>1
    <3>2. i \in DOMAIN transcript
      BY <1>2, <3>1
    <3> QED
      BY <3>1, <3>2 DEF ContextInv, TranscriptTells
  <2>2. ASSUME NEW t \in ContextTurns, NEW i \in RowsOf(t)'
        PROVE  RowTells(t, transcript'[i].mark, i = SourceRow(t)')
    <3>1. t \in OpenedTurns
      BY <1>6 DEF RowsOf, OpenedTurns
    <3>2. CASE i = last
      <4>1. SourceRow(t)' # last
        BY <1>2, <1>7, <3>1
      <4>2. t = a.turn
        BY <1>4, <3>2 DEF RowsOf
      <4> QED
        BY <1>4, <3>2, <4>1, <4>2 DEF RowTells
    <3>3. CASE i # last
      <4>1. i \in RowsOf(t) /\ i \in DOMAIN transcript /\ SourceRow(t)' = SourceRow(t)
        BY <1>2, <1>7, <3>1, <3>3 DEF RowsOf
      <4>2. RowTells(t, transcript[i].mark, i = SourceRow(t))
        BY <4>1 DEF ContextInv, TranscriptTells
      <4>3. \/ transcript'[i].mark = transcript[i].mark
            \/ transcript[i].mark = "pending" /\ transcript'[i].mark = "unavailable"
        BY <4>1
      <4> QED
        BY <4>1, <4>2, <4>3 DEF RowTells, MarkOf
    <3> QED
      BY <3>2, <3>3
  <2> QED
    BY <2>1, <2>2 DEF TranscriptTells
<1>17. inferring'[a.turn].status \notin OpenStatuses
  BY <1>10 DEF OpenStatuses
<1>18. ActivitiesTell'
  <2>1. \A u \in ContextTurns \ OpenedTurns' :
          inferring'[u].status = "none" /\ inferring'[u].budget = 0 /\ imports'[u] = NoImport
    BY <1>1, <1>6, <1>10 DEF ContextInv, ActivitiesTell
  <2>2. ASSUME NEW u \in ContextTurns, inferring'[u].status \in OpenStatuses
        PROVE  /\ u \in OpenedTurns' /\ inferring'[u].budget < ContextBudget
               /\ RowsOf(u)' = {SourceRow(u)'}
               /\ \A c \in clears' : c < SourceRow(u)'
    <3>1. u # a.turn /\ inferring'[u] = inferring[u]
      BY <1>10, <1>17, <2>2
    <3>2. /\ u \in OpenedTurns /\ inferring[u].budget < ContextBudget
          /\ RowsOf(u) = {SourceRow(u)} /\ \A c \in clears : c < SourceRow(u)
      BY <2>2, <3>1 DEF ContextInv, ActivitiesTell
    <3> QED
      BY <1>6, <1>7, <1>8, <3>1, <3>2
  <2>3. ASSUME NEW s \in ContextTurns, NEW u \in ContextTurns,
               inferring'[s].status = "processing", u < s
        PROVE  inferring'[u].status \notin OpenStatuses
    <3>1. inferring'[s] = inferring[s]
      BY <1>10, <1>17, <2>3 DEF OpenStatuses
    <3> QED
      BY <1>10, <1>17, <2>3, <3>1 DEF ContextInv, ActivitiesTell
  <2>4. ASSUME NEW i \in DOMAIN transcript', transcript'[i].mark = "pending"
        PROVE  \/ inferring'[transcript'[i].turn].status \in OpenStatuses
               \/ \E c \in clears' : i <= c
    <3>1. i \in DOMAIN transcript /\ transcript[i].mark = "pending"
            /\ transcript'[i].turn = transcript[i].turn /\ i # SourceRow(a.turn)
      BY <1>2, <1>4, <2>4 DEF MarkOf
    <3>2. transcript[i].turn # a.turn
      BY <1>12, <3>1
    <3> QED
      BY <1>10, <1>11, <3>1, <3>2 DEF ContextInv, ActivitiesTell
  <2> QED
    BY <2>1, <2>2, <2>3, <2>4 DEF ActivitiesTell
<1>19. FilesAreAccounted'
  <2> SUFFICES ASSUME NEW u \in Uploads \cap OpenedTurns'
               PROVE  LET mark == transcript'[SourceRow(u)'].mark IN
                      /\ (mark = "imported") = imports[u].receipt
                      /\ imports[u].receipt => imports[u].native
                      /\ imports[u].native => imports[u].intent
                      /\ mark = "unavailable" => ~imports[u].intent
                      /\ inferring'[u].status = "completed" => mark = "imported"
                      /\ inferring'[u].status = "failed" => mark # "pending"
    BY DEF FilesAreAccounted
  <2>1. /\ u \in OpenedTurns /\ SourceRow(u)' = SourceRow(u) /\ u \in ContextTurns
        /\ SourceRow(u) \in DOMAIN transcript
    BY <1>6, <1>7, <1>11
  <2>2. CASE u = a.turn
    <3>1. transcript'[SourceRow(u)].mark =
            IF transcript[SourceRow(u)].mark = "pending" THEN "unavailable"
            ELSE transcript[SourceRow(u)].mark
      BY <2>1, <2>2
    <3>2. /\ (transcript[SourceRow(u)].mark = "imported") = imports[u].receipt
          /\ imports[u].receipt => imports[u].native
          /\ imports[u].native => imports[u].intent
          /\ transcript[SourceRow(u)].mark = "unavailable" => ~imports[u].intent
      BY <2>1 DEF ContextInv, FilesAreAccounted
    <3>3. transcript[SourceRow(u)].mark = "pending" => ~imports[u].intent
      BY <2>2
    <3>4. inferring'[u].status = "completed" => transcript[SourceRow(u)].mark = "imported"
      BY <1>10, <2>2
    <3> QED
      BY <2>1, <3>1, <3>2, <3>3, <3>4
  <2>3. CASE u # a.turn
    <3>1. SourceRow(u) # SourceRow(a.turn)
      BY <1>1, <1>7, <2>1, <2>3
    <3>2. transcript'[SourceRow(u)].mark = transcript[SourceRow(u)].mark
      BY <2>1, <3>1
    <3>3. inferring'[u] = inferring[u]
      BY <1>10, <2>1, <2>3
    <3> QED
      BY <2>1, <3>2, <3>3 DEF ContextInv, FilesAreAccounted
  <2> QED
    BY <2>2, <2>3
<1>20. SummariesTell' /\ SlotTells'
  BY <1>1, <1>3, SummariesStay, SlotStays DEF ContextInv, Types
<1>21. ClearsGrow
  BY DEF ClearsGrow
<1>22. NothingGivenBack
  <2>1. ASSUME NEW b \in projecting, LeaseKept(b)' PROVE LeaseKept(b)
    <3>1. b.turn \in ContextTurns
      BY <1>1 DEF Attempts
    <3> QED
      BY <1>10, <1>17, <2>1, <3>1 DEF LeaseKept, OpenStatuses
  <2> QED
    BY <2>1 DEF NothingGivenBack
<1>23. \A b \in projecting' : b \in projecting
  BY DEF EndsAttempt
<1> QED
  BY <1>3, <1>15, <1>16, <1>18, <1>19, <1>20, <1>21, <1>22, <1>23, InvStays

LEMMA CommitStep == ASSUME ContextInv, NEW a \in projecting, CommitReply(a) PROVE ContextInv'
<1>1. /\ EndsAttempt(a) /\ a.at = "reply"
      /\ UNCHANGED <<clears, imports, compactions, windowCache, summarizing, troubles>>
  BY DEF CommitReply
<1>2. CASE ~LeaseKept(a)
  BY <1>1, <1>2, AttemptEnds DEF CommitReply, tables
<1>3. CASE LeaseKept(a)
  <2>1. /\ inferring \in [ContextTurns -> TurnActivity] /\ transcript \in Seq(TranscriptRow)
        /\ a.turn \in ContextTurns /\ ImportTells(a)
    BY DEF ContextInv, Types, Attempts
  <2> DEFINE row == [turn |-> a.turn, mark |-> MarkOf(a.turn)]
             new == [inferring[a.turn] EXCEPT !.status = "completed", !.token = 0]
  <2>2. row \in TranscriptRow /\ transcript' = Append(transcript, row)
    BY <1>3, <2>1 DEF CommitReply, TranscriptRow, Marks, MarkOf
  <2>3. new \in TurnActivity /\ new.status = "completed"
    <3>1. inferring[a.turn] \in TurnActivity
      BY <2>1
    <3> QED
      BY <3>1 DEF TurnActivity
  <2>4. inferring' = [inferring EXCEPT ![a.turn] = new]
    BY <1>3 DEF CommitReply
  <2> HIDE DEF new
  <2>5. /\ transcript' \in Seq(TranscriptRow) /\ Len(transcript') = Len(transcript) + 1
        /\ transcript'[Len(transcript) + 1] = row
        /\ \A i \in DOMAIN transcript : transcript'[i] = transcript[i]
    BY <2>1, <2>2, RowAppended
  <2>6. transcript[SourceRow(a.turn)].mark # "pending"
    <3>1. SourceRow(a.turn) \in RowsOf(a.turn)
      BY <2>1, SourceIsFirst DEF ImportTells
    <3> QED
      BY <1>1, <2>1, <3>1 DEF ContextInv, ImportTells, TranscriptTells, RowTells, MarkOf
  <2>7. a.turn \in Uploads => transcript[SourceRow(a.turn)].mark = "imported"
    BY <1>1, <2>1 DEF ImportTells
  <2>8. \A i \in DOMAIN transcript :
          /\ transcript'[i].turn = transcript[i].turn
          /\ transcript'[i].mark =
               IF i = SourceRow(a.turn) /\ transcript[i].mark = "pending"
               THEN "unavailable" ELSE transcript[i].mark
    BY <2>5, <2>6
  <2> QED
    BY <1>1, <1>3, <2>3, <2>4, <2>5, <2>6, <2>7, <2>8, TurnEnds
<1> QED
  BY <1>2, <1>3

LEMMA FailStep == ASSUME ContextInv, NEW a \in projecting, FailTurn(a) PROVE ContextInv'
<1> DEFINE row == SourceRow(a.turn)
           waits == transcript[row].mark = "pending"
           line == [turn |-> a.turn, mark |-> MarkOf(a.turn)]
           told == Append(transcript, line)
<1>1. /\ EndsAttempt(a) /\ GivesUp(a)
      /\ UNCHANGED <<clears, imports, compactions, windowCache, summarizing, troubles>>
  BY DEF FailTurn
<1>2. CASE UNCHANGED <<transcript, inferring>>
  BY <1>1, <1>2, AttemptEnds DEF tables
<1>3. CASE /\ LeaseKept(a) /\ (waits => MayHide(a.turn))
           /\ transcript' = IF waits THEN [told EXCEPT ![row].mark = "unavailable"] ELSE told
           /\ inferring' = [inferring EXCEPT ![a.turn] =
                [status |-> "failed", token |-> 0, budget |-> BudgetUsed(a)]]
  <2>1. /\ inferring \in [ContextTurns -> TurnActivity] /\ transcript \in Seq(TranscriptRow)
        /\ a.turn \in ContextTurns /\ ImportTells(a) /\ a.turn \in OpenedTurns
    BY DEF ContextInv, Types, Attempts, ImportTells
  <2>2. line \in TranscriptRow /\ row \in DOMAIN transcript
    BY <2>1, SourceIsFirst DEF TranscriptRow, Marks, MarkOf
  <2>3. /\ told \in Seq(TranscriptRow) /\ Len(told) = Len(transcript) + 1
        /\ told[Len(transcript) + 1] = line /\ Len(transcript) \in Nat
        /\ \A i \in DOMAIN transcript : told[i] = transcript[i]
        /\ row \in DOMAIN told /\ row # Len(transcript) + 1
        /\ DOMAIN told = 1 .. Len(transcript) + 1 /\ DOMAIN transcript = 1 .. Len(transcript)
    BY <2>1, <2>2, AppendProperties
  <2> HIDE DEF told, row
  <2>4. /\ transcript' \in Seq(TranscriptRow) /\ Len(transcript') = Len(transcript) + 1
        /\ \A i \in DOMAIN transcript :
             /\ transcript'[i].turn = transcript[i].turn
             /\ transcript'[i].mark =
                  IF i = row /\ transcript[i].mark = "pending"
                  THEN "unavailable" ELSE transcript[i].mark
        /\ transcript'[Len(transcript) + 1] = line
    <3>1. CASE waits
      <4> DEFINE hidden == [told[row] EXCEPT !.mark = "unavailable"]
      <4>1. told[row] \in TranscriptRow /\ told[row] = transcript[row]
        BY <2>2, <2>3
      <4>2. /\ hidden \in TranscriptRow /\ hidden.turn = transcript[row].turn
            /\ hidden.mark = "unavailable"
        BY <4>1 DEF TranscriptRow, Marks
      <4>3. transcript' = [told EXCEPT ![row] = hidden]
        BY <1>3, <3>1
      <4> HIDE DEF hidden
      <4>4. transcript' \in Seq(TranscriptRow) /\ Len(transcript') = Len(told)
        BY <2>3, <4>2, <4>3
      <4>5. \A i \in DOMAIN told : transcript'[i] = IF i = row THEN hidden ELSE told[i]
        BY <4>3
      <4>6. Len(transcript) + 1 \in DOMAIN told /\ \A i \in DOMAIN transcript : i \in DOMAIN told
        BY <2>3
      <4> QED
        BY <2>3, <3>1, <4>2, <4>4, <4>5, <4>6
    <3>2. CASE ~waits
      BY <1>3, <2>3, <3>2
    <3> QED
      BY <3>1, <3>2
  <2>5. BudgetUsed(a) \in 0 .. ContextBudget
    <3>1. inferring[a.turn].budget \in Nat /\ ContextBudget \in Nat
      BY <2>1, ContextAssumption DEF TurnActivity
    <3>2. inferring[a.turn].budget < ContextBudget
      BY <1>3, <2>1 DEF ContextInv, ActivitiesTell, LeaseKept, OpenStatuses
    <3> QED
      BY <3>1, <3>2 DEF BudgetUsed
  <2> DEFINE new == [status |-> "failed", token |-> 0, budget |-> BudgetUsed(a)]
  <2>6. new \in TurnActivity /\ new.status = "failed"
    BY <2>5 DEF TurnActivity
  <2>7. inferring' = [inferring EXCEPT ![a.turn] = new]
    BY <1>3
  <2> HIDE DEF new
  <2>8. transcript[row].mark = "pending" => ~imports[a.turn].intent
    BY <1>3 DEF MayHide
  <2> QED
    BY <1>1, <1>3, <2>4, <2>6, <2>7, <2>8, TurnEnds DEF row
<1> QED
  BY <1>2, <1>3 DEF FailTurn
-----------------------------------------------------------------------------
LEMMA ContextInvNext == ContextInv /\ [ContextNext]_contextVars => ContextInv'
<1> SUFFICES ASSUME ContextInv, [ContextNext]_contextVars PROVE ContextInv'
  OBVIOUS
<1>1. CASE UNCHANGED contextVars
  <2>1. /\ SummariesTell' /\ SlotTells' /\ UNCHANGED tables
    BY <1>1, SameTranscript DEF contextVars, tables
  <2>2. Types'
    BY <1>1 DEF contextVars, ContextInv, Types
  <2> QED
    BY <1>1, <2>1, <2>2, QuietStays DEF contextVars
<1>2. CASE OpenTurn \/ ClearHistory \/ ClaimTurn \/ RecoverTurn \/ ContextCrash \/ CacheExpires
  BY <1>2, OpenTurnStep, ClearHistoryStep, ClaimTurnStep, RecoverTurnStep, LossSteps
<1>3. ASSUME NEW a \in projecting,
             \/ ReadBounds(a) \/ ReadCheckpoint(a) \/ ReadRows(a) \/ ReadActive(a)
             \/ EnqueueCompaction(a) \/ FindIntent(a) \/ PrepareIntent(a) \/ ImportFile(a)
             \/ RecordImport(a) \/ AttemptFails(a) \/ ModelAnswers(a) \/ CommitReply(a)
             \/ TryLater(a) \/ FailTurn(a)
      PROVE  ContextInv'
  BY <1>3, ReadBoundsStep, ReadCheckpointStep, ReadRowsStep, ReadActiveStep, EnqueueStep,
     StageSteps, PrepareStep, ImportStep, RecordStep, CommitStep, TryLaterStep, FailStep
<1>4. CASE \/ ClaimCompaction \/ RecoverCompaction
           \/ \E c \in summarizing : CompleteCompaction(c) \/ SummaryFails(c) \/ FailCompaction(c)
  BY <1>4, SummarySteps
<1> QED
  BY <1>1, <1>2, <1>3, <1>4 DEF ContextNext
-----------------------------------------------------------------------------
LEMMA ContextInvAlways == ContextSpec => []ContextInv
<1> QED
  BY ContextInvInit, ContextInvNext, PTL DEF ContextSpec

LEMMA ContextInvTypes == ContextInv => ContextTypeOK
<1> SUFFICES ASSUME ContextInv PROVE ContextTypeOK
  OBVIOUS
<1>1. \A i \in DOMAIN transcript : transcript[i] \in TranscriptRow
  BY DEF ContextInv, Types
<1>2. clears \subseteq Nat /\ troubles \in 0 .. MaxTroubles
  BY DEF ContextInv, Types
<1>3. \A t \in ContextTurns : inferring[t] \in TurnActivity
  BY DEF ContextInv, Types
<1>4. \A a \in projecting : a.turn \in ContextTurns /\ a.first <= a.last
  BY DEF ContextInv, Types, Attempts, ImportTells
<1> QED
  BY <1>1, <1>2, <1>3, <1>4 DEF ContextTypeOK, TranscriptRow, Marks, TurnActivity

(* The rows behind the last reset before a turn are those of its epoch. *)
LEMMA EpochRows ==
  ASSUME ContextInv, NEW t \in OpenedTurns, NEW i \in Nat
  PROVE  /\ FloorOf(t) \in Nat
         /\ i # 0 => (FloorOf(t) < i <=> \A c \in clears : c < SourceRow(t) => c < i)
<1> DEFINE S == {0} \cup {d \in clears : d < SourceRow(t)}
<1>1. Len(transcript) \in Nat /\ clears \in SUBSET (0 .. Len(transcript))
  BY DEF ContextInv, Types
<1>2. 0 \in 0 .. Len(transcript)
  BY <1>1
<1>3. S \in SUBSET (0 .. Len(transcript)) /\ S # {} /\ FloorOf(t) = Max(S)
  BY <1>1, <1>2 DEF FloorOf
<1>4. \A c \in S : c = 0 \/ (c \in clears /\ c < SourceRow(t))
  OBVIOUS
<1>5. \A c \in clears : c < SourceRow(t) => c \in S
  OBVIOUS
<1> HIDE DEF S
<1>6. Max(S) \in S /\ \A y \in S : y <= Max(S)
  BY <1>1, <1>3, MaxOfNaturals
<1>7. \A y \in S : y \in Nat
  BY <1>1, <1>3
<1> DEFINE m == Max(S)
<1>8. m \in Nat /\ m \in S /\ \A y \in S : y <= m
  BY <1>6, <1>7
<1> HIDE DEF m
<1>9. ASSUME m < i, NEW c \in clears, c < SourceRow(t) PROVE c < i
  <2>1. c \in Nat /\ c <= m
    BY <1>5, <1>7, <1>8, <1>9
  <2> QED
    BY <1>8, <1>9, <2>1
<1>10. ASSUME i # 0, \A c \in clears : c < SourceRow(t) => c < i PROVE m < i
  <2>1. m = 0 \/ m < i
    BY <1>4, <1>8, <1>10
  <2> QED
    BY <1>10, <2>1
<1> QED
  BY <1>3, <1>8, <1>9, <1>10 DEF m

(* What an attempt that kept its claim shows the model, row by row. *)
LEMMA ContextInvWhole == ContextInv => ContextIsWhole
<1> SUFFICES ASSUME ContextInv, NEW a \in projecting, a.at = "infer", LeaseKept(a)
             PROVE  LET row == SourceRow(a.turn)
                        told == IF a.checkpoint = NoCompaction THEN {}
                                ELSE compactions[a.checkpoint].covers
                        seen == VisibleAmong(a.marks)
                                  \cup (IF a.turn \in Uploads THEN {row} ELSE {})
                    IN
                    /\ told \cap seen = {}
                    /\ told \cup seen =
                         IF a.turn \in Translations THEN {}
                         ELSE {i \in 1 .. a.last : /\ Visible(transcript[i].mark)
                                                  /\ \A c \in clears : c < row => c < i}
  BY DEF ContextIsWhole
<1> DEFINE row == SourceRow(a.turn)
           told == IF a.checkpoint = NoCompaction THEN {} ELSE compactions[a.checkpoint].covers
           seen == VisibleAmong(a.marks) \cup (IF a.turn \in Uploads THEN {row} ELSE {})
<1>1. /\ a \in Attempts /\ a.turn \in OpenedTurns /\ a.turn \in ContextTurns
      /\ transcript \in Seq(TranscriptRow)
      /\ a.start \in Nat /\ a.last \in Nat /\ a.first \in Nat /\ a.floor \in Nat
  BY DEF ContextInv, Types, Attempts, ImportTells
<1>2. /\ BoundsTell(a) /\ StartTells(a) /\ Agree(a.marks)
      /\ DOMAIN a.marks = a.start + 1 .. a.last
      /\ \A i \in DOMAIN a.marks : i < a.first => a.marks[i] # "pending"
  <2>1. AttemptTells(a) /\ a.at \in Located /\ a.at \in Assembled
    BY DEF ContextInv, Located, Assembled
  <2> QED
    BY <2>1 DEF AttemptTells, Located
<1>3. /\ a.first = row /\ a.last = row /\ a.floor = FloorOf(a.turn)
      /\ row \in RowsOf(a.turn) /\ row \in DOMAIN transcript /\ row \in Nat \ {0}
  BY <1>1, <1>2, SourceIsFirst DEF BoundsTell
<1>4. a.floor <= a.start /\ a.start < row
  BY <1>2, <1>3 DEF StartTells
<1>15. CASE a.turn \in Translations
  <2>1. told = {} /\ a.start + 1 = row /\ a.turn \notin Uploads
    BY <1>2, <1>3, <1>15, ContextAssumption DEF StartTells
  <2>2. transcript[row].mark = "excluded"
    BY <1>1, <1>3, <1>15, <2>1 DEF ContextInv, TranscriptTells, RowTells, MarkOf
  <2>3. \A i \in DOMAIN a.marks : i = row
    BY <1>1, <1>2, <1>3, <2>1
  <2>4. \A i \in DOMAIN a.marks : ~Visible(a.marks[i])
    BY <1>2, <2>2, <2>3 DEF Agree, Visible
  <2>5. seen = {}
    BY <2>1, <2>4 DEF VisibleAmong
  <2> HIDE DEF told, seen
  <2>6. told \cap seen = {} /\ told \cup seen = {}
    BY <2>1, <2>5
  <2> QED
    BY <1>15, <2>6 DEF told, seen, row
<1> SUFFICES ASSUME a.turn \notin Translations
             PROVE  /\ told \cap seen = {}
                    /\ told \cup seen = {i \in 1 .. a.last : /\ Visible(transcript[i].mark)
                                                            /\ \A c \in clears : c < row => c < i}
  BY <1>15 DEF told, seen, row
<1>5. /\ \A i \in told : i \in Nat /\ a.floor < i /\ i <= a.start
      /\ \A i \in Nat : a.floor < i /\ i <= a.start =>
           (i \in told <=> Visible(transcript[i].mark))
  <2>1. CASE a.checkpoint = NoCompaction
    <3>1. a.start = a.floor
      BY <1>2, <2>1 DEF StartTells
    <3> QED
      BY <1>1, <2>1, <3>1
  <2>2. CASE a.checkpoint # NoCompaction
    <3>1. /\ a.checkpoint \in DOMAIN compactions
          /\ a.checkpoint.floor = a.floor /\ a.checkpoint.through = a.start
      BY <1>2, <2>2 DEF StartTells
    <3>2. told = {i \in a.floor + 1 .. a.start : Visible(transcript[i].mark)}
      BY <2>2, <3>1 DEF ContextInv, SummariesTell
    <3> HIDE DEF told
    <3> QED
      BY <1>1, <3>2
  <2> QED
    BY <2>1, <2>2
<1>6. \A i \in a.start + 1 .. row : i < row => a.marks[i] = transcript[i].mark
  BY <1>2, <1>3 DEF Agree
<1>7. /\ a.turn \in Uploads => transcript[row].mark = "imported"
      /\ a.turn \notin Uploads => transcript[row].mark = "plain"
  BY <1>1, <1>3 DEF ContextInv, ImportTells, TranscriptTells, RowTells, MarkOf
<1>8. /\ row \in seen /\ Visible(transcript[row].mark)
  <2>1. row \in DOMAIN a.marks
    BY <1>1, <1>2, <1>3, <1>4
  <2>2. a.turn \notin Uploads => a.marks[row] = "plain"
    BY <1>2, <1>7, <2>1 DEF Agree
  <2> QED
    BY <1>7, <2>1, <2>2 DEF Visible, VisibleAmong
<1>9. \A i \in seen : i \in a.start + 1 .. row
  BY <1>1, <1>2, <1>3, <1>4 DEF VisibleAmong
<1>10. \A i \in a.start + 1 .. row : i \in seen <=> Visible(transcript[i].mark)
  <2> SUFFICES ASSUME NEW i \in a.start + 1 .. row
               PROVE  i \in seen <=> Visible(transcript[i].mark)
    OBVIOUS
  <2>1. CASE i = row
    BY <1>8, <2>1
  <2>2. CASE i # row
    <3>1. a.marks[i] = transcript[i].mark /\ i \in DOMAIN a.marks
      BY <1>1, <1>2, <1>3, <1>6, <2>2
    <3> QED
      BY <2>2, <3>1 DEF VisibleAmong
  <2> QED
    BY <2>1, <2>2
<1> DEFINE epoch == {i \in 1 .. a.last : /\ Visible(transcript[i].mark)
                                         /\ \A c \in clears : c < row => c < i}
<1>11. \A i : i \in epoch <=> i \in a.floor + 1 .. row /\ Visible(transcript[i].mark)
  <2>1. \A i \in Nat : i # 0 => (a.floor < i <=> \A c \in clears : c < row => c < i)
    BY <1>1, <1>3, EpochRows
  <2>2. \A i : i \in 1 .. a.last <=> i \in Nat /\ i # 0 /\ i <= row
    BY <1>1, <1>3
  <2>3. \A i : i \in a.floor + 1 .. row <=> i \in Nat /\ i # 0 /\ i <= row /\ a.floor < i
    BY <1>1, <1>3
  <2> HIDE DEF row
  <2> QED
    BY <2>1, <2>2, <2>3
<1> HIDE DEF told, seen, epoch, row
<1>12. told \cap seen = {}
  BY <1>1, <1>3, <1>5, <1>9
<1>13. \A i : i \in told \cup seen <=> i \in epoch
  <2>1. \A i \in told : i \in epoch
    BY <1>1, <1>3, <1>4, <1>5, <1>11
  <2>2. \A i \in seen : i \in epoch
    BY <1>1, <1>3, <1>4, <1>9, <1>10, <1>11
  <2>3. \A i \in epoch : i \in told \cup seen
    BY <1>1, <1>3, <1>4, <1>5, <1>10, <1>11
  <2> QED
    BY <2>1, <2>2, <2>3
<1>14. told \cup seen = epoch
  BY <1>13
<1> QED
  BY <1>12, <1>14 DEF told, seen, epoch, row
-----------------------------------------------------------------------------
(* Rows, resets, activities and attempts keep their types. *)
THEOREM ContextTypesCorrect == ContextSpec => []ContextTypeOK
<1> QED
  BY ContextInvAlways, ContextInvTypes, PTL

(* projection.py, cache.py, context_window.py: for any history of resets,    *)
(* summaries, caches and imports, an attempt that kept its claim shows the   *)
(* model every visible row of its epoch once, in a summary or as it is.      *)
THEOREM EveryRowOnce == ContextSpec => []ContextIsWhole
<1> QED
  BY ContextInvAlways, ContextInvWhole, PTL

(* workspace_attachment_*.py: a row shows its file exactly when a receipt    *)
(* says it is there, and a hidden file was not imported nor may it be.       *)
THEOREM FilesSettled == ContextSpec => []FilesAreAccounted
<1>1. ContextInv => FilesAreAccounted
  BY DEF ContextInv
<1> QED
  BY <1>1, ContextInvAlways, PTL
=============================================================================
