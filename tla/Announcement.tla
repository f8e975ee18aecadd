---------------------------- MODULE Announcement -----------------------------
(***************************************************************************)
(* One announcement of an administrator: the audience is frozen when the   *)
(* command is accepted, every recipient's row is expanded to an outbound   *)
(* message under a lease, and when all of those were delivered or          *)
(* given up the administrator gets a report with the counts                *)
(* (infrastructure/admin/announcements.py, application/admin/runtime.py).  *)
(* Announcements share nothing, so one stands for all.  A message is sent  *)
(* by the outbox, which is modelled by itself; here it is delivered or     *)
(* given up some time after it was enqueued.                               *)
(***************************************************************************)
EXTENDS Naturals, FiniteSets

CONSTANTS
  Chats,                 \* users and groups that an announcement may go to
  MaxExpansions,         \* max_attempts of the runtime
  MaxAnnouncementClaims, \* bound on the claims
  MaxAnnouncementFaults  \* bound on crashes, lost leases and failed calls

ASSUME AnnouncementAssumption ==
  /\ IsFiniteSet(Chats) /\ "completion" \notin Chats
  /\ MaxExpansions \in Nat \ {0}
  /\ MaxAnnouncementClaims \in Nat /\ MaxAnnouncementFaults \in Nat

VARIABLES
  announcement, \* state of the row of admin.announcements
  recipient,    \* the rows of admin.announcement_recipients
  outbound,     \* what became of the outbound message of each recipient
  report,       \* the counts in the outbound message of the report
  expanding,    \* claims that the runtime is working on
  receiptClaims,
  announcementFaults

announcementVars ==
  <<announcement, recipient, outbound, report, expanding, receiptClaims, announcementFaults>>

Recipients == Chats \cup {"completion"}
Unsent == [delivered |-> 0, failed |-> 0]
NoRecipient == [status |-> "none", attempts |-> 0, token |-> 0]

AnnouncementInit ==
  /\ announcement = "none"
  /\ recipient = [r \in Recipients |-> NoRecipient]
  /\ outbound = [r \in Recipients |-> "none"]
  /\ report = Unsent
  /\ expanding = {}
  /\ receiptClaims = 0 /\ announcementFaults = 0

AnnouncementFault ==
  /\ announcementFaults < MaxAnnouncementFaults
  /\ announcementFaults' = announcementFaults + 1

Audience == {r \in Chats : recipient[r].status # "none"}

(* accept: the audience, the blocked completion row and the state in one   *)
(* transaction.  A replay with the same key finds the row and changes      *)
(* nothing.                                                                *)
AcceptAnnouncement(audience) ==
  /\ announcement = "none"
  /\ announcement' = IF audience = {} THEN "delivering" ELSE "expanding"
  /\ recipient' = [r \in Recipients |->
       [NoRecipient EXCEPT !.status = CASE r \in audience -> "pending"
                                      [] r = "completion" -> "blocked"
                                      [] OTHER -> "none"]]
  /\ UNCHANGED <<outbound, report, expanding, receiptClaims, announcementFaults>>

----------------------------------------------------------------------------
(* Completion *)

Undelivered == {"failed_final", "cancelled"}

Expanded(how) == {r \in Audience : recipient[r].status = "expanded" /\ outbound[r] \in how}

(* The counts that a claim takes along and the report shows. *)
Counts ==
  [delivered |-> Cardinality(Expanded({"delivered"})),
   failed |-> Cardinality({r \in Audience : recipient[r].status = "failed_final"}
                            \cup Expanded(Undelivered))]

(* Mutant of DeliveryEnded: what was enqueued counts as sent. *)
DeliveryEndedEarly == TRUE

DeliveryEnded == Expanded({"pending"}) = {}

PromoteCompletion ==
  /\ announcement = "delivering"
  /\ DeliveryEnded
  /\ announcement' = "completed"
  /\ recipient' = [recipient EXCEPT !["completion"].status = "pending"]
  /\ UNCHANGED <<outbound, report, expanding, receiptClaims, announcementFaults>>

----------------------------------------------------------------------------
(* Expansion *)

ClaimRecipient(r) ==
  /\ recipient[r].status \in {"pending", "retry_wait"}
  /\ receiptClaims < MaxAnnouncementClaims
  /\ receiptClaims' = receiptClaims + 1
  /\ recipient' = [recipient EXCEPT ![r] = [status |-> "processing", attempts |-> @.attempts + 1,
                                              token |-> receiptClaims']]
  /\ expanding' = expanding \cup {[of |-> r, token |-> receiptClaims', counts |-> Counts,
                                   step |-> "enqueue"]}
  /\ UNCHANGED <<announcement, outbound, report, announcementFaults>>

OwnsRecipient(c) == recipient[c.of].status = "processing" /\ recipient[c.of].token = c.token

Onward(c, step) == expanding' = (expanding \ {c}) \cup {[c EXCEPT !.step = step]}

(* The transaction of the outbox, by an idempotency key: a message that is *)
(* there with the same text is left alone, another text is a conflict.     *)
EnqueueAnnouncement(c) ==
  /\ c.step = "enqueue"
  /\ IF outbound[c.of] = "none"
       THEN /\ outbound' = [outbound EXCEPT ![c.of] = "pending"]
            /\ report' = IF c.of = "completion" THEN c.counts ELSE report
       ELSE UNCHANGED <<outbound, report>>
  /\ IF outbound[c.of] # "none" /\ c.of = "completion" /\ report # c.counts
       THEN Onward(c, "failed")
       ELSE Onward(c, "persist")
  /\ UNCHANGED <<announcement, recipient, receiptClaims, announcementFaults>>

ExpansionFails(c) ==
  /\ c.step \in {"enqueue", "persist"}
  /\ AnnouncementFault
  /\ Onward(c, "failed")
  /\ UNCHANGED <<announcement, recipient, outbound, report, receiptClaims>>

Terminal == {"expanded", "failed_final"}

AudienceSettled(receipts) == \A r \in Audience : receipts[r].status \in Terminal

(* _advance_audience_expansion, in the transaction of the settlement and   *)
(* under the lock of the announcement's row.                               *)
Advanced(receipts) ==
  IF announcement = "expanding" /\ AudienceSettled(receipts) THEN "delivering" ELSE announcement

SettledAs(c, status) == [recipient EXCEPT ![c.of].status = status, ![c.of].token = 0]

(* A claim that was recovered meanwhile settles nothing. *)
SettleRecipient(c, status) ==
  /\ expanding' = expanding \ {c}
  /\ IF OwnsRecipient(c)
       THEN /\ recipient' = SettledAs(c, status)
            /\ announcement' = IF c.of # "completion" /\ status \in Terminal
                                 THEN Advanced(recipient') ELSE announcement
       ELSE UNCHANGED <<recipient, announcement>>
  /\ UNCHANGED <<outbound, report, receiptClaims, announcementFaults>>

PersistExpanded(c) == c.step = "persist" /\ SettleRecipient(c, "expanded")

(* The failure handler: another attempt, or none. *)
PersistFailure(c) ==
  /\ c.step = "failed"
  /\ SettleRecipient(c, IF recipient[c.of].attempts >= MaxExpansions
                        THEN "failed_final" ELSE "retry_wait")

(* That a lease elapses while the claim is being worked on is a fault. *)
RecoverRecipient(r) ==
  /\ recipient[r].status = "processing"
  /\ IF \E c \in expanding : c.of = r /\ OwnsRecipient(c)
       THEN AnnouncementFault ELSE UNCHANGED announcementFaults
  /\ recipient' = [recipient EXCEPT ![r].status = "retry_wait", ![r].token = 0]
  /\ UNCHANGED <<announcement, outbound, report, expanding, receiptClaims>>

(* A crash, or a failure handler that could not write: the rest of the     *)
(* batch is dropped with it.                                               *)
ExpansionDropped ==
  /\ AnnouncementFault
  /\ expanding' = {}
  /\ UNCHANGED <<announcement, recipient, outbound, report, receiptClaims>>

OutboundEnds(r, how) ==
  /\ outbound[r] = "pending"
  /\ outbound' = [outbound EXCEPT ![r] = how]
  /\ UNCHANGED <<announcement, recipient, report, expanding, receiptClaims, announcementFaults>>

----------------------------------------------------------------------------
AnnouncementNext ==
  \/ \E audience \in SUBSET Chats : AcceptAnnouncement(audience)
  \/ PromoteCompletion \/ ExpansionDropped
  \/ \E r \in Recipients :
       \/ ClaimRecipient(r) \/ RecoverRecipient(r)
       \/ \E how \in {"delivered"} \cup Undelivered : OutboundEnds(r, how)
  \/ \E c \in expanding :
       EnqueueAnnouncement(c) \/ ExpansionFails(c) \/ PersistExpanded(c) \/ PersistFailure(c)

AnnouncementSpec == AnnouncementInit /\ [][AnnouncementNext]_announcementVars

----------------------------------------------------------------------------
DeliveryCounts == [delivered : Nat, failed : Nat]

AnnouncementTypeOK ==
  /\ announcement \in {"none", "expanding", "delivering", "completed"}
  /\ recipient \in [Recipients -> [status : {"none", "blocked", "pending", "processing",
                                              "retry_wait"} \cup Terminal,
                                    attempts : Nat, token : Nat]]
  /\ outbound \in [Recipients -> {"none", "pending", "delivered"} \cup Undelivered]
  /\ report \in DeliveryCounts
  /\ expanding \subseteq [of : Recipients, token : Nat, counts : DeliveryCounts,
                          step : {"enqueue", "persist", "failed"}]
  /\ receiptClaims \in Nat /\ announcementFaults \in Nat

(* The administrator's report is neither forgotten nor early, and true:     *)
(* while the announcement expands someone is left whose settlement will     *)
(* advance it, while it delivers the report waits, and the counts that were *)
(* enqueued, once and whatever was retried, are those of everybody's final  *)
(* outcome (announcements.py:765 and 280).                                  *)
ReportComplete ==
  /\ announcement = "expanding" => ~AudienceSettled(recipient)
  /\ announcement = "delivering" =>
       AudienceSettled(recipient) /\ recipient["completion"].status = "blocked"
  /\ announcement = "completed" =>
       DeliveryEnded /\ recipient["completion"].status # "blocked"
  /\ outbound["completion"] # "none" =>
       report = Counts /\ report.delivered + report.failed = Cardinality(Audience)
=============================================================================
