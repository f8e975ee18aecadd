------------------------------ MODULE Services ------------------------------
(***************************************************************************)
(* The services that share nothing but the process: each behaviour runs    *)
(* one of them, and the others stay as they began.  They use disjoint      *)
(* tables and no common state, so the behaviours of the whole are          *)
(* interleavings of these.                                                 *)
(***************************************************************************)
EXTENDS AssistantAgent, Billing, Verification, UserProfile, Announcement, Schedules, Supervisor,
        Economy, ContextWindow

VARIABLE running  \* the service that this behaviour is about

servicesVars == <<running, vars, billingVars, verificationVars, dreamVars, announcementVars,
                  scheduleVars, supervisorVars, economyVars, contextVars>>

ServicesInit ==
  /\ running \in {"agent", "billing", "verification", "profile", "announcement", "schedules",
                  "lifecycle", "economy", "context"}
  /\ Init /\ BillingInit /\ VerificationInit /\ UserProfileInit
  /\ AnnouncementInit /\ SchedulesInit /\ SupervisorInit
  /\ ContextInit /\ EconomyInit
  /\ (running # "economy" => agenda = CHOOSE a \in Agendas : TRUE)

AgentStep ==
  /\ running = "agent" /\ Next
  /\ UNCHANGED <<running, billingVars, verificationVars, dreamVars, announcementVars,
                  scheduleVars, supervisorVars, economyVars, contextVars>>

BillingStep ==
  /\ running = "billing" /\ BillingNext
  /\ UNCHANGED <<running, vars, verificationVars, dreamVars, announcementVars,
                  scheduleVars, supervisorVars, economyVars, contextVars>>

VerificationStep ==
  /\ running = "verification" /\ VerificationNext
  /\ UNCHANGED <<running, vars, billingVars, dreamVars, announcementVars,
                  scheduleVars, supervisorVars, economyVars, contextVars>>

ProfileStep ==
  /\ running = "profile" /\ UserProfileNext
  /\ UNCHANGED <<running, vars, billingVars, verificationVars, announcementVars,
                  scheduleVars, supervisorVars, economyVars, contextVars>>

AnnouncementStep ==
  /\ running = "announcement" /\ AnnouncementNext
  /\ UNCHANGED <<running, vars, billingVars, verificationVars, dreamVars,
                  scheduleVars, supervisorVars, economyVars, contextVars>>

SchedulesStep ==
  /\ running = "schedules" /\ SchedulesNext
  /\ UNCHANGED <<running, vars, billingVars, verificationVars, dreamVars,
                  announcementVars, supervisorVars, economyVars, contextVars>>

LifecycleStep ==
  /\ running = "lifecycle" /\ SupervisorNext
  /\ UNCHANGED <<running, vars, billingVars, verificationVars, dreamVars,
                  announcementVars, scheduleVars, economyVars, contextVars>>

EconomyStep ==
  /\ running = "economy" /\ EconomyNext
  /\ UNCHANGED <<running, vars, billingVars, verificationVars, dreamVars,
                  announcementVars, scheduleVars, supervisorVars, contextVars>>

ContextStep ==
  /\ running = "context" /\ ContextNext
  /\ UNCHANGED <<running, vars, billingVars, verificationVars, dreamVars,
                  announcementVars, scheduleVars, supervisorVars, economyVars>>

ServicesNext ==
  \/ AgentStep \/ BillingStep \/ VerificationStep \/ ProfileStep
  \/ AnnouncementStep \/ SchedulesStep \/ LifecycleStep \/ EconomyStep
  \/ ContextStep

ServicesSpec == ServicesInit /\ [][ServicesNext]_servicesVars

ServicesTypeOK ==
  /\ TypeOK /\ BillingTypeOK /\ VerificationTypeOK /\ UserProfileTypeOK
  /\ AnnouncementTypeOK /\ SchedulesTypeOK /\ SupervisorTypeOK
  /\ EconomyTypeOK /\ ContextTypeOK
=============================================================================
