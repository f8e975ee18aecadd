------------------------------- MODULE Economy -------------------------------
(***************************************************************************)
(* The operations that move free tokens: registration, referral, check-in, *)
(* lottery, tasks, gifts and omikuji, the bank's own requests, issues and  *)
(* funding, the rounds of chance and the town's treasury.  Each is one     *)
(* command, decided in a transaction of Bank; commands come again with     *)
(* their key, at any time and at several connections at once.              *)
(*                                                                         *)
(* Simplifications.  Gifts and omikuji are those of one day; there is one  *)
(* task, request and round per user, and one town with one project.  What  *)
(* a round pays is drawn when it is bound.                                 *)
(***************************************************************************)
EXTENDS Bank, FiniteSets

CONSTANTS
  Agendas,      \* the sets of commands that a behaviour may be about
  Members,      \* the citizens who are registered at first
  GiftLimit,    \* gifts that a user may make in a day
  Cooldown,     \* the time between two lotteries of a user
  Bonus,        \* for a new account, and for each side of a referral
  Payouts,      \* what a round of chance may pay
  ProjectCost   \* required_amount of the project

Operations ==
  {"register", "referral", "check_in", "lottery", "task", "gift", "omikuji", "request",
   "approve", "reject", "issue", "fund", "commit", "bind", "town", "project", "contribute",
   "complete"}

(* A row of a request is named by its user, who therefore makes one. *)
ASSUME EconomyAssumption ==
  /\ Members \subseteq Citizens
  /\ {GiftLimit, Cooldown, Bonus, ProjectCost} \subseteq Nat \ {0}
  /\ Payouts \subseteq Nat
  /\ \A commands \in Agendas :
       /\ commands \subseteq
            [op : Operations, key : Nat, user : Citizens, other : Citizens \cup {0},
             amount : Nat, day : Nat]
       /\ \A c \in commands : c.op \in {"referral", "gift"} => c.other \in Citizens
       /\ \A c, d \in commands :
            c.op = "request" /\ d.op = "request" /\ c.user = d.user => c = d

VARIABLE agenda  \* the commands of this behaviour

economyVars == <<bankVars, agenda>>

NoTown == [status |-> "none", balance |-> 0, reserved |-> 0, project |-> "none", funded |-> 0]

Names ==
  ({"user", "invitation", "task", "omikuji", "gifts", "lottery", "streak", "request", "round"}
     \X Citizens)
  \cup {<<"town">>}

InitialRows ==
  [r \in Names |->
     CASE r[1] = "user" -> r[2] \in Members
       [] r[1] \in {"invitation", "task", "omikuji"} -> FALSE
       [] r[1] \in {"gifts", "lottery"} -> 0
       [] r[1] = "streak" -> [last |-> 0, days |-> 0]
       [] r[1] = "request" -> [status |-> "none", amount |-> 0]
       [] r[1] = "round" -> [status |-> "none", stake |-> 0]
       [] r[1] = "town" -> NoTown]

EconomyInit == BankInit(InitialRows) /\ agenda \in Agendas

Registered(u) == rows[<<"user", u>>]
Town == rows[<<"town">>]

----------------------------------------------------------------------------
(* Locks. *)

Unless(present, row) == IF present THEN {} ELSE {row}

(* The advisory locks beside that of the key, the rows selected for update  *)
(* and those whose insertion waits for another's.                           *)
LockedRows(c) ==
  CASE c.op = "register" -> Unless(Registered(c.user), <<"user", c.user>>)
    [] c.op = "referral" ->
         Unless(Registered(c.user), <<"user", c.user>>)
         \cup Unless(rows[<<"invitation", c.user>>], <<"invitation", c.user>>)
    [] c.op = "check_in" ->
         {<<"day", c.user, c.day>>}
         \cup Unless(rows[<<"streak", c.user>>].last = 0, <<"streak", c.user>>)
    [] c.op = "lottery" -> {<<"lottery", c.user>>}
    [] c.op = "task" -> Unless(rows[<<"task", c.user>>], <<"task", c.user>>)
    [] c.op \in {"approve", "reject"} -> {<<"request", c.user>>}
    [] c.op \in {"commit", "bind"} -> {<<"round", c.user>>}
    [] c.op \in {"town", "project", "contribute", "complete"} -> {<<"town">>}
    [] OTHER -> {}

(* Mutant of KeysOf: rows are looked up without their locks. *)
KeysAlone(c) == {<<"key", c.key>>}

(* All but registration lock their idempotency key first. *)
KeysOf(c) == LockedRows(c) \cup Unless(c.op = "register", <<"key", c.key>>)

(* A contribution for the project (day 1), or for the treasury alone. *)
Fundable(c) ==
  c.day = 0 \/ (Town.project = "funding" /\ Town.funded + c.amount <= ProjectCost)

(* The accounts whose balances are locked and looked at before deciding. *)
LooksAt(c) ==
  CASE c.op = "gift" /\ Registered(c.user) /\ Registered(c.other) /\ c.user # c.other ->
         {Free(c.user), Free(c.other)}
    [] c.op = "omikuji" /\ Registered(c.user) -> {Free(c.user), Burn}
    [] c.op = "bind" /\ c.other = c.user /\ rows[<<"round", c.user>>].status = "committed" ->
         {Free(c.user), ActivityPot}
    [] c.op = "contribute" /\ Registered(c.user) /\ Town.status = "open" /\ Fundable(c) ->
         {Free(c.user), Treasury}
    [] c.op = "complete" /\ Registered(c.user) /\ Town.project = "ready" -> {Treasury, Burn}
    [] OTHER -> {}

Receive(t) == \E c \in agenda : Begin(t, c, KeysOf(c), LooksAt(c))

----------------------------------------------------------------------------
(* Accounts and rewards. *)

Issue(u, amount) == Transfer(Issuance, Free(u), amount)

Register(t) ==
  \E u \in Citizens :
    /\ Deciding(t, "register", u)
    /\ \/ Registered(u) /\ Refuse(t)
       \/ /\ ~Registered(u)
          /\ Approve(t, <<Issue(u, Bonus)>>, Write(<<"user", u>>, TRUE), {<<"bonus", u>>})

(* The bonus of a new account is part of what the invited user gets.        *)
BindReferral(t) ==
  \E u \in Citizens :
    LET referrer == tx[t].command.other
        bonus == IF Registered(u) THEN 0 ELSE Bonus
    IN
    /\ Deciding(t, "referral", u)
    /\ \/ ~Registered(referrer) /\ Dismiss(t)
       \/ Registered(referrer) /\ rows[<<"invitation", u>>] /\ Refuse(t)
       \/ /\ Registered(referrer) /\ ~rows[<<"invitation", u>>]
          /\ Approve(t, <<Issue(u, Bonus + bonus), Issue(referrer, Bonus)>>,
                     [r \in {<<"user", u>>, <<"invitation", u>>} |-> TRUE],
                     {<<"referral", u>>} \cup Unless(bonus = 0, <<"bonus", u>>))

Reward(days) == LET tier == (days - 1) \div 5 + 1 IN IF tier < 7 THEN tier ELSE 7

StreakAfter(streak, day) ==
  [last |-> day, days |-> IF streak.last = day - 1 THEN streak.days + 1 ELSE 1]

CheckIn(t) ==
  \E u \in Citizens :
    LET streak == rows[<<"streak", u>>]
        day == tx[t].command.day
        next == StreakAfter(streak, day)
    IN
    /\ Deciding(t, "check_in", u)
    /\ \/ ~Registered(u) /\ Dismiss(t)
       \/ Registered(u) /\ streak.last = day /\ Refuse(t)
       \/ /\ Registered(u) /\ streak.last # day
          /\ Approve(t, <<Issue(u, Reward(next.days))>>, Write(<<"streak", u>>, next),
                     {<<"check_in", u, day>>})

(* The row holds the next eligible time. *)
Lottery(t) ==
  \E u \in Citizens :
    LET now == tx[t].command.day IN
    /\ Deciding(t, "lottery", u)
    /\ \/ ~Registered(u) /\ Dismiss(t)
       \/ Registered(u) /\ now < rows[<<"lottery", u>>] /\ Refuse(t)
       \/ /\ Registered(u) /\ now >= rows[<<"lottery", u>>]
          /\ Approve(t, <<Issue(u, tx[t].command.amount)>>,
                     Write(<<"lottery", u>>, now + Cooldown), {<<"lottery", u, now>>})

ClaimTaskReward(t) ==
  \E u \in Citizens :
    /\ Deciding(t, "task", u)
    /\ \/ ~Registered(u) /\ Dismiss(t)
       \/ Registered(u) /\ rows[<<"task", u>>] /\ Refuse(t)
       \/ /\ Registered(u) /\ ~rows[<<"task", u>>]
          /\ Approve(t, <<Issue(u, tx[t].command.amount)>>, Write(<<"task", u>>, TRUE),
                     {<<"task", u>>})

----------------------------------------------------------------------------
(* Gifts and omikuji. *)

Fee(amount) ==
  IF amount = 1 THEN 0 ELSE IF amount < 10 THEN 1 ELSE amount \div 5

Give(t) ==
  \E u \in Citizens :
    LET target == tx[t].command.other
        amount == tx[t].command.amount
        fee == Fee(amount)
        count == rows[<<"gifts", u>>]
    IN
    /\ Deciding(t, "gift", u)
    /\ \/ ~Registered(u) /\ Dismiss(t)
       \/ Registered(u) /\ ~Looked(t) /\ Refuse(t)
       \/ Looked(t) /\ (count >= GiftLimit \/ balance[Free(u)] < amount + fee) /\ Refuse(t)
       \/ /\ Looked(t) /\ count < GiftLimit /\ balance[Free(u)] >= amount + fee
          /\ Approve(t, <<Transfer(Free(u), Free(target), amount)>>
                        \o IF fee = 0 THEN <<>> ELSE <<Transfer(Free(u), Burn, fee)>>,
                     Write(<<"gifts", u>>, count + 1), {<<"gift", u>>})

DrawOmikuji(t) ==
  \E u \in Citizens :
    /\ Deciding(t, "omikuji", u)
    /\ \/ ~Looked(t) /\ Refuse(t)
       \/ Looked(t) /\ (rows[<<"omikuji", u>>] \/ balance[Free(u)] < 1) /\ Refuse(t)
       \/ /\ Looked(t) /\ ~rows[<<"omikuji", u>>] /\ balance[Free(u)] >= 1
          /\ Approve(t, <<Transfer(Free(u), Burn, 1)>>, Write(<<"omikuji", u>>, TRUE),
                     {<<"omikuji", u>>})

----------------------------------------------------------------------------
(* The bank. *)

RequestTokens(t) ==
  \E u \in Citizens :
    /\ Deciding(t, "request", u)
    /\ \/ ~Registered(u) /\ Dismiss(t)
       \/ /\ Registered(u) /\ rows[<<"request", u>>].status = "none"
          /\ Approve(t, <<>>,
               Write(<<"request", u>>, [status |-> "pending", amount |-> tx[t].command.amount]),
               {})

(* `other` is the reviewer; nobody reviews a request of their own. *)
ReviewTokenRequest(t) ==
  \E u \in Citizens :
    LET request == rows[<<"request", u>>] IN
    /\ Deciding(t, "approve", u) \/ Deciding(t, "reject", u)
    /\ \/ request.status # "pending" /\ Refuse(t)
       \/ tx[t].command.other = u /\ Refuse(t)
       \/ /\ request.status = "pending" /\ tx[t].command.other # u
          /\ tx[t].command.op = "reject"
          /\ Approve(t, <<>>, Write(<<"request", u>>, [request EXCEPT !.status = "rejected"]), {})
       \/ /\ request.status = "pending" /\ tx[t].command.other # u
          /\ tx[t].command.op = "approve"
          /\ Approve(t, <<Issue(u, request.amount)>>,
                     Write(<<"request", u>>, [request EXCEPT !.status = "approved"]),
                     {<<"request", u>>})

IssueTokens(t) ==
  \E u \in Citizens :
    /\ Deciding(t, "issue", u)
    /\ \/ ~Registered(u) /\ Refuse(t)
       \/ /\ Registered(u)
          /\ Approve(t, <<Issue(u, tx[t].command.amount)>>, <<>>,
                     {<<"issue", tx[t].command.key>>})

FundActivityPot(t) ==
  \E u \in Citizens :
    /\ Deciding(t, "fund", u)
    /\ \/ ~Registered(u) /\ Refuse(t)
       \/ /\ Registered(u)
          /\ Approve(t, <<Transfer(Issuance, ActivityPot, tx[t].command.amount)>>, <<>>,
                     {<<"fund", tx[t].command.key>>})

----------------------------------------------------------------------------
(* Rounds of chance: what is refused leaves no receipt. *)

CommitChanceRound(t) ==
  \E u \in Citizens :
    LET round == rows[<<"round", u>>] IN
    /\ Deciding(t, "commit", u)
    /\ \/ ~Registered(u) /\ Dismiss(t)
       \/ /\ Registered(u) /\ round.status # "none"
          /\ Refuse(t) \/ Dismiss(t)  \* the same round, or one with another seed
       \/ /\ Registered(u) /\ round.status = "none"
          /\ Approve(t, <<>>,
               Write(<<"round", u>>, [status |-> "committed", stake |-> tx[t].command.amount]), {})

(* The round is that of `user`; `other` is who asks, from one of its scopes.   *)
(* A round that is not there (NOT_FOUND), of another player (FORBIDDEN),       *)
(* asked for from another scope (SCOPE_MISMATCH: `other` = 0) or settled       *)
(* already is answered before any account is locked and leaves no receipt.     *)
BindAndSettleChanceRound(t) ==
  \E u \in Citizens, credited \in Payouts :
    LET round == rows[<<"round", u>>]
        covered == balance[Free(u)] >= round.stake
                   /\ balance[ActivityPot] + round.stake >= credited
    IN
    /\ Deciding(t, "bind", u)
    /\ \/ ~Looked(t) /\ Dismiss(t)
       \/ Looked(t) /\ ~covered /\ Dismiss(t)
       \/ /\ Looked(t) /\ covered
          /\ Approve(t, <<Transfer(Free(u), ActivityPot, round.stake)>>
                        \o IF credited = 0 THEN <<>>
                           ELSE <<Transfer(ActivityPot, Free(u), credited)>>,
                     Write(<<"round", u>>, [round EXCEPT !.status = "settled"]), {<<"round", u>>})

----------------------------------------------------------------------------
(* The town. *)

EnsureTown(t) ==
  /\ \E u \in Citizens : Deciding(t, "town", u)
  /\ \/ Town.status = "open" /\ Refuse(t)
     \/ /\ Town.status = "none"
        /\ Approve(t, <<>>, Write(<<"town">>, [Town EXCEPT !.status = "open"]), {})

CreateProject(t) ==
  \E u \in Citizens :
    /\ Deciding(t, "project", u)
    /\ \/ ~(Registered(u) /\ Town.status = "open" /\ Town.project = "none") /\ Refuse(t)
       \/ /\ Registered(u) /\ Town.status = "open" /\ Town.project = "none"
          /\ Approve(t, <<>>, Write(<<"town">>, [Town EXCEPT !.project = "funding"]), {})

Credited(town, amount, targeted) ==
  LET funded == town.funded + (IF targeted THEN amount ELSE 0) IN
  [town EXCEPT !.balance = @ + amount,
               !.reserved = @ + (IF targeted THEN amount ELSE 0),
               !.funded = funded,
               !.project = IF targeted /\ funded = ProjectCost THEN "ready" ELSE @]

Contribute(t) ==
  \E u \in Citizens :
    LET amount == tx[t].command.amount
        possible == balance[Free(u)] >= amount /\ balance[Treasury] = Town.balance
    IN
    /\ Deciding(t, "contribute", u)
    /\ \/ ~Looked(t) /\ Refuse(t)
       \/ Looked(t) /\ ~possible /\ Refuse(t)
       \/ /\ Looked(t) /\ possible
          /\ Approve(t, <<Transfer(Free(u), Treasury, amount)>>,
                     Write(<<"town">>, Credited(Town, amount, tx[t].command.day = 1)),
                     {<<"contribute", tx[t].command.key>>})

CompleteProject(t) ==
  /\ \E u \in Citizens : Deciding(t, "complete", u)
  /\ \/ ~Looked(t) /\ Refuse(t)
     \/ /\ Looked(t)
        /\ balance[Treasury] # Town.balance \/ balance[Treasury] < ProjectCost
        /\ Refuse(t)
     \/ /\ Looked(t) /\ balance[Treasury] = Town.balance /\ balance[Treasury] >= ProjectCost
        /\ Approve(t, <<Transfer(Treasury, Burn, ProjectCost)>>,
                   Write(<<"town">>,
                         [Town EXCEPT !.balance = @ - ProjectCost,
                                      !.reserved = @ - ProjectCost,
                                      !.project = "completed"]),
                   {<<"project">>})

----------------------------------------------------------------------------
Decide(t) ==
  \/ Register(t) \/ BindReferral(t) \/ CheckIn(t) \/ Lottery(t) \/ ClaimTaskReward(t)
  \/ Give(t) \/ DrawOmikuji(t) \/ RequestTokens(t) \/ ReviewTokenRequest(t)
  \/ IssueTokens(t) \/ FundActivityPot(t) \/ CommitChanceRound(t)
  \/ BindAndSettleChanceRound(t) \/ EnsureTown(t) \/ CreateProject(t) \/ Contribute(t)
  \/ CompleteProject(t)

EconomyNext ==
  /\ \E t \in Tellers : Receive(t) \/ Lock(t) \/ Decide(t) \/ Commit(t) \/ Abort(t)
  /\ UNCHANGED agenda

EconomySpec == EconomyInit /\ [][EconomyNext]_economyVars

EconomyTypeOK ==
  /\ DOMAIN balance = Accounts /\ \A a \in Accounts : balance[a] \in Int
  /\ DOMAIN rows = DOMAIN InitialRows
  /\ receipts \subseteq {c.key : c \in agenda}
  /\ \A f \in DOMAIN paid : paid[f] \in Nat
  /\ \A t \in Tellers :
       /\ tx[t].stage \in {"idle", "deciding", "posting"}
       /\ tx[t].stage # "idle" => tx[t].command \in agenda
       /\ tx[t].held \subseteq Accounts
  /\ agenda \in Agendas

(* Whatever is repeated, retried or done at two connections at once, the    *)
(* ledger pays for a fact once: a task, a referral, a new account whichever *)
(* of two operations made it, a request, a round, an omikuji of the day.    *)
(* Gifts of a day stay within the limit, lotteries keep their distance.     *)
(* Check-ins are left out: their days may come out of order.                *)
PaidOnce ==
  \A f \in DOMAIN paid :
    /\ f[1] \notin {"gift", "check_in"} => paid[f] = 1
    /\ f[1] = "gift" => paid[f] <= GiftLimit
    /\ f[1] = "lottery" =>
         \A g \in DOMAIN paid \ {f} :
           g[1] = "lottery" /\ g[2] = f[2] => f[3] >= g[3] + Cooldown \/ g[3] >= f[3] + Cooldown

(* What was seen under the locks before deciding still holds when the       *)
(* entries are posted: the trigger never has to refuse one for a balance    *)
(* that went below zero, and the town's row and the bank's ledger, two      *)
(* accounts of the same treasury kept by different tables, agree.  What is  *)
(* reserved is what the unfinished project was given; otherwise every later *)
(* contribution would be refused as a conflict (town.py:212, 331).          *)
BooksAgree ==
  /\ \A t \in Tellers : Posted(t) => ~Overdrawn(t)
  /\ balance[Treasury] = Town.balance
  /\ Town.reserved = IF Town.project = "completed" THEN 0 ELSE Town.funded
  /\ Town.reserved <= Town.balance
=============================================================================
