------------------------------ MODULE MCEconomy ------------------------------
(* The economy with three citizens, the third not registered at first; one *)
(* behaviour is about the commands of one agenda.                          *)
EXTENDS Economy, TLC

Do(op, key, user, other, amount, day) ==
  [op |-> op, key |-> key, user |-> user, other |-> other, amount |-> amount, day |-> day]

MCEndowment == (1 :> 3) @@ (2 :> 3) @@ (3 :> 0)

Newcomers ==
  {Do("register", 1, 3, 0, 0, 0), Do("referral", 2, 3, 1, 0, 0), Do("referral", 3, 3, 2, 0, 0),
   Do("referral", 4, 2, 3, 0, 0)}

Rewards ==
  {Do("task", 1, 1, 0, 2, 0), Do("task", 2, 1, 0, 2, 0), Do("lottery", 3, 1, 0, 1, 1),
   Do("lottery", 4, 1, 0, 1, 2), Do("lottery", 5, 1, 0, 1, 3)}

Days ==
  {Do("check_in", 1, 1, 0, 0, 1), Do("check_in", 2, 1, 0, 0, 1), Do("check_in", 3, 1, 0, 0, 2),
   Do("check_in", 4, 3, 0, 0, 2)}

(* More than one gift may be, and more than the wallet holds together. *)
Gifts ==
  {Do("gift", 1, 1, 2, 2, 0), Do("gift", 2, 1, 2, 1, 0), Do("gift", 3, 2, 1, 1, 0),
   Do("omikuji", 4, 1, 0, 0, 0)}

Spending ==
  {Do("gift", 1, 1, 2, 2, 0), Do("contribute", 2, 1, 0, 2, 0), Do("commit", 3, 1, 0, 2, 0),
   Do("bind", 4, 1, 1, 0, 0), Do("town", 5, 1, 0, 0, 0)}

Fortunes ==
  {Do("gift", 1, 1, 3, 1, 0), Do("gift", 2, 3, 1, 1, 0), Do("omikuji", 3, 1, 0, 0, 0),
   Do("omikuji", 4, 1, 0, 0, 0), Do("omikuji", 5, 3, 0, 0, 0)}

Requests ==
  {Do("request", 1, 1, 0, 2, 0), Do("approve", 2, 1, 2, 0, 0), Do("approve", 3, 1, 1, 0, 0),
   Do("reject", 4, 1, 2, 0, 0)}

Rounds ==
  {Do("commit", 1, 1, 0, 2, 0), Do("commit", 2, 1, 0, 2, 0), Do("bind", 3, 1, 1, 0, 0),
   Do("bind", 4, 1, 1, 0, 0), Do("fund", 5, 2, 0, 2, 0), Do("bind", 6, 1, 2, 0, 0),
   Do("bind", 7, 1, 0, 0, 0)}

Strangers ==
  {Do("issue", 1, 3, 0, 2, 0), Do("fund", 2, 3, 0, 2, 0), Do("register", 3, 3, 0, 0, 0),
   Do("lottery", 4, 3, 0, 1, 1), Do("task", 5, 3, 0, 1, 1), Do("request", 6, 3, 0, 1, 0),
   Do("commit", 7, 3, 0, 1, 0)}

Projects ==
  {Do("town", 1, 1, 0, 0, 0), Do("project", 2, 1, 0, 0, 0), Do("contribute", 3, 1, 0, 2, 1),
   Do("contribute", 4, 2, 0, 1, 1), Do("contribute", 5, 2, 0, 2, 1), Do("complete", 6, 2, 0, 0, 0)}

MCAgendas ==
  {Newcomers, Rewards, Days, Gifts, Spending, Fortunes, Requests, Rounds, Strangers, Projects}
=============================================================================
