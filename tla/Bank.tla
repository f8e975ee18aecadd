-------------------------------- MODULE Bank --------------------------------
(***************************************************************************)
(* The ledger of free tokens and the transactions that move them.  A       *)
(* transaction takes the advisory and row locks of its command, locks the  *)
(* accounts whose balance it looks at, decides, and then posts one entry   *)
(* after the other, each under the locks of its two accounts.  What it     *)
(* writes is seen when it commits (infrastructure/database/banking.py and  *)
(* the operations in database/economy, chance.py, town.py).                *)
(*                                                                         *)
(* Simplifications.  An account is its place in the order of the account   *)
(* keys, which is the order of locking: group, system, user.  The lock of  *)
(* the idempotency key and those of the rows a command inserts or selects  *)
(* for update are taken in one step, since no two commands take two of     *)
(* them in different orders.  Paid wallets are left out.                   *)
(***************************************************************************)
EXTENDS Integers, Sequences

CONSTANTS
  Tellers,    \* database connections, each with at most one transaction
  Citizens,   \* the users, by number
  Endowment   \* what each wallet holds at first

ASSUME BankAssumption ==
  /\ Citizens \subseteq Nat
  /\ Endowment \in [Citizens -> Nat]

VARIABLES
  balance,   \* bank.account_balances
  rows,      \* the rows of the other tables, by table and key
  receipts,  \* the keys of the commands that have a receipt
  paid,      \* history: how often the ledger was posted for each fact
  tx         \* the transaction of each connection

bankVars == <<balance, rows, receipts, paid, tx>>

Treasury == 1
ActivityPot == 2
Burn == 3
Issuance == 4
Free(u) == 5 + u
Accounts == {Treasury, ActivityPot, Burn, Issuance} \cup {Free(u) : u \in Citizens}

NoCommand == [op |-> "none", key |-> 0, user |-> 0, other |-> 0, amount |-> 0, day |-> 0]

NoTransaction ==
  [stage |-> "idle", command |-> NoCommand, keys |-> {}, held |-> {}, plan |-> <<>>,
   transfers |-> <<>>, writes |-> <<>>, facts |-> {}]

BankInit(initialRows) ==
  /\ balance = [a \in Accounts |->
                  IF \E u \in Citizens : a = Free(u)
                  THEN Endowment[CHOOSE u \in Citizens : a = Free(u)] ELSE 0]
  /\ rows = initialRows
  /\ receipts = {}
  /\ paid = <<>>
  /\ tx = [t \in Tellers |-> NoTransaction]

----------------------------------------------------------------------------
(* Locks.  The accounts of one call of lock_bank_account_balances are       *)
(* locked in the order of their keys, the calls one after the other.        *)

Unlocked(t) == {i \in DOMAIN tx[t].plan : ~(tx[t].plan[i] \subseteq tx[t].held)}

(* Mutant of NextLock: the accounts are not sorted. *)
NextLockAnyOrder(t) ==
  {a \in Accounts : \E i \in Unlocked(t) :
     /\ \A j \in Unlocked(t) : i <= j
     /\ a \in tx[t].plan[i] \ tx[t].held}

NextLock(t) ==
  {a \in Accounts : \E i \in Unlocked(t) :
     /\ \A j \in Unlocked(t) : i <= j
     /\ a \in tx[t].plan[i] \ tx[t].held
     /\ \A b \in tx[t].plan[i] \ tx[t].held : a <= b}

(* Mutant of MayLock: the balances are read without FOR UPDATE. *)
MayLockUnlocked(a) == TRUE

MayLock(a) == \A t \in Tellers : a \notin tx[t].held

Lock(t) ==
  \E a \in NextLock(t) :
    /\ MayLock(a)
    /\ tx' = [tx EXCEPT ![t].held = @ \cup {a}]
    /\ UNCHANGED <<balance, rows, receipts, paid>>

(* `keys` are the advisory locks and rows that `command` locks, `looked`    *)
(* the accounts that it locks before it decides.  A command with a receipt  *)
(* is answered from it, which changes nothing.                              *)
Begin(t, command, keys, looked) ==
  /\ tx[t].stage = "idle"
  /\ command.key \notin receipts
  /\ \A s \in Tellers : tx[s].keys \cap keys = {}
  /\ tx' = [tx EXCEPT ![t] =
       [NoTransaction EXCEPT !.stage = "deciding", !.command = command, !.keys = keys,
                    !.plan = <<looked>>]]
  /\ UNCHANGED <<balance, rows, receipts, paid>>

----------------------------------------------------------------------------
(* Decisions. *)

Transfer(from, to, amount) == [from |-> from, to |-> to, amount |-> amount]

Deciding(t, op, user) ==
  /\ tx[t].stage = "deciding" /\ NextLock(t) = {}
  /\ tx[t].command.op = op /\ tx[t].command.user = user

(* The prechecks before the accounts were locked had passed. *)
Looked(t) == tx[t].held # {}

(* The transfers to post in that order, the rows to write, and the facts    *)
(* that are paid for.                                                       *)
Approve(t, transfers, writes, facts) ==
  /\ tx' = [tx EXCEPT ![t] =
       [@ EXCEPT !.stage = "posting", !.transfers = transfers, !.writes = writes,
                 !.facts = facts,
                 !.plan = [i \in DOMAIN transfers |-> {transfers[i].from, transfers[i].to}]]]
  /\ UNCHANGED <<balance, rows, receipts, paid>>

(* What a decision writes: one row. *)
Write(row, value) == [r \in {row} |-> value]

(* Refused, with a receipt. *)
Refuse(t) == Approve(t, <<>>, <<>>, {})

(* Refused without a receipt: the same command may be tried again. *)
Dismiss(t) ==
  /\ tx' = [tx EXCEPT ![t] = NoTransaction]
  /\ UNCHANGED <<balance, rows, receipts, paid>>

----------------------------------------------------------------------------
(* The end of a transaction. *)

Change(transfer, a) ==
  (IF transfer.to = a THEN transfer.amount ELSE 0)
  - (IF transfer.from = a THEN transfer.amount ELSE 0)

(* What the first n transfers change of an account. *)
Delta(transfers, n, a) ==
  LET sum[i \in 0 .. n] == IF i = 0 THEN 0 ELSE sum[i - 1] + Change(transfers[i], a)
  IN  sum[n]

Posted(t) == tx[t].stage = "posting" /\ NextLock(t) = {}

(* The trigger refuses a balance that becomes negative by any entry; only   *)
(* that of issuance may be.                                                 *)
Overdrawn(t) ==
  \E n \in DOMAIN tx[t].transfers, a \in Accounts \ {Issuance} :
    balance[a] + Delta(tx[t].transfers, n, a) < 0

(* The receipt has the command's key as primary key. *)
Commit(t) ==
  /\ Posted(t) /\ ~Overdrawn(t)
  /\ tx[t].command.key \notin receipts
  /\ balance' = [a \in Accounts |->
                   balance[a] + Delta(tx[t].transfers, Len(tx[t].transfers), a)]
  /\ rows' = [r \in DOMAIN rows |->
                IF r \in DOMAIN tx[t].writes THEN tx[t].writes[r] ELSE rows[r]]
  /\ receipts' = receipts \cup {tx[t].command.key}
  /\ paid' = [f \in DOMAIN paid \cup tx[t].facts |->
                (IF f \in DOMAIN paid THEN paid[f] ELSE 0)
                + (IF f \in tx[t].facts THEN 1 ELSE 0)]
  /\ tx' = [tx EXCEPT ![t] = NoTransaction]

(* A crash, a lost connection, a constraint that is violated, or the choice *)
(* of the database when transactions wait for each other.                   *)
Abort(t) ==
  /\ tx[t].stage # "idle"
  /\ tx' = [tx EXCEPT ![t] = NoTransaction]
  /\ UNCHANGED <<balance, rows, receipts, paid>>

----------------------------------------------------------------------------
(* Every transaction that waits for an account waits for one that will go   *)
(* on: accounts are locked in one order by all operations.                  *)
WaitsFor(t, s) == NextLock(t) \cap tx[s].held # {} /\ s # t

LocksInOrder ==
  ~ \E circle \in SUBSET Tellers :
      circle # {} /\ \A t \in circle : \E s \in circle : WaitsFor(t, s)
=============================================================================
