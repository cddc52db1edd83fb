------------------------------- MODULE Bank -------------------------------
(***************************************************************************)
(* DDD: accounts in one currency each, held in a map.  A request runs to   *)
(* its end before the next one; one that throws is answered with 400, and  *)
(* what it had changed by then stays changed, for the map holds the very   *)
(* objects that the domain works on.                                       *)
(***************************************************************************)
EXTENDS Integers, FiniteSetsExt

CONSTANTS
    Accounts,
    Currencies,
    Amounts,      \* the amounts that requests name, of any sign
    MaxDeposited  \* bound of this instance on what is deposited

VARIABLES
    accounts,   \* the repository: currency and balance, by id
    deposited,  \* history: what was ever deposited, by currency
    lost        \* history: what left the accounts and reached none

vars == <<accounts, deposited, lost>>

Init ==
    /\ accounts = <<>>
    /\ deposited = [c \in Currencies |-> 0]
    /\ lost = [c \in Currencies |-> 0]

-----------------------------------------------------------------------------
(* The entity: what deposit and withdraw let pass *)

CanDeposit(account, amount, currency) ==
    amount > 0 /\ account.currency = currency

CanWithdraw(account, amount, currency) ==
    amount > 0 /\ account.currency = currency /\ account.balance >= amount

-----------------------------------------------------------------------------
(* The use cases *)

\* Nobody asks whether the id is taken: an account that was there is replaced
\* by an empty one.
OpenAccount(a, currency) ==
    /\ accounts' = [x \in DOMAIN accounts \cup {a} |->
                      IF x = a THEN [currency |-> currency, balance |-> 0] ELSE accounts[x]]
    /\ lost' = IF a \in DOMAIN accounts
               THEN [lost EXCEPT ![accounts[a].currency] = @ + accounts[a].balance]
               ELSE lost
    /\ UNCHANGED deposited

Deposit(a, amount, currency) ==
    /\ a \in DOMAIN accounts
    /\ CanDeposit(accounts[a], amount, currency)
    /\ deposited[currency] + amount <= MaxDeposited
    /\ accounts' = [accounts EXCEPT ![a].balance = @ + amount]
    /\ deposited' = [deposited EXCEPT ![currency] = @ + amount]
    /\ UNCHANGED lost

\* Slip: both balances are read before either is written.
TransferCopies(from, to, amount, currency) ==
    /\ from \in DOMAIN accounts /\ to \in DOMAIN accounts
    /\ CanWithdraw(accounts[from], amount, currency)
    /\ CanDeposit(accounts[to], amount, currency)
    /\ accounts' = [[accounts EXCEPT ![from].balance = @ - amount]
                        EXCEPT ![to].balance = accounts[to].balance + amount]
    /\ UNCHANGED <<deposited, lost>>

\* The domain service withdraws and then deposits.  An account of another
\* currency refuses the deposit, and the withdrawal stands.
Transfer(from, to, amount, currency) ==
    /\ from \in DOMAIN accounts /\ to \in DOMAIN accounts
    /\ CanWithdraw(accounts[from], amount, currency)
    /\ LET withdrawn == [accounts EXCEPT ![from].balance = @ - amount]
       IN  IF CanDeposit(accounts[to], amount, currency)
           THEN /\ accounts' = [withdrawn EXCEPT ![to].balance = @ + amount]
                /\ UNCHANGED lost
           ELSE /\ accounts' = withdrawn
                /\ lost' = [lost EXCEPT ![currency] = @ + amount]
    /\ UNCHANGED deposited

-----------------------------------------------------------------------------

Next ==
    \E a \in Accounts, currency \in Currencies :
        \/ OpenAccount(a, currency)
        \/ \E amount \in Amounts :
             \/ Deposit(a, amount, currency)
             \/ \E to \in Accounts : Transfer(a, to, amount, currency)

Spec == Init /\ [][Next]_vars

-----------------------------------------------------------------------------

\* No request makes or loses money: what was deposited in a currency is in
\* the accounts of that currency, but for the balances of accounts opened
\* anew and the withdrawals whose deposit was refused.
MoneyAddsUp ==
    \A c \in Currencies :
        LET of == {a \in DOMAIN accounts : accounts[a].currency = c}
        IN  deposited[c] = lost[c] + SumFunction([a \in of |-> accounts[a].balance])

=============================================================================
