------------------------------- MODULE Conta -------------------------------
(***************************************************************************)
(* clean-architecture: one account with a balance and a credit limit.      *)
(* Money refuses to be negative, in the amounts of requests and in what a  *)
(* subtraction yields alike.                                               *)
(***************************************************************************)
EXTENDS Integers

CONSTANTS
    Valores,                       \* the amounts that requests name
    SaldoInicial, LimiteInicial,   \* of the account the server starts with
    MaxSaldo                       \* bound of this instance

VARIABLES
    saldo,
    limiteCredito,
    resposta  \* the answer to the last request: 200 or 400

vars == <<saldo, limiteCredito, resposta>>

Init ==
    /\ saldo = SaldoInicial
    /\ limiteCredito = LimiteInicial
    /\ resposta = 200

Recusar == resposta' = 400 /\ UNCHANGED <<saldo, limiteCredito>>

Creditar(valor) ==
    IF valor < 0
    THEN Recusar
    ELSE /\ saldo + valor <= MaxSaldo
         /\ saldo' = saldo + valor
         /\ resposta' = 200
         /\ UNCHANGED limiteCredito

\* What consultarSaldo reports beside the two.
SaldoDisponivel == saldo + limiteCredito

\* The limit is part of the check, and then the subtraction makes a Money of
\* what is left, which throws when that is below zero.
Debitar(valor) ==
    IF valor < 0 \/ valor > SaldoDisponivel \/ saldo - valor < 0
    THEN Recusar
    ELSE /\ saldo' = saldo - valor
         /\ resposta' = 200
         /\ UNCHANGED limiteCredito

DefinirLimiteCredito(limite) ==
    IF limite < 0
    THEN Recusar
    ELSE /\ limiteCredito' = limite
         /\ resposta' = 200
         /\ UNCHANGED saldo

Next == \E v \in Valores : Creditar(v) \/ Debitar(v) \/ DefinirLimiteCredito(v)

Spec == Init /\ [][Next]_vars

-----------------------------------------------------------------------------

\* Conta.ts:18 refuses a debit with "saldo insuficiente (saldo + limite
\* excedido)", and README.md:101 has the debit enforce the limit: a debit that
\* is refused exceeds what the account reports as available, or is negative.
RefusedIsOverLimit ==
    [][\A v \in Valores :
         Debitar(v) /\ resposta' = 400 => v < 0 \/ v > SaldoDisponivel]_vars

=============================================================================
