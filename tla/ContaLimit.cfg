\* The account as the server starts it, scaled down, and debits up to its limit.
SPECIFICATION Spec
CONSTANTS
    Valores = {0, 1, 2, 3}
    SaldoInicial = 2
    LimiteInicial = 1
    MaxSaldo = 4
PROPERTIES
    RefusedIsOverLimit
