SPECIFICATION Spec
CONSTANTS
    Banco <- BancoMC
    Numeros = {2, 3}
    MaxIntentos = 2
    MaxOrdenes = 4
    Basura = {0}
INVARIANTS
    CadaOrdenContestada
CHECK_DEADLOCK FALSE
