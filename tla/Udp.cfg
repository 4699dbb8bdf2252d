SPECIFICATION FairSpec
CONSTANTS
    c1 = c1
    c2 = c2
    Clientes = {c1, c2}
    Banco <- BancoMC
    Numeros = {0, 3}
    MaxIntentos = 2
    Lineas <- LineasMC
    MaxOrdenes = 2
    RETRIES = 5
INVARIANTS
    TypeOK
    Emparejadas
    OrdenAtendida
PROPERTIES
    ImplementaPartida
    TodosTerminan
CHECK_DEADLOCK FALSE
