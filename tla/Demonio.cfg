SPECIFICATION FairSpec
CONSTANTS
    Hijos = {h1, h2}
    Padre = padre
    MaxOrdenes = 1
    MaxDatagramas = 1
    MaxSenales = 1
    MaxFallos = 1
INVARIANTS
    TypeOK
    SemaforoCuadra
PROPERTIES
    TodosRegistran
    ConexionTrasSilencio
    CierreTrasSenal
CHECK_DEADLOCK FALSE
