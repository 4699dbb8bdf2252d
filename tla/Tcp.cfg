SPECIFICATION Spec
CONSTANTS
    Banco <- BancoMC
    Numeros = {0, 2, 3}
    MaxIntentos = 2
    MaxOrdenes = 8
    Basura = {0, 1}
INVARIANTS
    TypeOK
    Emparejadas
    SoloCallaTrasAcierto
PROPERTIES
    OportunidadesContadas
    PreguntaResuelta
CHECK_DEADLOCK FALSE
