SPECIFICATION FairSpec
CONSTANTS
    NumMax = 4
    Aleatorios = {0, 3}
    PGCount = 3
    PACount = 1
    PICount = 0
    TOTALNUM = 4
INVARIANTS
    TypeOK
    RangoContiene
    PreguntasAcotadas
    SesionExclusiva
    RespuestaDelOrigen
PROPERTIES
    ImplementaBolsa
    Terminan
