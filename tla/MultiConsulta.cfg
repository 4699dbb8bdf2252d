SPECIFICATION SpecConsulta
CONSTANTS
    N = 2
    NUM_MENSAJES = 1
    MaxArranques = 1
    MaxIntervenciones = 1
INVARIANT Acuerdo
CHECK_DEADLOCK FALSE
