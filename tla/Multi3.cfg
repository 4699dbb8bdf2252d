SPECIFICATION Spec
CONSTANTS
    N = 3
    NUM_MENSAJES = 1
    MaxArranques = 1
    MaxIntervenciones = 0
INVARIANT FicheroCompleto
PROPERTIES
    ReinicioSeguro
    ImplementaOrdenTotal
CHECK_DEADLOCK FALSE
