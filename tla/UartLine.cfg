CONSTANTS
    Samples <- MCSamples
    Pads = {0}
    NoiseBytes = {0, 5, 6}
    MaxNoise = 1
    MaxWire = 14
    MaxBuf = 16
SPECIFICATION Spec
INVARIANTS
    TypeOK
PROPERTIES
    AlignedIsExact
    Resyncs
