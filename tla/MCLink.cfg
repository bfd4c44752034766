SPECIFICATION Spec
CONSTANTS
    Byte <- MCByte
    Crc <- MCCrc
    SK_PAYLOAD_MIN = 6
    SK_PAYLOAD_MAX = 16
    Frame <- MCFrame
    Text <- MCText
    Debris <- MCDebris
    MaxTroubles = 2
INVARIANTS TypeOK OneFrameAFault
PROPERTIES ImplementsFifo IntactIsDelivered GapsAreReported
CHECK_DEADLOCK FALSE
