SPECIFICATION SyncSpec
CONSTANTS
    Byte <- MCByte
    Crc <- MCCrc
    SK_PAYLOAD_MIN = 1
    SK_PAYLOAD_MAX = 1
    Rooms = {0, 1}
    MaxNoise = 6
    MaxFrame = 5
INVARIANTS SyncTypeOK Resynchronized
PROPERTY SameVerdicts
