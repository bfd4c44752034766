SPECIFICATION Spec
CONSTANTS
    Byte <- MCByte
    Crc <- MCCrc
    SK_PAYLOAD_MIN = 1
    SK_PAYLOAD_MAX = 2
    Caps = {2}
    MaxRaw = 6
PROPERTY BadEscapeReported
