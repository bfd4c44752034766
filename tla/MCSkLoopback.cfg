SPECIFICATION Spec
CONSTANTS
    Byte <- MCByte
    Crc <- MCCrc
    SK_PAYLOAD_MIN = 1
    SK_PAYLOAD_MAX = 2
    Message <- MCMessage
    OutCaps = {0, 8, 9, 10}
    MaxNoise = 6
INVARIANTS TypeOK EncoderInBounds FrameMaxSuffices EncoderExact RoundTrip QuietFrame
