SPECIFICATION CodecSpec
CONSTANTS
    Seqs <- MCSeqs
    Words <- MCWords
    Halves <- MCHalves
    PackCaps = {0, 6, 7, 8, 15, 16}
INVARIANTS CodecRoundTrip NoStaleBytes
