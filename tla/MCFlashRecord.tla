--------------------------- MODULE MCFlashRecord ---------------------------
EXTENDS FlashRecord
CONSTANTS b1, b2, b3
\* a bit of no value, so that it is told from a mixture of two
MCNone == {"none"}
MCBits == {b1, b2, b3}
MCValues == {{b1}, {b2}, {b1, b2}}
=============================================================================
