\* The unit-test packets of ll_request.rs on a big-endian host (the setattr
\* packet is little-endian only).
CONSTANT HostEndian = "big"

SPECIFICATION Spec
INVARIANT TestPacketsDecode

\* Decoding one packet is a single step; a decoded packet is final.
CHECK_DEADLOCK FALSE
