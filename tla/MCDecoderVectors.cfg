\* The unit-test packets of ll_request.rs on a little-endian host.
CONSTANT HostEndian = "little"

SPECIFICATION Spec
INVARIANT TestPacketsDecode
INVARIANT TruncatedPacketRefused

\* Decoding one packet is a single step; a decoded packet is final.
CHECK_DEADLOCK FALSE
