--------------------------- MODULE MCDeviceSession ---------------------------
\* One cash register, every method with every detail, the check polled twice.
EXTENDS DeviceSession

MCPolls == 2
=============================================================================
