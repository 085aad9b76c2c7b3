----------------------- MODULE MCDeviceConnections -----------------------
EXTENDS DeviceConnections

CONSTANTS genuine, clone

\* The device, and one with another certificate on another host.
Certs == [o \in Origins |-> IF o = clone THEN "B" ELSE "A"]
Hosts == [o \in Origins |-> IF o = genuine THEN "x" ELSE "y"]
=============================================================================
