------------------------------ MODULE MCUartLine ------------------------------
EXTENDS UartLine

MCSamples == {[force |-> 0, tof |-> NoTof], [force |-> MAGIC0, tof |-> MAGIC1]}
=============================================================================
