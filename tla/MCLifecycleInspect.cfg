SPECIFICATION Spec
\* An inspection that fails after the signal ends the process with 1.
CONSTANT SigBuffer <- MCSigBuffer
PROPERTY EarlyInterruptExits130
CHECK_DEADLOCK FALSE
