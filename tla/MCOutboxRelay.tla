--------------------------- MODULE MCOutboxRelay ---------------------------
\* Small instances of OutboxRelay, with its consumer and without, for TLC.
EXTENDS EventConsumer, TLC

CONSTANTS r1, r2
=============================================================================
