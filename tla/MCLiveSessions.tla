-------------------------- MODULE MCLiveSessions --------------------------
\* Three users on two workers, and one audio room with a single seat.
EXTENDS LiveSessions
=============================================================================
