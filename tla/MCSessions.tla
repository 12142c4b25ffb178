---------------------------- MODULE MCSessions ----------------------------
\* One phone and two browsers on two workers.
EXTENDS Sessions
=============================================================================
