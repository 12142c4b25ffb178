------------------------------ MODULE MCGuests ------------------------------
\* Two requests at a time for one key, over three numbers.
EXTENDS Guests
=============================================================================
