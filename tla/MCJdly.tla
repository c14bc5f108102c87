------------------------------- MODULE MCJdly -------------------------------
EXTENDS Jdly

=============================================================================
