------------------------------- MODULE MCWxq -------------------------------
EXTENDS Wxq

=============================================================================
