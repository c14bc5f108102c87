---------------------------- MODULE MCVoterApp -----------------------------
EXTENDS VoterApp

=============================================================================
