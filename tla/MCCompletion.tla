---------------------------- MODULE MCCompletion ----------------------------
EXTENDS Completion
=============================================================================
