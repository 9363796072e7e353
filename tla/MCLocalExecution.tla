-------------------------- MODULE MCLocalExecution --------------------------
EXTENDS LocalExecution

CONSTANTS o1, j1, j2
=============================================================================
