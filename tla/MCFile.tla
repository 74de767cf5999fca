------------------------------- MODULE MCFile -------------------------------
\* Instance of File for TLC: the configurations give the constants values.
EXTENDS File
=============================================================================
