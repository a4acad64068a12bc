------------------------------- MODULE MCAlign -------------------------------
EXTENDS AlignProps
=============================================================================
