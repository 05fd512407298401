----------------------------- MODULE MCRegistry -----------------------------
EXTENDS MCDarkForest, Registry

=============================================================================
