---------------------------- MODULE MCBeamShare -----------------------------
EXTENDS BeamShare
=============================================================================
