------------------------------ MODULE MCBGPSync ------------------------------
EXTENDS BGPSync
CONSTANTS lan, dmz, web, c1, l1
=============================================================================
