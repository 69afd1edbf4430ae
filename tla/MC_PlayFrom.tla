---------------------------- MODULE MC_PlayFrom ----------------------------
EXTENDS PlayFrom
============================================================================
