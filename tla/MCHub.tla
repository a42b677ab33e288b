------------------------------- MODULE MCHub -------------------------------
\* Instance of Hub for TLC: one portal page, one admin panel, one sender.
EXTENDS Hub, TLC
=============================================================================
