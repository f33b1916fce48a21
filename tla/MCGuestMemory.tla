---------------------------- MODULE MCGuestMemory ----------------------------
EXTENDS GuestMemory
MCPages == 1..3
MCDirectPages == 0..1
MCFlexiblePages == 2..3
=============================================================================
