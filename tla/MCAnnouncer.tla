------------------------------ MODULE MCAnnouncer ------------------------------
(* Announcer for the addresses a1 and a2.                                  *)
EXTENDS Announcer

CONSTANTS a1, a2
=============================================================================
