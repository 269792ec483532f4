------------------------------- MODULE Directory -------------------------------
(***************************************************************************)
(* What the service manager promises to those who look actions up: it      *)
(* takes the contents of the cache file from time to time, and shows from  *)
(* one moment to the next what they amount to, all of it and nothing else. *)
(*                                                                         *)
(* ServiceMgr.tla is shown to implement this module.                       *)
(***************************************************************************)
CONSTANTS Files,      \* the contents the cache file may have
          ViewOf(_),  \* ViewOf(f): what contents f amount to
          Empty,      \* the view before any file was read
          None        \* no contents are being taken in

VARIABLES file,       \* the contents of the file
          taken,      \* the contents that will be shown next, or None
          view        \* what is shown

vars == <<file, taken, view>>

Init == file \in Files /\ taken = None /\ view = Empty

(* Somebody else changes the file, at any time.                            *)
Change == file' \in Files /\ UNCHANGED <<taken, view>>

Take == taken = None /\ taken' = file /\ UNCHANGED <<file, view>>

Show ==
    /\ taken # None
    /\ view' = ViewOf(taken)
    /\ taken' = None
    /\ UNCHANGED file

Next == Change \/ Take \/ Show

Spec == Init /\ [][Next]_vars
=============================================================================
