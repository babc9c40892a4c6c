---------------------------- MODULE MCUserClient ----------------------------
(***************************************************************************)
(* Instances of UserClient for TLC: one class, with one of its folders.    *)
(***************************************************************************)
EXTENDS UserClient

OneFolder  == <<"Other">>
TwoFolders == <<"Lectures", "Other">>
Dirs    == {<<"P2P">>, <<"P2P", "Other">>}
AllDirs == Dirs \cup {<<"P2P", "Lectures">>}
Notes   == {<<"P2P", "notes">>}
Slides  == {<<"P2P", "Other", "slides">>}
DirsAndNotes  == Dirs \cup Notes
DirsAndFiles  == Dirs \cup Notes \cup Slides
Files   == Notes \cup Slides
NoPath  == {}
=============================================================================
