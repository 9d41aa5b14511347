----------------------------- MODULE MCFileSync -----------------------------
(***************************************************************************)
(* Instances of FileSync for TLC.                                          *)
(***************************************************************************)
EXTENDS FileSync

(* An empty file, as truncation leaves it, and two connection strings, one *)
(* of them surrounded by white space.                                      *)
MCContents == {<<"", FALSE>>, <<"a", FALSE>>, <<"b", TRUE>>}

(* Writers that never rename the file.                                     *)
InPlaceOps == {"write"}

=============================================================================
