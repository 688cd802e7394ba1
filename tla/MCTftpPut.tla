------------------------------ MODULE MCTftpPut ------------------------------
(* TftpPut for TLC.  The bytes of a file differ, so that a byte out of     *)
(* place shows.                                                            *)
EXTENDS TftpPut, TLC

OneFile  == "a" :> <<"b1", "b2", "b3", "b4">>
ShortOne == "a" :> <<"b1">>

\* put a
OneArg   == <<"a">>
\* put a d
TwoArgs  == <<"a", "d">>
=============================================================================
