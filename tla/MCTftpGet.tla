------------------------------ MODULE MCTftpGet ------------------------------
(* TftpGet for TLC.  The bytes of a file differ, so that a byte out of     *)
(* place shows.                                                            *)
EXTENDS TftpGet, TLC

OneFile  == "a" :> <<"b1", "b2", "b3", "b4">>
OneJob   == <<"a">>
\* The first name does not exist on the server.
MissJobs == <<"x", "a">>
=============================================================================
