------------------------------ MODULE MCTftpPipe ------------------------------
(* TftpPipe for TLC: every file of up to four bytes over an ordinary byte  *)
(* and the three bytes the conversion treats specially.                    *)
EXTENDS TftpPipe
=============================================================================
