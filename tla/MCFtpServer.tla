------------------------------ MODULE MCFtpServer ------------------------------
(* Constants of FtpServer for TLC: a file of three units with a newline.   *)
EXTENDS FtpServer

File == <<"a", "n", "b">>
===============================================================================
