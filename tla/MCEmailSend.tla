------------------------------ MODULE MCEmailSend ------------------------------
(* Three recipients and as many submissions.                               *)
EXTENDS EmailSend
================================================================================
