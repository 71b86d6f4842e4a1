---------------------------- MODULE MCS3PutStream -----------------------------
(* The jobs: a PUT of one chunk, a multipart upload of two chunks (the     *)
(* bytes the key already holds), a reader that delivers other bytes than   *)
(* announced, one that outlasts the size, an empty one, one announced as   *)
(* more parts than S3 takes, and one with nothing announced.               *)
EXTENDS S3PutStream

JobSet == {
    [body |-> <<"e">>, want |-> <<"e">>],
    [body |-> <<"a", "b">>, want |-> <<"a", "b">>],
    [body |-> <<"c", "d">>, want |-> <<"c", "x">>],
    [body |-> <<"c", "d", "g">>, want |-> <<"c", "d">>],
    [body |-> <<>>, want |-> <<"a", "b">>],
    [body |-> <<"a", "b">>, want |-> <<"p", "q", "r", "s">>],
    [body |-> <<"f", "g">>, want |-> <<"f">>],
    [body |-> <<>>, want |-> <<>>] }

(* An upload that nothing but its ctx can stop.                            *)
WholeBody == { [body |-> <<"a", "b">>, want |-> <<"a", "b">>] }

Before == <<"a", "b">>
===============================================================================
