------------------------------ MODULE MCHttpReq ------------------------------
(* Instances of HttpReq for TLC. *)
EXTENDS HttpReq

A(c, n, len) == [code |-> c, line |-> n, length |-> len]

(* Answers shorter than the buffer, longer than it, without a readable
   status, and one whose status line does not fit. *)
MCAnswers == { A(200, 2, 3), A(500, 2, 4), A(0, 1, 2), A(200, 1, 5),
               A(200, 5, 5) }
=============================================================================
