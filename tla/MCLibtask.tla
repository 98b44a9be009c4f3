----------------------------- MODULE MCLibtask ------------------------------
(***************************************************************************)
(* Libtask with at most four tasks at a time (eight in the session: its    *)
(* first task, aiotask, the receiver, four handlers and the handler of     *)
(* CONNCLOSED), one cached task, four requests, a socket that holds one    *)
(* answer, an unbuffered channel and one with two places, and three values *)
(* to send.                                                                *)
(***************************************************************************)
EXTENDS Libtask

MCbufsize == [c \in Chan |-> IF c = "unbuffered" THEN 0 ELSE 2]
MCRepeat  == {-1, 0, 2}
=============================================================================
