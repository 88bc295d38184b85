------------------------------ MODULE HelloSpec ------------------------------
(***************************************************************************)
(* What a call of parse_client_hello or parse_server_hello promises: one   *)
(* step from a capture to the answer, a function of the capture and of the *)
(* parser called alone.                                                    *)
(***************************************************************************)
EXTENDS Naturals, Sequences

CONSTANT Parse(_, _)    \* what a capture means to the parser of a side

VARIABLES data, side, returned, answer

Init ==
    /\ data \in Seq(0 .. 255)
    /\ side \in {"client", "server"}
    /\ returned = FALSE
    /\ answer = <<>>

Return ==
    /\ ~returned
    /\ returned' = TRUE
    /\ answer' = Parse(data, side)
    /\ UNCHANGED <<data, side>>

Spec == Init /\ [][Return]_<<data, side, returned, answer>>
=============================================================================
