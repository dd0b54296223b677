----------------------------- MODULE MCFraming -----------------------------
(* The instance of Framing for TLC: the four loops, with buffers that hold *)
(* a few bytes.  `left' of server_read_cb counts modulo 8 and can wrap.    *)
EXTENDS Framing

MCSizes == <<1, 3, 2, 1, 4>>
SktReadCb     == [hdr |-> 4, do_while |-> TRUE,  left_mod |-> 1000, read_cap |-> 5, tcp |-> FALSE]
ComReadCb     == [hdr |-> 4, do_while |-> FALSE, left_mod |-> 1000, read_cap |-> 6, tcp |-> TRUE]
ManagerReadCb == [hdr |-> 4, do_while |-> FALSE, left_mod |-> 1000, read_cap |-> 5, tcp |-> FALSE]
ServerReadCb  == [hdr |-> 2, do_while |-> FALSE, left_mod |-> 8,   read_cap |-> 6, tcp |-> TRUE]
MCReaders == {SktReadCb, ComReadCb, ManagerReadCb, ServerReadCb}
=============================================================================
