----------------------------- MODULE MCSession ------------------------------
(* A small instance of Session: bytes have four values, so 4 is a size with *)
(* the low byte 0.                                                          *)
EXTENDS Session

TwoSizes == {3, 4}
=============================================================================
