---------------------------- MODULE MCComponentTree ---------------------------
(* Small instances of ComponentTree: IO threads are interchangeable.          *)
EXTENDS ComponentTree

TwoIO == {"io1", "io2"}
=============================================================================
