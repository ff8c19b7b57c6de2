----------------------------- MODULE MCMailbox ------------------------------
(* A small instance of Mailbox.                                             *)
EXTENDS Mailbox

CONSTANTS io1
=============================================================================
