---------------------------- MODULE MCRuntimeStore ----------------------------
(* Three messages: the same code over two transports one tick apart, and   *)
(* another code sent when the first was.                                   *)
EXTENDS RuntimeStore

CONSTANTS viaPhone, viaTether, other, codeA, codeB

MCContentOf == [m \in Messages |-> IF m = other THEN codeB ELSE codeA]

MCStampOf == [m \in Messages |-> IF m = viaTether THEN 1 ELSE 0]
=============================================================================
