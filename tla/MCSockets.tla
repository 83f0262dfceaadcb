------------------------------- MODULE MCSockets --------------------------------
(* Instances of Sockets: bodies shorter and longer than the kernel's buffers, with  *)
(* lengths of two binary digits.                                                    *)
EXTENDS Sockets

MCBodies == {<<1>>, <<0, 1>>, <<1, 1, 0>>}
=================================================================================
