---------------------------- MODULE MCConnection ----------------------------
(***************************************************************************)
(* Small instances of Connection for TLC.                                  *)
(***************************************************************************)
EXTENDS Connection

\* A long input and no response, or a short input and long responses.
InOrOut == {[in |-> 9, out |-> 0], [in |-> 2, out |-> 9]}

\* Short responses, empty buffers and more buffers than one writev takes.
Short == {<<1>>, <<2>>, <<1, 0, 2>>}
=============================================================================
