--------------------------- MODULE MCInscriptions ---------------------------
(* Inscriptions for TLC. *)
EXTENDS Inscriptions

\* One output or two, OP_RETURN among them, with a fee or without.
MCOuts == {<<1>>, <<1, 1>>, <<0, 2>>, <<1, 2>>}

MCFirstOuts == <<2, 1>>

SigScript(n, pieces) ==
  [tap |-> FALSE, legal |-> TRUE, npieces |-> n, pieces |-> pieces, pointers |-> <<>>]
Tapscript(pointers) ==
  [tap |-> TRUE, legal |-> TRUE, npieces |-> 0, pieces |-> <<>>, pointers |-> pointers]
Illegal(script) == [script EXCEPT !.tap = TRUE, !.legal = FALSE]

\* The first half of an inscription, its second half (which is nothing to an input without
\* the first), a whole inscription, a tapscript, and an illegal one that reads as a whole one.
MCScripts == {SigScript(2, <<1>>), SigScript(0, <<0>>), SigScript(1, <<0>>), Tapscript(<<1, Nil>>),
              Illegal(SigScript(1, <<0>>))}
============================================================================
