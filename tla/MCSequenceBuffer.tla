-------------------------- MODULE MCSequenceBuffer --------------------------
(* An instance of SequenceBuffer for TLC.                                  *)
EXTENDS SequenceBuffer

MCByte == {"a", "b"}

MCPayload == {<<"a">>, <<"a", "b">>, <<"b", "b", "a">>}

=============================================================================
