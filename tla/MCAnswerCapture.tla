-------------------------- MODULE MCAnswerCapture --------------------------
(* A small instance of AnswerCapture.                                      *)
EXTENDS AnswerCapture

MCChain == <<"groq", "gemini">>

=============================================================================
