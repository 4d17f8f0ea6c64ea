--------------------------- MODULE MCSpeechCapture ---------------------------
(* A small instance of SpeechCapture for TLC: two answers that are easily   *)
(* given twice in a row.                                                    *)
EXTENDS SpeechCapture

Answers == {"yes", "no"}

=============================================================================
