--------------------------- MODULE MCAudioCapture ----------------------------
(* A small instance of AudioCapture for TLC. *)
EXTENDS AudioCapture
=============================================================================
