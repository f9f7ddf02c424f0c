---------------------------- MODULE MCCaptureRing ----------------------------
(* The ring with few buffers, which nothing tells apart, and few frames.    *)
EXTENDS CaptureRing
=============================================================================
