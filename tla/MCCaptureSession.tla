--------------------------- MODULE MCCaptureSession ---------------------------
(* One session with a few entries and a few failures of the file system. *)
EXTENDS CaptureSession
================================================================================
