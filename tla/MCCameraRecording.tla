-------------------------- MODULE MCCameraRecording --------------------------
(* Two launches of the stream, a few rows and two seconds: enough for a     *)
(* second recording, a failed start and one restart or crash in between.    *)
EXTENDS CameraRecording
=============================================================================
