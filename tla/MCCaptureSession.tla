--------------------------- MODULE MCCaptureSession ---------------------------
(* Model-checking instances of CaptureSession. *)
EXTENDS CaptureSession

\* One thread controls the session and captures itself, another acquires.
OneCaller == [t \in Threads |->
    CASE t = "owner" -> {"capture", "start", "stop"}
      [] t = "reader" -> {"acquire"}]
=============================================================================
