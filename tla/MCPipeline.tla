------------------------------ MODULE MCPipeline ------------------------------
(* One capture with a camera that talks and a device that is only seen. *)
EXTENDS Pipeline, TLC

CONSTANTS eth, cam, laptop, talk

OneCapture == {eth}
TheCamera == {cam}
CameraAndLaptop == {cam, laptop}
OneFlow == {talk}
CameraOwnsFlow == (talk :> cam)
=============================================================================
