---------------------------- MODULE MCAioClient ----------------------------
(* AioClient on a small instance. *)
EXTENDS AioClient, TLC

=============================================================================
