---------------------------- MODULE MCGpuArbiter ----------------------------
(* TLC instances of GpuArbiter: the processes are model values.             *)
EXTENDS GpuArbiter

CONSTANTS a, b, d
=============================================================================
