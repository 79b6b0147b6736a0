---------------------------- MODULE MCKernelChoice ----------------------------
(***************************************************************************)
(* An instance of KernelChoice for TLC: every byte set of a scaled down    *)
(* size.                                                                   *)
(***************************************************************************)
EXTENDS KernelChoice

MCSets == Table
=============================================================================
