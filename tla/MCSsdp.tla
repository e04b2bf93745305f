------------------------------- MODULE MCSsdp -------------------------------
(* Small instances of Ssdp for TLC: the control points are the strings that *)
(* name them, as packets are.                                              *)
EXTENDS Ssdp

OneSearcher  == {"tv"}
TwoSearchers == {"tv", "phone"}
AllKinds == {"other", "full"}
=============================================================================
