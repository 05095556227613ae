----------------------------- MODULE MCReports -----------------------------
(* Constants of the run of Reports. *)
EXTENDS Reports

\* The classes not listed keep one byte as BATTERY does.
NodeClasses ==
  {BASIC, METER, BATTERY, MULTI_CHANNEL, CONFIGURATION, ASSOCIATION,
   MULTI_CHANNEL_ASSOCIATION}

\* Parameters of each size; two of them negative.
Parameters == 0 :> <<9>> @@ 1 :> <<255, 56>> @@ 2 :> <<254, 1, 2, 3>>

\* One group, with a node and an endpoint of another node.
Bindings == 1 :> {<<3, 0>>, <<4, 2>>}
=============================================================================
