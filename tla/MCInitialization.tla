-------------------------- MODULE MCInitialization --------------------------
(* Values for the constants of Initialization.                             *)
EXTENDS Initialization

\* The controller itself and two nodes.
ThreeNodes == <<1, 5, 9>>
=============================================================================
