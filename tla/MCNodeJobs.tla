----------------------------- MODULE MCNodeJobs -----------------------------
(* Values for the constants of NodeJobs.                                   *)
EXTENDS NodeJobs

CONSTANTS s, t   \* other nodes

\* A command with a frame of its own, one that is answered, both interviews.
MixedJobs ==
  {Unbind("ASSOCIATION", 1, t), Battery,
   AssociationInterview("ASSOCIATION"), ConfigurationInterview}

InterviewJobs == {Bind("ASSOCIATION", 1, t), AssociationInterview("ASSOCIATION")}
=============================================================================
