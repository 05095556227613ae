--------------------------- MODULE CommandChannel ---------------------------
(***************************************************************************)
(* What the serial transport promises the layers above it, without saying  *)
(* how: commands handed over with Enqueue are processed one at a time, in  *)
(* the order they were handed over, and each of them ends exactly once.    *)
(* How a command ends (completed, timed out, given up) is not visible      *)
(* here.  SerialLink implements this specification.                        *)
(***************************************************************************)
EXTENDS Sequences

CONSTANTS
  Commands,   \* the submissions the upper layers may make, each made once
  NoCmd       \* no command in progress; it is none of the commands

VARIABLES
  pending,    \* submitted and not begun, oldest first
  current,    \* the command in progress, or NoCmd
  finished,   \* the ended commands, in the order they ended
  open        \* the port has not been told to close

vars == <<pending, current, finished, open>>

Init ==
  /\ pending = <<>>
  /\ current = NoCmd
  /\ finished = <<>>
  /\ open = TRUE

Known(c) ==
  \/ \E i \in DOMAIN pending : pending[i] = c
  \/ current = c
  \/ \E i \in DOMAIN finished : finished[i] = c

Submit(c) ==
  /\ ~Known(c)
  /\ pending' = Append(pending, c)
  /\ UNCHANGED <<current, finished, open>>

Begin ==
  /\ current = NoCmd
  /\ pending # <<>>
  /\ current' = Head(pending)
  /\ pending' = Tail(pending)
  /\ UNCHANGED <<finished, open>>

\* A command that no answer is expected for begins and ends in one step.
FireAndForget ==
  /\ current = NoCmd
  /\ pending # <<>>
  /\ finished' = Append(finished, Head(pending))
  /\ pending' = Tail(pending)
  /\ UNCHANGED <<current, open>>

Finish ==
  /\ current # NoCmd
  /\ finished' = Append(finished, current)
  /\ current' = NoCmd
  /\ UNCHANGED <<pending, open>>

Close ==
  /\ open
  /\ open' = FALSE
  /\ UNCHANGED <<pending, current, finished>>

Work == Begin \/ FireAndForget \/ Finish

Next == Work \/ Close \/ \E c \in Commands : Submit(c)

Spec == Init /\ [][Next]_vars

\* As long as the port stays open the channel keeps working on its commands.
FairSpec == Spec /\ WF_vars(open /\ Work)
=============================================================================
