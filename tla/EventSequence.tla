---------------------------- MODULE EventSequence ----------------------------
(***************************************************************************)
(* What the Adapter relies on when it drives a turn: the notifications of  *)
(* the turn arrive once each and in order, until the driver ends.  It ends *)
(* either knowing that it has seen all of them, or reporting a failure.    *)
(***************************************************************************)
EXTENDS Sequences, Naturals

CONSTANT Notification

VARIABLES sent,     \* the notifications Codex wrote for the turn
          got,      \* those the driver of the Adapter has consumed
          outcome   \* "open", "all" (it has seen everything), "failed"

sequenceVars == <<sent, got, outcome>>

SequenceInit == sent = <<>> /\ got = <<>> /\ outcome = "open"

Send == /\ \E n \in Notification : sent' = Append(sent, n)
        /\ UNCHANGED <<got, outcome>>

Deliver == /\ outcome = "open"
           /\ Len(got) < Len(sent)
           /\ got' = Append(got, sent[Len(got) + 1])
           /\ outcome' \in {"open", "all"}
           /\ outcome' = "all" => got' = sent
           /\ UNCHANGED sent

End == /\ outcome = "open"
       /\ outcome' \in {"all", "failed"}
       /\ outcome' = "all" => got = sent
       /\ UNCHANGED <<sent, got>>

SequenceSpec == SequenceInit /\ [][Send \/ Deliver \/ End]_sequenceVars
=============================================================================
