------------------------------- MODULE MCOutbox -------------------------------
(* Two answers, of two parts and of one; or the longer one alone. *)
EXTENDS Outbox, TLC

CONSTANTS long, short

TwoAnswers == {long, short}
TwoParts == long :> 2 @@ short :> 1

OneAnswer == {long}
OneParts == long :> 2
===============================================================================
