------------------------------- MODULE Client -------------------------------
(***************************************************************************)
(* One call of a model: ai/openai_client.py with the retries it makes     *)
(* itself, and ai/client.py, whose library retries out of its sight: the   *)
(* AsyncAnthropic it builds is given a timeout and no limit of retries, so *)
(* the library's own holds.  Both may only ever return a complete text or  *)
(* an error; neither raises.                                               *)
(*                                                                         *)
(* A response body is a record of what the interpretation tells apart.     *)
(* "billed" is the provider's side, which the code does not see: a request *)
(* that was worked on costs money, also when its answer never arrives.  An *)
(* answer states in its usage what it cost.                                *)
(***************************************************************************)
EXTENDS Integers, FiniteSets, Sequences

CONSTANTS MaxRetries,      \* MAX_RETRIES
          LibraryRetries,  \* max_retries of the anthropic library, left at its default
          MaxBackoff,      \* MAX_BACKOFF_SECONDS
          Cost             \* tokens of one request that was worked on

ASSUME ClientAssumption ==
  MaxRetries \in Nat /\ LibraryRetries \in Nat /\ MaxBackoff \in Nat \ {0} /\ Cost \in Nat \ {0}

\* Arithmetic that the provers do not know
ASSUME PowersAssumption == \A n \in 0..MaxRetries : 2^n \in Nat

VARIABLES callPc,     \* "ready", "posting", "waiting", "asking" (the library), "done"
          attempt,    \* of the loop in _post
          again,      \* requests the library has sent anew
          pauses,     \* what was slept between the attempts
          result,     \* the RawCall: text, error, tokens
          billed      \* tokens that the provider charges for
clientVars == <<callPc, attempt, again, pauses, result, billed>>

RetryStatuses     == {408, 409, 429, 500, 502, 503, 504}
PermanentStatuses == {400, 401, 404}

(* What a body says *)
Bodies == [status : {"none", "completed", "incomplete", "failed"}, error : BOOLEAN,
           reason : {"none", "max_output_tokens", "content_filter"},
           texts : 0..2, refused : BOOLEAN, tokens : {0, Cost}]

\* Fault: the usage is not read.
WholeUncounted(body, error, stop) ==
  [text |-> IF error = "none" THEN "text" ELSE "none", error |-> error, stop |-> stop, tokens |-> 0]

Whole(body, error, stop) ==
  [text |-> IF error = "none" THEN "text" ELSE "none", error |-> error, stop |-> stop,
   tokens |-> body.tokens]

(* _read_output and _interpret *)
ReadOutput(body) ==
  IF body.error THEN Whole(body, "reported", "error")
  ELSE IF body.status = "incomplete"
  THEN IF body.reason = "max_output_tokens" THEN Whole(body, "cut", "max_tokens")
       ELSE Whole(body, "cut", "incomplete")
  ELSE IF body.refused THEN Whole(body, "refused", "refusal")
  ELSE IF body.status \notin {"none", "completed"} THEN Whole(body, "status", body.status)
  ELSE IF body.texts = 0 THEN Whole(body, "empty", "end_turn")
  ELSE Whole(body, "none", "end_turn")

(* AnthropicClient._finish *)
Responses == [stop : {"end_turn", "max_tokens", "refusal"}, texts : 0..2, tokens : {0, Cost}]

Finish(response) ==
  IF response.stop = "max_tokens" THEN Whole(response, "cut", response.stop)
  ELSE IF response.stop = "refusal" THEN Whole(response, "refused", response.stop)
  ELSE IF response.texts = 0 THEN Whole(response, "empty", response.stop)
  ELSE Whole(response, "none", response.stop)

NoResult == [text |-> "none", error |-> "none", stop |-> "none", tokens |-> 0]
Failed(error) == [NoResult EXCEPT !.error = error]

(* Who asked decides what is wanted: an answer and the findings of an      *)
(* extraction have a shape, an expansion must say something beside, and a  *)
(* description is any text that says something.                            *)
Consumers == {"answer", "extraction", "expansion", "description"}
Shapes    == {"good", "bad json", "bad fields", "blank"}

Understood(raw, shape, consumer) ==
  IF raw.text = "none" THEN raw
  ELSE IF consumer # "description" /\ shape \in {"bad json", "bad fields"}
  THEN [raw EXCEPT !.text = "none", !.error = "shape"]
  ELSE IF consumer \in {"expansion", "description"} /\ shape = "blank"
  THEN [raw EXCEPT !.text = "none", !.error = "blank"]
  ELSE raw

(* 2 ** attempt, at most MaxBackoff, unless the server says how long: what *)
(* it says is taken as it is between nothing and MaxBackoff                *)
Smaller(m, n) == IF m < n THEN m ELSE n
Larger(m, n) == IF m < n THEN n ELSE m
Backoff(n) == Smaller(2^n, MaxBackoff)
Advice == {"none"} \X {0} \union {"seconds"} \X {0 - 1, 0, 1, 2 * MaxBackoff}
RetryAfterHeader(advice, default) ==
  IF advice[1] = "none" THEN default ELSE Larger(0, Smaller(advice[2], MaxBackoff))

ClientInit ==
  /\ callPc = "ready" /\ attempt = 0 /\ again = 0 /\ pauses = <<>>
  /\ result = NoResult /\ billed = 0

Post ==
  /\ callPc = "ready"
  /\ callPc' = "posting"
  /\ UNCHANGED <<attempt, again, pauses, result, billed>>

End(outcome) == callPc' = "done" /\ result' = outcome /\ UNCHANGED <<attempt, again, pauses>>

(* The loop goes round, or the last error is what remains *)
TryAgain(error, wait) ==
  IF attempt < MaxRetries
  THEN /\ callPc' = "waiting"
       /\ pauses' = Append(pauses, wait)
       /\ result' = Failed(error)
       /\ UNCHANGED <<attempt, again>>
  ELSE End(Failed(error))

(* No answer: refused, broken off or too late.  The request may have been worked on *)
Disconnect ==
  /\ callPc = "posting"
  /\ billed' \in {billed, billed + Cost}
  /\ TryAgain("connection", Backoff(attempt))

Busy ==
  /\ callPc = "posting"
  /\ \E status \in RetryStatuses, advice \in Advice :
       TryAgain("http", RetryAfterHeader(advice, Backoff(attempt)))
  /\ UNCHANGED billed

Refuse ==
  /\ callPc = "posting"
  /\ \E status \in PermanentStatuses : End(Failed("http"))
  /\ UNCHANGED billed

Garble ==
  /\ callPc = "posting"
  /\ \E error \in {"not json", "not an object"} : End(Failed(error))
  /\ billed' = billed + Cost

Respond ==
  /\ callPc = "posting"
  /\ \E body \in Bodies, shape \in Shapes, consumer \in Consumers :
       /\ End(Understood(ReadOutput(body), shape, consumer))
       /\ billed' = billed + body.tokens

\* Fault: a retry is a call of its own, with all its attempts before it.
WakeUpAnew ==
  /\ callPc = "waiting"
  /\ callPc' = "posting"
  /\ attempt' = 0 /\ pauses' = <<>> /\ billed' = 0
  /\ UNCHANGED <<again, result>>

WakeUp ==
  /\ callPc = "waiting"
  /\ callPc' = "posting"
  /\ attempt' = attempt + 1
  /\ UNCHANGED <<again, pauses, result, billed>>

(* The other provider: the library sends the request *)
AskAnthropic ==
  /\ callPc = "ready"
  /\ callPc' = "asking"
  /\ UNCHANGED <<attempt, again, pauses, result, billed>>

(* It sends it anew after a timeout, a lost connection, or a status that   *)
(* may pass; the request before may have been worked on                    *)
LibraryAsksAgain ==
  /\ callPc = "asking"
  /\ again < LibraryRetries
  /\ again' = again + 1
  /\ billed' \in {billed, billed + Cost}
  /\ UNCHANGED <<callPc, attempt, pauses, result>>

(* It raises, and its exception is the error *)
LibraryRaises ==
  /\ callPc = "asking"
  /\ End(Failed("exception"))
  /\ billed' \in {billed, billed + Cost}

LibraryReturns ==
  /\ callPc = "asking"
  /\ \E response \in Responses, shape \in Shapes, consumer \in Consumers :
       /\ End(Understood(Finish(response), shape, consumer))
       /\ billed' = billed + response.tokens

ClientNext ==
  \/ Post \/ Disconnect \/ Busy \/ Refuse \/ Garble \/ Respond \/ WakeUp
  \/ AskAnthropic \/ LibraryAsksAgain \/ LibraryRaises \/ LibraryReturns

ClientSpec == ClientInit /\ [][ClientNext]_clientVars /\ WF_clientVars(ClientNext)

------------------------------------------------------------------------------
(* A call ends with a text or with an error, never with both or neither    *)
(* (openai_client.py:148), after MaxRetries + 1 requests of its own or     *)
(* LibraryRetries + 1 of the library; what it slept itself is within the   *)
(* limit for each pause.                                                   *)
TextOrError ==
  /\ callPc = "done" => (result.text = "none" <=> result.error # "none")
  /\ attempt <= MaxRetries /\ again <= LibraryRetries
  /\ Len(pauses) = attempt + (IF callPc = "waiting" THEN 1 ELSE 0)
  /\ \A k \in 1..Len(pauses) : pauses[k] \in 0..MaxBackoff

(* The requests of a call whose answer was never read: those before the    *)
(* last one, and the last one if it ended in no answer                     *)
Unanswered == attempt + again + (IF result.stop = "none" THEN 1 ELSE 0)

(* What a call reports is what the budget will see.  It never reports more *)
(* than the provider charges, counts an answer it read also when it has no *)
(* use for it, and falls short by one request at most for each that was    *)
(* never answered, whoever sent it anew (openai_client.py:153,             *)
(* client.py:153).                                                         *)
ShortByTheUnanswered ==
  callPc = "done"
    => /\ result.tokens <= billed
       /\ billed <= result.tokens + Unanswered * Cost

CallIsAccounted == TextOrError /\ ShortByTheUnanswered

(* Every call comes to an end, so that no job waits for ever *)
CallEnds == (callPc \in {"posting", "asking"}) ~> (callPc = "done")

=============================================================================
