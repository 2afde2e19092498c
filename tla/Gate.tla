-------------------------------- MODULE Gate --------------------------------
(***************************************************************************)
(* The care for an account: telegram/safety.py and the steps of            *)
(* telegram/sender.push that wait or ask it.  The worker and the control   *)
(* bot push through one gate and one bucket.  What is sent, and where it   *)
(* is written down, is Outbox's; here there is time.                       *)
(*                                                                         *)
(* The bucket holds ticks: it gains one with every tick, and a message     *)
(* costs Interval of them (60 / rate_per_minute).                          *)
(***************************************************************************)
EXTENDS Integers, FiniteSets, Sequences

CONSTANTS Pushers,        \* the worker, and each press of a button in the bot
          Burst,          \* send_burst
          Interval,       \* ticks in which a token is regained
          Margin,         \* the five seconds of note_flood_wait
          Waits,          \* lengths of wait that Telegram asks for
          MaxParts,       \* messages of an answer
          DayTicks,       \* bound: ticks of a day
          Ahead,          \* the academy's clock is that far ahead of UTC
          QuietStart, QuietEnd,   \* of the academy's day
          LastTick        \* bound: how long the account is watched

ASSUME GateAssumption ==
  /\ IsFiniteSet(Pushers) /\ Waits \subseteq Nat
  /\ Burst \in Nat \ {0} /\ Interval \in Nat \ {0} /\ Margin \in Nat
  /\ MaxParts \in Nat \ {0} /\ DayTicks \in Nat \ {0} /\ Ahead \in Nat /\ LastTick \in Nat
  /\ QuietStart \in 0..(DayTicks - 1) /\ QuietEnd \in 0..(DayTicks - 1)

VARIABLES now,
          gate,       \* AccountGate: send_paused, flood_wait_until (0 if none)
          bucket,     \* TokenBucket, filled up to this tick
          push,       \* each pusher: where it is, when it began, parts to go
          sends,      \* when parts were sent, since the process started
          barred,     \* Telegram: no call before this time
          hurt        \* how the gate's account of the wait went wrong, and
                      \* whether Telegram was called within one
gateVars == <<now, gate, bucket, push, sends, barred, hurt>>

NoPush == [pc |-> "idle", began |-> 0, left |-> 0]
Fresh(paused) == [paused |-> paused, until |-> 0]

GateInit ==
  /\ now = 0
  /\ gate = Fresh(FALSE)
  /\ bucket = Burst * Interval
  /\ push = [p \in Pushers |-> NoPush]
  /\ sends = <<>>
  /\ barred = 0
  /\ hurt = {}

(* in_quiet_hours, over midnight too *)
LocalTime(t) == (t + Ahead) % DayTicks
InQuietHours(t) ==
  IF QuietStart <= QuietEnd
  THEN QuietStart <= LocalTime(t) /\ LocalTime(t) < QuietEnd
  ELSE QuietStart <= LocalTime(t) \/ LocalTime(t) < QuietEnd

(* blocked_reason *)
IsBlocked == gate.paused \/ now < gate.until \/ InQuietHours(now)

(* The gate is asked once, before the first part *)
Start(p) ==
  /\ push[p].pc = "idle"
  /\ ~IsBlocked
  /\ \E parts \in 1..MaxParts :
       push' = [push EXCEPT ![p] = [pc |-> "queued", began |-> now, left |-> parts]]
  /\ UNCHANGED <<now, gate, bucket, sends, barred, hurt>>

(* TokenBucket.wait; what follows takes human_delay_seconds *)
TakeToken(p) ==
  /\ push[p].pc = "queued"
  /\ bucket >= Interval
  /\ bucket' = bucket - Interval
  /\ push' = [push EXCEPT ![p].pc = "typing"]
  /\ UNCHANGED <<now, gate, sends, barred, hurt>>

Called == hurt \union (IF now < barred THEN {"called"} ELSE {})

SendPart(p) ==
  /\ push[p].pc = "typing"
  /\ now >= barred
  /\ sends' = Append(sends, now)
  /\ push' = [push EXCEPT ![p] =
                IF push[p].left = 1 THEN NoPush
                ELSE [push[p] EXCEPT !.pc = "queued", !.left = @ - 1]]
  /\ UNCHANGED <<now, gate, bucket, barred, hurt>>

\* Fault: the margin is forgotten.
NoteBareWait(p, wait) == gate' = [gate EXCEPT !.until = push[p].began + wait]

(* note_flood_wait(seconds, now = when the push began) *)
NoteFloodWait(p, wait) == gate' = [gate EXCEPT !.until = push[p].began + wait + Margin]

Later(s, t) == IF s > t THEN s ELSE t

MeetFloodWait(p) ==
  /\ push[p].pc = "typing"
  /\ \E wait \in Waits :
       /\ NoteFloodWait(p, wait)
       /\ barred' = Later(barred, now + wait)
  /\ push' = [push EXCEPT ![p] = NoPush]
  /\ hurt' = Called
       \union (IF now > push[p].began + Margin THEN {"slow"} ELSE {})
       \union (IF \E q \in Pushers \ {p} : push[q].pc # "idle" THEN {"overlap"} ELSE {})
  /\ UNCHANGED <<now, bucket, sends>>

(* Any other error ends the push *)
BreakOff(p) ==
  /\ push[p].pc = "typing"
  /\ push' = [push EXCEPT ![p] = NoPush]
  /\ hurt' = Called
  /\ UNCHANGED <<now, gate, bucket, sends, barred>>

Tick ==
  /\ now < LastTick
  /\ now' = now + 1
  /\ bucket' = IF bucket < Burst * Interval THEN bucket + 1 ELSE bucket
  /\ UNCHANGED <<gate, push, sends, barred, hurt>>

(* cli.py builds gate and bucket anew; send_paused is read from the account *)
Restart ==
  /\ "restart" \notin hurt
  /\ gate' \in {Fresh(paused) : paused \in BOOLEAN}
  /\ bucket' = Burst * Interval
  /\ push' = [p \in Pushers |-> NoPush]
  /\ sends' = <<>>
  /\ hurt' = hurt \union {"restart"}
  /\ UNCHANGED <<now, barred>>

GateNext ==
  \/ \E p \in Pushers :
       Start(p) \/ TakeToken(p) \/ SendPart(p) \/ MeetFloodWait(p) \/ BreakOff(p)
  \/ Tick
  \/ Restart

GateSpec == GateInit /\ [][GateNext]_gateVars

------------------------------------------------------------------------------
(* However many answers wait, the account sends no faster than its rate    *)
(* and one burst allow (safety.py:16-20, docs/TELEGRAM_SAFETY.md:26-28) but *)
(* for one message of each push: between its token and its message lies    *)
(* the typing.  This is as long as the process lives.                      *)
RateIsKept ==
  \A i, j \in DOMAIN sends :
    i <= j => (j - i + 1) * Interval
                <= (Burst + Cardinality(Pushers)) * Interval + (sends[j] - sends[i])

(* The account's gate stays shut at least as long as Telegram asked,       *)
(* provided that the refusal came within the margin after the push began,  *)
(* that no other push was under way, and that the process has lived on.    *)
GateCoversTheWait == hurt \subseteq {"called"} => barred <= gate.until

GateIsKept == RateIsKept /\ GateCoversTheWait

=============================================================================
