------------------------------- MODULE Outbox -------------------------------
(***************************************************************************)
(* What the notification queue promises about each message: it waits, the  *)
(* channel may be hit any number of times while it does, and it ends once, *)
(* delivered or abandoned, after which the channel is never hit again and  *)
(* only retention touches it.  Dispatcher.tla is shown to implement it.    *)
(***************************************************************************)
EXTENDS Integers, Sequences

CONSTANTS MaxAttempts, MaxSeq

VARIABLE box   \* seq -> [status, attempts, hits]

Gone == [status |-> "swept"]
New == [status |-> "waiting", attempts |-> 0, hits |-> 0]

Waits(s) == s \in DOMAIN box /\ box[s].status = "waiting"

Init == box = <<>>

Post == Len(box) < MaxSeq /\ box' = Append(box, New)

\* The channel accepts a message that is still waiting.
Hit(s) == Waits(s) /\ box' = [box EXCEPT ![s].hits = @ + 1]

\* A failed attempt is put on the message; the last one also ends it.
Retry(s) ==
  /\ Waits(s)
  /\ box[s].attempts + 1 < MaxAttempts
  /\ box' = [box EXCEPT ![s].attempts = @ + 1]

Exhaust(s) ==
  /\ Waits(s)
  /\ box[s].attempts + 1 = MaxAttempts
  /\ box' = [box EXCEPT ![s].attempts = @ + 1, ![s].status = "abandoned"]

\* Its channel or its alert is gone.
Orphan(s) == Waits(s) /\ box' = [box EXCEPT ![s].status = "abandoned"]

\* Only what the channel accepted is ever called delivered.
Deliver(s) ==
  /\ Waits(s)
  /\ box[s].hits > 0
  /\ box' = [box EXCEPT ![s].status = "delivered"]

\* Retention takes any number of finished messages at once.
Forget(old) ==
  /\ \A s \in old : s \in DOMAIN box /\ box[s].status \in {"delivered", "abandoned"}
  /\ box' = [s \in DOMAIN box |->
               IF s \in old THEN Gone ELSE box[s]]

Next ==
  \/ Post
  \/ \E s \in DOMAIN box :
       Hit(s) \/ Retry(s) \/ Exhaust(s) \/ Orphan(s) \/ Deliver(s)
  \/ \E old \in SUBSET DOMAIN box : Forget(old)

Spec == Init /\ [][Next]_box

=============================================================================
