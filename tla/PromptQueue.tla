---------------------------- MODULE PromptQueue ----------------------------
(***************************************************************************)
(* What the queue of waiting prompts promises to the person who typed them *)
(* and to the harness that runs them, with no files, claims, pauses or     *)
(* crashes in sight.  A prompt is accepted behind everything accepted      *)
(* before, is withdrawn or handed over, and only when nothing that was     *)
(* handed over is unfinished; it is handed over at most once.  Handing     *)
(* over is durable before the harness hears of it, so a harness that never *)
(* heard of a handed prompt is possible; one that heard twice is not.      *)
(***************************************************************************)
EXTENDS Naturals, Sequences

CONSTANTS Conv, Req

VARIABLES
  status,     \* of each prompt: new, queued, handed over, ended
  place,      \* its place in the queue
  delivered   \* per conversation, what the harness was told to run, in order

vars == <<status, place, delivered>>

\* Prompts, places and deliveries keep their shape.
TypeOK ==
  /\ status \in [Conv -> [Req -> {"new", "queued", "handed", "ended"}]]
  /\ place \in [Conv -> [Req -> Nat]]
  /\ delivered \in [Conv -> Seq(Req)]

Init ==
  /\ status = [c \in Conv |-> [r \in Req |-> "new"]]
  /\ place = [c \in Conv |-> [r \in Req |-> 0]]
  /\ delivered = [c \in Conv |-> <<>>]

Move(c, r, from, to) == status[c][r] = from /\ status' = [status EXCEPT ![c][r] = to]

Accept(c, r) ==
  /\ Move(c, r, "new", "queued")
  /\ place' = [place EXCEPT ![c][r] = place'[c][r]]
  /\ \A q \in Req : place[c][q] < place'[c][r]
  /\ UNCHANGED delivered

Withdraw(c, r) == Move(c, r, "queued", "ended") /\ UNCHANGED <<place, delivered>>

HandOver(c, r) ==
  /\ Move(c, r, "queued", "handed")
  /\ \A q \in Req : /\ status[c][q] # "handed"
                    /\ status[c][q] = "queued" => place[c][r] <= place[c][q]
  /\ delivered' \in {delivered, [delivered EXCEPT ![c] = Append(@, r)]}
  /\ UNCHANGED place

Finish(c, r) == Move(c, r, "handed", "ended") /\ UNCHANGED <<place, delivered>>

Next == \E c \in Conv, r \in Req : Accept(c, r) \/ Withdraw(c, r) \/ HandOver(c, r) \/ Finish(c, r)

Spec == Init /\ [][Next]_vars
=============================================================================
