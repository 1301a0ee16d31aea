------------------------------- MODULE Snapshot -------------------------------
(***************************************************************************)
(* What a data server of the installation promises the clients that wait   *)
(* for their answers: an answer is one of the published states, whole, and *)
(* one that was in force at some moment between the request and the        *)
(* answer.  Nothing is promised once the server is gone.                   *)
(***************************************************************************)
EXTENDS Naturals

CONSTANTS
  Clients,
  Nothing,  \* no request is waiting, no answer has been read
  Wreck     \* an answer that is no state

VARIABLES
  open,       \* the server exists
  published,  \* states published so far; a state is its number
  asked,      \* the state in force when the waiting request was sent
  got         \* the last answer of each client

Init ==
  /\ open = TRUE
  /\ published = 0
  /\ asked = [c \in Clients |-> Nothing]
  /\ got = [c \in Clients |-> Nothing]

Publish ==
  /\ published' = published + 1
  /\ UNCHANGED <<open, asked, got>>

Ask(c) ==
  /\ asked[c] = Nothing
  /\ asked' = [asked EXCEPT ![c] = published]
  /\ UNCHANGED <<open, published, got>>

Answer(c) ==
  /\ asked[c] # Nothing
  /\ asked' = [asked EXCEPT ![c] = Nothing]
  /\ got' = [got EXCEPT ![c] = got'[c]]
  /\ got'[c] \in IF open THEN asked[c] .. published ELSE Nat \cup {Wreck}
  /\ UNCHANGED <<open, published>>

Leave(c) ==
  /\ asked' = [asked EXCEPT ![c] = Nothing]
  /\ UNCHANGED <<open, published, got>>

Close ==
  /\ open' = FALSE
  /\ UNCHANGED <<published, asked, got>>

Next == Publish \/ Close \/ \E c \in Clients : Ask(c) \/ Answer(c) \/ Leave(c)

Spec == Init /\ [][Next]_<<open, published, asked, got>>
=============================================================================
