--------------------------- MODULE ApprovedSigning ---------------------------
(***************************************************************************)
(* What the application promises its user: a request is shown, granted or  *)
(* declined, and the only signature that ever leaves the device is one of  *)
(* the request granted last, and it leaves once, in one stream of chunks,  *)
(* unless that stream is resumed after a reset.                            *)
(***************************************************************************)
CONSTANTS Request, None

VARIABLES
  asked,    \* the request on screen
  granted,  \* the request the user granted, until it is signed
  held,     \* the request whose signature is being streamed out
  out       \* the request whose signature the last answer is part of

vars == <<asked, granted, held, out>>

Init == asked = None /\ granted = None /\ held = None /\ out = None

Ask ==
  /\ asked = None /\ granted = None /\ held = None
  /\ asked' \in Request
  /\ UNCHANGED <<granted, held, out>>

Decline ==
  /\ asked \in Request /\ asked' = None
  /\ UNCHANGED <<granted, held, out>>

Grant ==
  /\ asked \in Request
  /\ granted' = asked /\ asked' = None
  /\ UNCHANGED <<held, out>>

\* The signature is made and its first chunk leaves.
Deliver ==
  /\ granted \in Request
  /\ held' = granted /\ out' = granted /\ granted' = None
  /\ UNCHANGED asked

\* No signature can be made.
GiveUp ==
  /\ granted \in Request /\ granted' = None
  /\ UNCHANGED <<asked, held, out>>

\* Another chunk of the same signature.
Continue ==
  /\ held \in Request /\ out' = held
  /\ UNCHANGED <<asked, granted, held>>

\* The last chunk is out.
Finish ==
  /\ held \in Request /\ held' = None
  /\ UNCHANGED <<asked, granted, out>>

\* Any other answer.
Answer ==
  /\ asked = None /\ granted = None
  /\ out' = None
  /\ UNCHANGED <<asked, granted, held>>

\* A restart takes back requests and grants; a stream may survive it.
Reset ==
  /\ asked' = None /\ granted' = None /\ out' = None
  /\ held' \in {held, None}

Next ==
  \/ Ask \/ Decline \/ Grant \/ Deliver \/ GiveUp
  \/ Continue \/ Finish \/ Answer \/ Reset

Spec == Init /\ [][Next]_vars
=============================================================================
