----------------------------- MODULE ChangeFeed -----------------------------
(***************************************************************************)
(* What a flow promises about the changes of its ref, without its tasks,   *)
(* its state channel and the writer:                                       *)
(*                                                                         *)
(*   - a change is what the ref showed when it was compared with the sha   *)
(*     the flow knows; the first sha ever seen is only remembered;         *)
(*   - a change is offered once and then remembered, so the same daemon    *)
(*     offers it again only if the ref has moved in between;               *)
(*   - two changes are offered no faster than the cooldown allows;         *)
(*   - accepted changes are tried in order; one is lost only when the flow *)
(*     is cancelled or the daemon is killed;                               *)
(*   - a later generation goes on from something that was remembered.      *)
(***************************************************************************)
EXTENDS Naturals, Sequences

CONSTANTS
  Shas,       \* what the ref may point to
  NULL,       \* nothing
  Base,       \* where the ref points at first
  COOLDOWN    \* time between two offers

VARIABLES
  ref, time,
  life,       \* "running", "ending" after a cancellation, "down" without a daemon
  known,      \* the sha observations are compared with
  fired,      \* when the last offer that the flow remembers was found
  stage,      \* "look" at the ref, "offer" what was found, "remember" it
  found, at,  \* the sha being dealt with, and when it was found if it is a change
  queue,      \* accepted changes that nobody has tried yet
  tried,      \* shas that were tried
  kept,       \* shas a later generation may go on from
  stamps      \* times of offers it may go on from

hand == <<stage, found, at>>
vars == <<ref, time, life, known, fired, hand, queue, tried, kept, stamps>>

Init ==
  /\ ref = Base /\ time = 0 /\ life = "running"
  /\ known = NULL /\ fired = NULL
  /\ stage = "look" /\ found = NULL /\ at = NULL
  /\ queue = << >> /\ tried = {}
  /\ kept = {NULL} /\ stamps = {NULL}

\* The world moves on.
Move ==
  /\ ref' \in Shas \cup {NULL}
  /\ time' \in {time, time + 1}
  /\ UNCHANGED <<life, known, fired, hand, queue, tried, kept, stamps>>

\* The ref is read: a first or unchanged sha is remembered next, a change offered
\* next, unless the cooldown is open.
Find ==
  /\ life # "down" /\ stage = "look"
  /\ ref # NULL /\ found' = ref
  /\ IF known \in {NULL, ref}
     THEN stage' = "remember" /\ at' = NULL
     ELSE /\ fired = NULL \/ time - fired >= COOLDOWN
          /\ stage' = "offer" /\ at' = time
  /\ UNCHANGED <<ref, time, life, known, fired, queue, tried, kept, stamps>>

Offer ==
  /\ stage = "offer"
  /\ queue' = Append(queue, found)
  /\ stage' = "remember"
  /\ UNCHANGED <<ref, time, life, known, fired, found, at, tried, kept, stamps>>

Look == stage' = "look" /\ found' = NULL /\ at' = NULL

Remember ==
  /\ stage = "remember"
  /\ known' = found
  /\ kept' = kept \cup {found}
  /\ IF at = NULL
     THEN UNCHANGED <<fired, stamps>>
     ELSE fired' = at /\ stamps' = stamps \cup {at}
  /\ Look
  /\ UNCHANGED <<ref, time, life, queue, tried>>

\* A change that was not accepted is forgotten, for the next generation to find.
Abandon ==
  /\ life = "ending"
  /\ stage = "offer"
  /\ Look
  /\ UNCHANGED <<ref, time, life, known, fired, queue, tried, kept, stamps>>

Try ==
  /\ queue # << >>
  /\ queue' = Tail(queue)
  /\ tried' = tried \cup {Head(queue)}
  /\ UNCHANGED <<ref, time, life, known, fired, hand, kept, stamps>>

\* Somebody asks for a dispatch of what was remembered.
Repeat ==
  /\ life = "running"
  /\ \E s \in kept \ {NULL} : queue' = Append(queue, s)
  /\ UNCHANGED <<ref, time, life, known, fired, hand, tried, kept, stamps>>

Cancel ==
  /\ life = "running"
  /\ life' = "ending"
  /\ UNCHANGED <<ref, time, known, fired, hand, queue, tried, kept, stamps>>

\* A cancelled flow stops accepting and drops what it has not tried.
Close ==
  /\ life = "ending"
  /\ queue' = << >>
  /\ UNCHANGED <<ref, time, life, known, fired, hand, tried, kept, stamps>>

\* What may be gone on from is narrowed down as it is written.
Settle ==
  /\ kept' \in (SUBSET kept) \ {{}} /\ stamps' \in (SUBSET stamps) \ {{}}
  /\ UNCHANGED <<ref, time, life, known, fired, hand, queue, tried>>

Kill ==
  /\ life # "down"
  /\ life' = "down"
  /\ known' = NULL /\ fired' = NULL /\ Look /\ queue' = << >>
  /\ kept' \in (SUBSET kept) \ {{}} /\ stamps' \in (SUBSET stamps) \ {{}}
  /\ UNCHANGED <<ref, time, tried>>

Resume ==
  /\ life # "running" /\ stage = "look"
  /\ life' = "running"
  /\ known' \in kept /\ fired' \in stamps
  /\ queue' = << >>
  /\ UNCHANGED <<ref, time, hand, tried, kept, stamps>>

Next ==
  \/ Move \/ Find \/ Offer \/ Remember \/ Abandon \/ Try \/ Repeat
  \/ Cancel \/ Close \/ Settle \/ Kill \/ Resume

Spec == Init /\ [][Next]_vars
=============================================================================
