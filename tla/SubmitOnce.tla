----------------------------- MODULE SubmitOnce -----------------------------
(***************************************************************************)
(* What submission promises a client that retries: an idempotency key is   *)
(* bound to one request body and one session, once and for all; whoever    *)
(* gets an answer is told the truth about that binding; an error says      *)
(* nothing, and in particular does not say that nothing was stored.        *)
(***************************************************************************)
CONSTANTS Request, Key, Body, Id, Nobody

VARIABLES
    binding,   \* key -> the session bound to it: its id and the body, or Nobody
    asked,     \* request -> [key, body], or Nobody
    reply      \* request -> [code, id]

Pending == [code |-> "none", id |-> Nobody]

Init ==
    /\ binding = [k \in Key |-> Nobody]
    /\ asked = [r \in Request |-> Nobody]
    /\ reply = [r \in Request |-> Pending]

Ask(r) ==
    /\ asked[r] = Nobody
    /\ \E k \in Key, b \in Body : asked' = [asked EXCEPT ![r] = [key |-> k, body |-> b]]
    /\ UNCHANGED <<binding, reply>>

\* A free key is bound on behalf of a request that has no reply yet.
Bind(r) ==
    /\ asked[r] # Nobody
    /\ reply[r] = Pending
    /\ binding[asked[r].key] = Nobody
    /\ \E id \in Id :
          /\ \A k \in Key : binding[k] # Nobody => binding[k].id # id
          /\ binding' = [binding EXCEPT ![asked[r].key] =
                            [id |-> id, body |-> asked[r].body, by |-> r]]
    /\ UNCHANGED <<asked, reply>>

\* The reply names the bound session and says whether this request made it; a
\* conflict means the key is bound to another body; an error is always allowed.
Truthful(r, a) ==
    LET b == binding[asked[r].key] IN
    \/ a = [code |-> "error", id |-> Nobody]
    \/ /\ b # Nobody
       /\ b.body = asked[r].body
       /\ a = [code |-> IF b.by = r THEN "created" ELSE "replay", id |-> b.id]
    \/ /\ b # Nobody
       /\ b.body # asked[r].body
       /\ a = [code |-> "conflict", id |-> Nobody]

Answer(r) ==
    /\ asked[r] # Nobody
    /\ reply[r] = Pending
    /\ Truthful(r, reply'[r])
    /\ \A q \in Request \ {r} : reply'[q] = reply[q]
    /\ DOMAIN reply' = Request
    /\ UNCHANGED <<binding, asked>>

Next == \E r \in Request : Ask(r) \/ Bind(r) \/ Answer(r)

Spec == Init /\ [][Next]_<<binding, asked, reply>>
=============================================================================
