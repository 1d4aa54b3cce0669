---------------------------- MODULE QueryCache -----------------------------
(***************************************************************************)
(* The client cache of react-query as the dashboard uses it: one entry and *)
(* at most one live request per key.  A request is a record with the key,  *)
(* what was asked and `ver`, the version of the data it was answered from. *)
(***************************************************************************)
EXTENDS Integers

VARIABLES
    cache,    \* key -> [req, ver], the last answer
    failed,   \* keys whose last fetch failed
    flights   \* requests under way

Unanswered == -1

InFlight(k) == \E f \in flights : f.key = k

\* A query is needed: a request under way is shared; asking for a key without
\* data forgets the error of the last time.
Fetch(asks) ==
    LET new == {a \in asks : ~InFlight(a.key)} IN
    /\ flights' = flights \cup new
    /\ failed' = failed \ ({a.key : a \in new} \ DOMAIN cache)

\* refetch() and invalidateQueries: where there is data a request under way is
\* cancelled, its answer will be ignored; where there is none it is shared.
Refetch(asks) ==
    LET again == {a \in asks : a.key \in DOMAIN cache \/ ~InFlight(a.key)}
        keys == {a.key : a \in again}
    IN
    /\ flights' = {f \in flights : f.key \notin keys} \cup again
    /\ failed' = failed \ (keys \ DOMAIN cache)

\* The cache once the answer f has arrived.
Stored(f) ==
    [k \in DOMAIN cache \cup {f.key} |->
        IF k = f.key THEN [req |-> f.req, ver |-> f.ver] ELSE cache[k]]
=============================================================================
