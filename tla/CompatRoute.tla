---------------------------- MODULE CompatRoute ----------------------------
(***************************************************************************)
(* moveLinkCompat and getRevisionVerificationCompat: the API client is     *)
(* asked by reflection for a method that works by volume and, if it has    *)
(* none, for one that works by share.  What a method of that name turns    *)
(* out to be is up to the version of the client that was linked.           *)
(***************************************************************************)
EXTENDS Session, FiniteSets

VARIABLES
    route,     \* "idle", the route tried next, or "done"
    method,    \* [by volume, by share]: what the client has under each name
    invoked,   \* the routes whose method was called
    effects,   \* server: how many requests were carried out (one that the API
               \* client repeats by itself is one)
    outcome    \* what the compat function returned

compatVars == <<route, method, invoked, effects, outcome>>

Routes == {"volume", "share"}

\* Not there; or called in vain: with parameters of another number or type;
\* or called: it panics, its results are not those expected, or it works.
Kinds == {"absent", "parameters", "panics", "results", "works"}

CompatTypeOK ==
    /\ route \in Routes \cup {"idle", "done"}
    /\ method \in [Routes -> Kinds] /\ invoked \subseteq Routes
    /\ effects \in 0..2 /\ outcome \in {"none", "ok", "error"}

CompatInit ==
    /\ route = "idle" /\ method = [r \in Routes |-> "absent"]
    /\ invoked = {} /\ effects = 0 /\ outcome = "none"

Call ==
    /\ route = "idle" /\ pc = "open"
    /\ route' = "volume" /\ method' \in [Routes -> Kinds]
    /\ UNCHANGED <<invoked, effects, outcome>>

Finish(how) == route' = "done" /\ outcome' = how

\* The route after r, or none: no compatible method found.
TryNext(r) == IF r = "volume" THEN route' = "share" /\ UNCHANGED outcome ELSE Finish("error")

\* findAndCallMethod does not find the method: called is false.
NotFound ==
    /\ route \in Routes /\ method[route] = "absent"
    /\ TryNext(route)
    /\ UNCHANGED <<method, invoked, effects>>

\* Its parameters are not those of the call: an error, and called is true.
Incompatible ==
    /\ route \in Routes /\ method[route] = "parameters"
    /\ Finish("error")
    /\ UNCHANGED <<method, invoked, effects>>

\* The server carries out the request.
CarriedOut == Online /\ effects' = effects + 1

\* An error leads to the other route.
Invoke_Mutant ==
    /\ route \in Routes /\ method[route] \in {"panics", "results", "works"}
    /\ invoked' = invoked \cup {route}
    /\ \/ method[route] = "works" /\ CarriedOut /\ Finish("ok")
       \/ (CarriedOut \/ UNCHANGED effects) /\ TryNext(route)
    /\ UNCHANGED method

\* The method is called.  A panic is recovered and, as unexpected results are,
\* returned as an error; so is the error of a request that failed, or whose
\* answer was lost.
Invoke ==
    /\ route \in Routes /\ method[route] \in {"panics", "results", "works"}
    /\ invoked' = invoked \cup {route}
    /\ \/ method[route] = "works" /\ CarriedOut /\ Finish("ok")
       \/ (CarriedOut \/ UNCHANGED effects) /\ Finish("error")
    /\ UNCHANGED method

Forget ==
    /\ route' = "idle" /\ method' = [r \in Routes |-> "absent"]
    /\ invoked' = {} /\ effects' = 0 /\ outcome' = "none"

Compat == Call \/ NotFound \/ Incompatible \/ Invoke

\* A request that may have been carried out is never made again by the other
\* route, and success is reported only of one that was carried out.
AtMostOneRoute ==
    /\ Cardinality(invoked) <= 1 /\ effects <= 1
    /\ outcome = "ok" => effects = 1
=============================================================================
