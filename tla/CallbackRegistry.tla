---------------------------- MODULE CallbackRegistry ---------------------------
(***************************************************************************)
(* What the proxy promises to a client that changes its callbacks: a       *)
(* command is decided once, its outcome and its effect on the routes come  *)
(* at the same moment, and a caller is told the outcome of its own command *)
(* and nothing else.  After that the command has no effect any more, even  *)
(* when the proxy has forgotten it, unless the client itself asked again.  *)
(***************************************************************************)
EXTENDS CallbackRoutes

CONSTANTS
    Command,    \* command IDs
    Menu        \* what a client may ask for under an ID

VARIABLES
    asked,      \* what each client asked for
    again,      \* requests made more than once
    decided,    \* outcomes the proxy remembers
    past,       \* every outcome there has been for a request
    told        \* outcomes returned to the callers

registryVars == <<routeVars, asked, again, decided, past, told>>

Call == DOMAIN Menu

RegistryInit ==
    /\ RoutesOK
    /\ asked = [x \in Call |-> None]
    /\ again = {}
    /\ decided = [k \in Command |-> None]
    /\ past = [x \in Call |-> {}]
    /\ told = [x \in Call |-> None]

\* A client may ask again, but an ID stands for one request.
Ask(x) ==
    /\ \E p \in Menu[x] :
          asked[x] \in {None, p} /\ asked' = [asked EXCEPT ![x] = p]
    /\ again' = IF asked[x] = None THEN again ELSE again \cup {x}
    /\ told' = [told EXCEPT ![x] = None]
    /\ UNCHANGED <<routeVars, decided, past>>

Decide(x) ==
    /\ asked[x] # None
    /\ decided[x[2]] = None
    /\ told[x] = None \/ x \in again
    /\ \E outcome \in Outcome :
          /\ Apply(x[1], asked[x], outcome)
          /\ decided' = [decided EXCEPT ![x[2]] =
                           [client |-> x[1], payload |-> asked[x], outcome |-> outcome]]
          /\ past' = [past EXCEPT ![x] = @ \cup {outcome}]
    /\ UNCHANGED <<asked, again, told>>

\* The proxy may have forgotten the command meanwhile.
Tell(x) ==
    /\ told[x] = None
    /\ \E outcome \in past[x] : told' = [told EXCEPT ![x] = outcome]
    /\ UNCHANGED <<routeVars, asked, again, decided, past>>

Forget ==
    \/ /\ \E k \in Command : decided' = [decided EXCEPT ![k] = None]
       /\ UNCHANGED <<routeVars, asked, again, past, told>>
    \/ /\ \E w \in Webhook : DropRoute(w)
       /\ UNCHANGED <<asked, again, decided, past, told>>

RegistryNext == (\E x \in Call : Ask(x) \/ Decide(x) \/ Tell(x)) \/ Forget

RegistrySpec == RegistryInit /\ [][RegistryNext]_registryVars

================================================================================
