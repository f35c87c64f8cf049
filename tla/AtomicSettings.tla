--------------------------- MODULE AtomicSettings ---------------------------
(***************************************************************************)
(* What ModifyConfiguration promises: "atomic updates", and "identically   *)
(* across filesystem and database store backends" (docs/autoacme-alpn.md). *)
(* A request that is granted changes the fields it names, in one step, and *)
(* leaves the others as they are; one that is refused changes nothing.     *)
(***************************************************************************)
CONSTANTS
    Fields, Values, Writers,
    Kept   \* the fields that are settings of the store: nothing is kept of others

VARIABLES
    settings,  \* the value of every field
    asked,     \* the field each writer wants to set, and to what
    answer     \* the answer to a writer's last request

Unset == "unset"
Nothing == [f \in {} |-> Unset]
Patches == {[x \in {f} |-> v] : f \in Fields, v \in Values \cup {Unset}}

(* The settings s with what p sets of them. *)
Patched(p, s) == [f \in Fields |-> IF f \in DOMAIN p \cap Kept THEN p[f] ELSE s[f]]

Init ==
    /\ settings = [f \in Fields |-> Unset]
    /\ asked = [w \in Writers |-> Nothing]
    /\ answer = [w \in Writers |-> "none"]

Ask(w, p) ==
    /\ asked[w] = Nothing
    /\ asked' = [asked EXCEPT ![w] = p]
    /\ UNCHANGED <<settings, answer>>

Grant(w) ==
    /\ asked[w] # Nothing
    /\ settings' = Patched(asked[w], settings)
    /\ asked' = [asked EXCEPT ![w] = Nothing]
    /\ answer' = [answer EXCEPT ![w] = "ok"]

Refuse(w) ==
    /\ asked[w] # Nothing
    /\ asked' = [asked EXCEPT ![w] = Nothing]
    /\ answer' = [answer EXCEPT ![w] = "error"]
    /\ UNCHANGED settings

(* Every step asks or answers, so something else is asked for after it. *)
Next ==
    /\ asked' # asked
    /\ \E w \in Writers : (\E p \in Patches : Ask(w, p)) \/ Grant(w) \/ Refuse(w)

vars == <<settings, asked, answer>>
Spec == Init /\ [][Next]_vars
=============================================================================
