---------------------------- MODULE CallContract ----------------------------
(***************************************************************************)
(* What the server promises about each tools/call, whatever threads, time  *)
(* limits, disconnects and answers do: a call changes the project at most  *)
(* once; once its human is asked it changes the project only after consent *)
(* and what the client is told of the change is final.  A client may also  *)
(* be told that the outcome is not known; the call may then still apply.   *)
(***************************************************************************)
CONSTANT Calls

VARIABLES
    fate,       \* unsent, open, applied, or void: it will never apply
    consent,    \* notAsked, asked, granted, refused
    told        \* nothing, applied, notApplied, unknown

cvars == <<fate, consent, told>>

TypeOK ==
    /\ fate \in [Calls -> {"unsent", "open", "applied", "void"}]
    /\ consent \in [Calls -> {"notAsked", "asked", "granted", "refused"}]
    /\ told \in [Calls -> {"nothing", "applied", "notApplied", "unknown"}]

Init ==
    /\ fate = [c \in Calls |-> "unsent"]
    /\ consent = [c \in Calls |-> "notAsked"]
    /\ told = [c \in Calls |-> "nothing"]

Send(c) ==
    /\ fate[c] = "unsent"
    /\ fate' = [fate EXCEPT ![c] = "open"]
    /\ UNCHANGED <<consent, told>>

Ask(c) ==
    /\ fate[c] = "open"
    /\ told[c] = "nothing"
    /\ consent[c] = "notAsked"
    /\ consent' = [consent EXCEPT ![c] = "asked"]
    /\ UNCHANGED <<fate, told>>

\* An answer may arrive late: it is recorded, but only an open call may use it.
Answer(c) ==
    /\ consent[c] = "asked"
    /\ \E a \in {"granted", "refused"} : consent' = [consent EXCEPT ![c] = a]
    /\ UNCHANGED <<fate, told>>

Apply(c) ==
    /\ fate[c] = "open"
    /\ consent[c] \in {"notAsked", "granted"}
    /\ fate' = [fate EXCEPT ![c] = "applied"]
    /\ UNCHANGED <<consent, told>>

TellApplied(c) ==
    /\ fate[c] = "applied"
    /\ told[c] = "nothing"
    /\ told' = [told EXCEPT ![c] = "applied"]
    /\ UNCHANGED <<fate, consent>>

TellNotApplied(c) ==
    /\ fate[c] = "open"
    /\ told[c] = "nothing"
    /\ fate' = [fate EXCEPT ![c] = "void"]
    /\ told' = [told EXCEPT ![c] = "notApplied"]
    /\ UNCHANGED consent

TellUnknown(c) ==
    /\ fate[c] \in {"open", "applied"}
    /\ told[c] = "nothing"
    /\ told' = [told EXCEPT ![c] = "unknown"]
    /\ UNCHANGED <<fate, consent>>

Step(c) ==
    \/ Send(c) \/ Ask(c) \/ Answer(c) \/ Apply(c)
    \/ TellApplied(c) \/ TellNotApplied(c) \/ TellUnknown(c)

Next == \E c \in Calls : Step(c)

Spec == Init /\ [][Next]_cvars
=============================================================================
