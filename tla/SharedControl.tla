--------------------------- MODULE SharedControl ---------------------------
(* What the synchronisation of a coordinated set promises about a control   *)
(* that every member keeps for itself (volume, mute): users and the host    *)
(* change it at will, the members then exchange the change, and the         *)
(* exchange ends only when the members that are there agree.  Outside an    *)
(* exchange no member's setting moves unless its user moves it.  A message  *)
(* of an exchange may fail; the members may then be left in disagreement    *)
(* until the next exchange.                                                 *)
EXTENDS Naturals

CONSTANTS
    Members,   \* members of the set
    Settings   \* values of the control

VARIABLES
    setting,   \* setting[m]: the value member m uses
    present,   \* members with a link
    busy,      \* an exchange is going on
    loose,     \* a member has come back, or a message has failed, and nothing
               \* was exchanged since
    failures   \* messages that have failed

vars == <<setting, present, busy, loose, failures>>

Agreed(s, p) == \A m, n \in p : s[m] = s[n]

TypeOK ==
    /\ setting \in [Members -> Settings]
    /\ present \subseteq Members
    /\ {busy, loose} \subseteq BOOLEAN
    /\ failures \in Nat

Init ==
    /\ setting \in [Members -> Settings]
    /\ present = Members
    /\ Agreed(setting, present)
    /\ busy = FALSE
    /\ loose \in BOOLEAN
    /\ failures = 0

\* An exchange may end in a state where the members agree; it leaves "loose"
\* or has made the set whole again.
Ends ==
    /\ loose' \in {loose, FALSE}
    /\ busy' = FALSE => loose' \/ Agreed(setting', present')

\* At most member m gets another setting.
Moves(m) == setting' \in [Members -> Settings] /\ setting' = [setting EXCEPT ![m] = setting'[m]]

\* A user changes a member; a member without a link keeps it to itself.
Change(m) ==
    /\ Moves(m)
    /\ busy' = (busy \/ m \in present)
    /\ UNCHANGED <<present, loose, failures>>

\* The host asks for a change; the members, or none of them, hear of it.
Ask ==
    /\ \/ busy' = TRUE /\ failures' = failures
       \/ busy' \in {busy, TRUE} /\ failures' = failures + 1
    /\ UNCHANGED <<setting, present, loose>>

\* A member that is there follows, or the exchange moves on without a change.
\* Only a message that fails makes the set loose.
Exchange(m) ==
    /\ busy
    /\ m \in present
    /\ Moves(m)
    /\ busy' \in BOOLEAN
    /\ \/ failures' = failures /\ Ends
       \/ failures' = failures + 1 /\ loose' = TRUE
    /\ UNCHANGED present

Leave(m) ==
    /\ present' = present \ {m}
    /\ busy' \in {busy, FALSE}
    /\ Ends
    /\ UNCHANGED <<setting, failures>>

Return(m) ==
    /\ present' = present \union {m}
    /\ loose' = TRUE
    /\ UNCHANGED <<setting, busy, failures>>

Next ==
    \/ Ask
    \/ \E m \in Members : Change(m) \/ Exchange(m) \/ Leave(m) \/ Return(m)

Spec == Init /\ [][Next]_vars
=============================================================================
